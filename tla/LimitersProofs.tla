--------------------------- MODULE LimitersProofs ---------------------------
(* Proofs about the rate limiter, for any number of keys and requests and  *)
(* any window, limit and block duration, and then about the native one, for *)
(* any number of threads as well.                                          *)
EXTENDS Limiters, FiniteSetTheorems, SequenceTheorems, WellFoundedInduction, TLAPS

-----------------------------------------------------------------------------
(* Type correctness, with the finiteness its cardinalities need.            *)

LEMMA ContinueType ==
  ASSUME TypeOK, NEW r \in Requests, NEW call \in Call, Continue(r, call)
  PROVE  /\ queue' \in Seq(Requests)
         /\ DOMAIN request' \subseteq Requests
         /\ \A q \in DOMAIN request' : request'[q] \in Call
<1>1. Tail(queue) \in Seq(Requests)
  BY DEF TypeOK, Continue
<1>2. Append(Tail(queue), r) \in Seq(Requests)
  BY <1>1
<1> QED BY <1>2 DEF TypeOK, Continue, Put

LEMMA FinishType ==
  ASSUME TypeOK, NEW r \in Requests, NEW call \in Call, Finish(r, call)
  PROVE  /\ queue' \in Seq(Requests)
         /\ DOMAIN request' \subseteq Requests
         /\ \A q \in DOMAIN request' : request'[q] \in Call
BY DEF TypeOK, Finish, Put

Finite ==
  /\ IsFiniteSet(DOMAIN request)
  /\ \A k \in DOMAIN requests : IsFiniteSet(requests[k].stamps)

LEMMA CountType ==
  ASSUME TypeOK, Finite, NEW r \in Requests, Count(r)
  PROVE  TypeOK' /\ Finite'
<1> DEFINE k    == request[r].key
           reqs == InWindow(Stamps(k), request[r].at)
                     \cup {[req |-> r, at |-> request[r].at]}
<1>1. /\ request[r] \in Call /\ k \in Keys
  BY DEF TypeOK, Call, Count
<1>2. reqs \in SUBSET Stamp
  BY <1>1 DEF InWindow, Stamps, Stamp, TypeOK, Call
<1>3. IsFiniteSet(reqs)
  <2>1. IsFiniteSet(Stamps(k))
    BY FS_EmptySet DEF Finite, Stamps
  <2>2. IsFiniteSet(InWindow(Stamps(k), request[r].at))
    BY <2>1, FS_Subset DEF InWindow
  <2> QED BY <2>2, FS_AddElement
<1>4. Cardinality(reqs) \in Nat
  BY <1>3, FS_CardinalityType
<1>5. Cardinality({q \in DOMAIN request : Counted(q)}) \in Nat
  <2>1. {q \in DOMAIN request : Counted(q)} \subseteq DOMAIN request
    OBVIOUS
  <2> QED BY <2>1, FS_Subset, FS_CardinalityType DEF Finite
<1>6. [request[r] EXCEPT !.stage = "counted", !.count = Cardinality(reqs)] \in Call
  BY <1>1, <1>4 DEF Call
<1>7. /\ queue' \in Seq(Requests)
      /\ DOMAIN request' \subseteq Requests
      /\ \A q \in DOMAIN request' : request'[q] \in Call
  BY <1>6, ContinueType DEF Count
<1>8. /\ DOMAIN requests' \subseteq Keys
      /\ \A j \in DOMAIN requests' : requests'[j] \in [stamps : SUBSET Stamp, born : Nat]
  BY <1>1, <1>2, <1>5 DEF TypeOK, Count, Put
<1>9. \A j \in DOMAIN requests' : IsFiniteSet(requests'[j].stamps)
  BY <1>3 DEF Finite, Count, Put
<1>10. IsFiniteSet(DOMAIN request')
  BY DEF Finite, Count, Continue, Put
<1> QED BY <1>1, <1>7, <1>8, <1>9, <1>10 DEF TypeOK, Finite, Count

LEMMA StartType ==
  ASSUME TypeOK, Finite, NEW r \in Requests, NEW k \in Keys, Start(r, k)
  PROVE  TypeOK' /\ Finite'
<1> USE DEF Start
<1>1. [stage |-> "asked", key |-> k, until |-> IF Blocked(k) THEN blocked[k] ELSE 0,
       at |-> 0, count |-> 0] \in Call
  BY DEF Call, TypeOK, Blocked
<1>2. /\ DOMAIN request' = DOMAIN request \cup {r}
      /\ \A q \in DOMAIN request' : request'[q] \in Call
  BY <1>1 DEF TypeOK, Put
<1>3. DOMAIN blocked' \subseteq Keys /\ \A j \in DOMAIN blocked' : blocked'[j] \in Nat
  BY DEF TypeOK, Drop
<1>4. queue' \in Seq(Requests)
  BY DEF TypeOK
<1>5. IsFiniteSet(DOMAIN request')
  BY <1>2, FS_AddElement DEF Finite
<1> QED BY <1>2, <1>3, <1>4, <1>5 DEF TypeOK, Finite

LEMMA ForgottenType ==
  ASSUME TypeOK, NEW S
  PROVE  /\ DOMAIN Forgotten(S) = DOMAIN request
         /\ \A q \in DOMAIN request : Forgotten(S)[q] \in Call
BY DEF TypeOK, Forgotten, Call

LEMMA EnterType ==
  ASSUME TypeOK, Finite, NEW r \in Requests, Enter(r)
  PROVE  TypeOK' /\ Finite'
<1>1. PICK S \in Room :
        /\ requests' = Drop(requests, S)
        /\ blocked' = Drop(blocked, S)
        /\ locks' = (locks \ S) \cup {request[r].key}
        /\ request' = [Forgotten(S) EXCEPT ![r].stage = "entered", ![r].at = now]
  BY DEF Enter
<1>2. /\ DOMAIN request' = DOMAIN request
      /\ \A q \in DOMAIN request' : request'[q] \in Call
  <2>1. \A q \in DOMAIN request : Forgotten(S)[q] \in Call
    BY ForgottenType
  <2>2. DOMAIN Forgotten(S) = DOMAIN request
    BY ForgottenType
  <2>3. now \in Nat
    BY DEF TypeOK
  <2> QED BY <1>1, <2>1, <2>2, <2>3 DEF Call
<1>3. queue' \in Seq(Requests)
  <2>1. Tail(queue) \in Seq(Requests)
    BY DEF Enter, TypeOK
  <2> QED BY <2>1 DEF Enter
<1>4. request[r].key \in Keys
  BY DEF Enter, TypeOK, Call
<1>5. /\ DOMAIN requests' \subseteq Keys
      /\ \A j \in DOMAIN requests' : requests'[j] \in [stamps : SUBSET Stamp, born : Nat]
      /\ DOMAIN blocked' \subseteq Keys /\ \A j \in DOMAIN blocked' : blocked'[j] \in Nat
      /\ locks' \subseteq Keys
      /\ \A j \in DOMAIN requests' : IsFiniteSet(requests'[j].stamps)
  BY <1>1, <1>4 DEF TypeOK, Finite, Drop
<1>6. IsFiniteSet(DOMAIN request')
  BY <1>2 DEF Finite
<1> QED BY <1>2, <1>3, <1>5, <1>6 DEF TypeOK, Finite, Enter

LEMMA AnswerType ==
  ASSUME TypeOK, Finite, NEW r \in Requests, Refuse(r) \/ Pass(r) \/ Limit(r)
  PROVE  TypeOK' /\ Finite'
<1>1. request[r] \in Call /\ request[r].key \in Keys
  BY DEF TypeOK, Call, Refuse, Pass, Limit
<1>2. /\ [request[r] EXCEPT !.stage = "refused"] \in Call
      /\ [request[r] EXCEPT !.stage = "passed"] \in Call
      /\ [request[r] EXCEPT !.stage = "limited"] \in Call
  BY <1>1 DEF Call
<1>3. /\ queue' \in Seq(Requests)
      /\ DOMAIN request' \subseteq Requests
      /\ \A q \in DOMAIN request' : request'[q] \in Call
  BY <1>2, FinishType DEF Refuse, Pass, Limit
<1>4. DOMAIN blocked' \subseteq Keys /\ \A j \in DOMAIN blocked' : blocked'[j] \in Nat
  BY <1>1, LimiterAssumption DEF TypeOK, Refuse, Pass, Limit, Put
<1>5. IsFiniteSet(DOMAIN request')
  BY DEF Finite, Refuse, Pass, Limit, Finish, Put
<1> QED BY <1>3, <1>4, <1>5 DEF TypeOK, Finite, Refuse, Pass, Limit

LEMMA OtherType ==
  ASSUME TypeOK, Finite,
         \/ \E k \in Keys : UnblockIP(k) \/ \E ms \in OperatorMs : BlockIP(k, ms)
         \/ Cleanup \/ Destroy \/ Tick \/ UNCHANGED vars
  PROVE  TypeOK' /\ Finite'
<1>1. ASSUME NEW k \in Keys, UnblockIP(k) PROVE TypeOK' /\ Finite'
  BY <1>1, ForgottenType DEF TypeOK, Finite, UnblockIP, Drop
<1>2. ASSUME NEW k \in Keys, NEW ms \in OperatorMs, BlockIP(k, ms) PROVE TypeOK' /\ Finite'
  BY <1>2, LimiterAssumption DEF TypeOK, Finite, BlockIP, Put
<1>3. ASSUME Cleanup PROVE TypeOK' /\ Finite'
  <2>1. \A S \in SUBSET Stamp : InWindow(S, now) \in SUBSET Stamp
    BY DEF InWindow
  <2>2. \A k \in DOMAIN requests : IsFiniteSet(InWindow(requests[k].stamps, now))
    BY FS_Subset DEF InWindow, Finite
  <2> QED BY <1>3, <2>1, <2>2 DEF TypeOK, Finite, Cleanup
<1>4. ASSUME Destroy PROVE TypeOK' /\ Finite'
  BY <1>4, ForgottenType DEF TypeOK, Finite, Destroy, Empty
<1>5. ASSUME Tick PROVE TypeOK' /\ Finite'
  BY <1>5 DEF TypeOK, Finite, Tick
<1>6. ASSUME UNCHANGED vars PROVE TypeOK' /\ Finite'
  BY <1>6 DEF TypeOK, Finite, vars
<1> QED BY <1>1, <1>2, <1>3, <1>4, <1>5, <1>6

LEMMA TypeStep == TypeOK /\ Finite /\ [Next]_vars => TypeOK' /\ Finite'
<1> SUFFICES ASSUME TypeOK, Finite, [Next]_vars PROVE TypeOK' /\ Finite'
  OBVIOUS
<1>1. ASSUME NEW r \in Requests, NEW k \in Keys, Start(r, k) PROVE TypeOK' /\ Finite'
  BY <1>1, StartType
<1>2. ASSUME NEW r \in Requests, Microtask(r) PROVE TypeOK' /\ Finite'
  BY <1>2, EnterType, CountType, AnswerType DEF Microtask
<1> QED BY <1>1, <1>2, OtherType DEF Next

LEMMA TypeInit == Init => TypeOK /\ Finite
BY FS_EmptySet DEF Init, TypeOK, Finite, Empty

\* Every variable keeps its type, the counts in flight and the order of
\* insertion included (RateLimiter and MemoryStore).
THEOREM TypeCorrect == Spec => []TypeOK
<1>1. Spec => [](TypeOK /\ Finite)
  BY TypeInit, TypeStep, PTL DEF Spec
<1> QED BY <1>1, PTL

-----------------------------------------------------------------------------
(* The log of stamps and the life of the requests tell the same story.     *)

\* A stamp is that of a counted request of its key.
Honest ==
  \A k \in DOMAIN requests : \A s \in requests[k].stamps :
    /\ Counted(s.req)
    /\ request[s.req].key = k
    /\ request[s.req].at = s.at

\* No request was stamped in the future.
Past == \A r \in DOMAIN request : request[r].at <= now

\* The stamp of a counted request is kept for a whole window.
Kept ==
  \A r \in Requests :
    Counted(r) /\ request[r].at > now - windowMs
      => [req |-> r, at |-> request[r].at] \in Stamps(request[r].key)

IInv == TypeOK /\ Finite /\ Honest /\ Past /\ Kept

\* A step that leaves the store, and what it is compared with, alone.
LEMMA QuietStep ==
  ASSUME IInv, TypeOK', requests' = requests, now' >= now,
         \A q \in Requests : Counted(q)' <=> Counted(q),
         \A q \in Requests : Counted(q) =>
           request'[q].key = request[q].key /\ request'[q].at = request[q].at,
         \A q \in DOMAIN request' : request'[q].at <= now'
  PROVE  Honest' /\ Past' /\ Kept'
<1>1. Honest'
  BY DEF IInv, Honest, TypeOK, Stamp
<1>2. Kept'
  <2> SUFFICES ASSUME NEW q \in Requests, NEW j, j = request'[q].key,
                      Counted(q)', request'[q].at > now' - windowMs
               PROVE  [req |-> q, at |-> request'[q].at] \in Stamps(j)'
    BY DEF Kept, Stamps
  <2>1. Counted(q) /\ request'[q].at = request[q].at /\ request'[q].key = request[q].key
    OBVIOUS
  <2>2. request[q].at > now - windowMs
    BY <2>1, LimiterAssumption DEF IInv, TypeOK, Counted, Call
  <2>3. [req |-> q, at |-> request[q].at] \in Stamps(j)
    BY <2>1, <2>2 DEF IInv, Kept
  <2> QED BY <2>1, <2>3 DEF Stamps
<1> QED BY <1>1, <1>2 DEF Past

LEMMA StartStep ==
  ASSUME IInv, TypeOK', NEW r \in Requests, NEW k \in Keys, Start(r, k)
  PROVE  Honest' /\ Past' /\ Kept'
<1>1. \A q \in Requests \ {r} : q \in DOMAIN request' <=> q \in DOMAIN request
  BY DEF Start, Put
<1>2. \A q \in DOMAIN request : request'[q] = request[q]
  BY DEF Start, Put
<1>3. /\ r \notin DOMAIN request
      /\ r \in DOMAIN request' /\ request'[r].stage = "asked" /\ request'[r].at = 0
  BY DEF Start, Put
<1>4. \A q \in Requests : Counted(q)' <=> Counted(q)
  BY <1>1, <1>2, <1>3 DEF Counted
<1>5. \A q \in DOMAIN request' : request'[q].at <= now'
  BY <1>1, <1>2, <1>3 DEF IInv, Past, TypeOK, Start
<1>6. \A q \in Requests : Counted(q) =>
        request'[q].key = request[q].key /\ request'[q].at = request[q].at
  BY <1>2 DEF Counted
<1>7. requests' = requests /\ now' >= now
  BY DEF Start, IInv, TypeOK
<1> QED
  BY <1>4, <1>5, <1>6, <1>7, QuietStep

LEMMA AnswerStep ==
  ASSUME IInv, TypeOK', NEW r \in Requests, Refuse(r) \/ Pass(r) \/ Limit(r)
  PROVE  Honest' /\ Past' /\ Kept'
<1>1. /\ DOMAIN request' = DOMAIN request
      /\ \A q \in DOMAIN request \ {r} : request'[q] = request[q]
      /\ now' = now /\ requests' = requests
  BY DEF Refuse, Pass, Limit, Finish, Put
<1>2. /\ r \in DOMAIN request
      /\ request'[r].at = request[r].at /\ request'[r].key = request[r].key
      /\ Counted(r)' <=> Counted(r)
  BY DEF Refuse, Pass, Limit, Finish, Put, Counted, IInv, TypeOK, Call
<1>3. \A q \in Requests : Counted(q)' <=> Counted(q)
  BY <1>1, <1>2 DEF Counted
<1>4. \A q \in DOMAIN request' : request'[q].at <= now'
  BY <1>1, <1>2 DEF IInv, Past
<1>5. \A q \in Requests : Counted(q) =>
        request'[q].key = request[q].key /\ request'[q].at = request[q].at
  BY <1>1, <1>2 DEF Counted
<1>6. now' >= now
  BY <1>1 DEF IInv, TypeOK
<1> QED
  BY <1>1, <1>3, <1>4, <1>5, <1>6, QuietStep

\* The stamps of the keys in S are wiped and their requests disowned.
LEMMA WipeStep ==
  ASSUME IInv, TypeOK', NEW S, now' = now,
         \A q \in DOMAIN request' : request'[q].at <= now,
         \A q \in Requests : Counted(q)' <=> Counted(q) /\ request[q].key \notin S,
         \A q \in Requests : Counted(q)' =>
           request'[q].key = request[q].key /\ request'[q].at = request[q].at,
         \A k \in Keys : Stamps(k)' = IF k \in S THEN {} ELSE Stamps(k),
         \A k \in DOMAIN requests' : k \in DOMAIN requests \ S
  PROVE  Honest' /\ Past' /\ Kept'
<1>1. Honest'
  <2> SUFFICES ASSUME NEW k \in DOMAIN requests', NEW s \in requests'[k].stamps
               PROVE  Counted(s.req)' /\ request'[s.req].key = k /\ request'[s.req].at = s.at
    BY DEF Honest
  <2>1. k \in DOMAIN requests /\ k \notin S /\ k \in Keys
    BY DEF TypeOK
  <2>2. s \in requests[k].stamps
    BY <2>1 DEF Stamps
  <2>3. Counted(s.req) /\ request[s.req].key = k /\ request[s.req].at = s.at /\ s.req \in Requests
    BY <2>1, <2>2 DEF IInv, Honest, TypeOK, Stamp
  <2> QED BY <2>1, <2>3
<1>2. Past'
  BY DEF Past
<1>3. Kept'
  <2> SUFFICES ASSUME NEW q \in Requests, Counted(q)', request'[q].at > now' - windowMs,
                      NEW k, k = request'[q].key
               PROVE  [req |-> q, at |-> request'[q].at] \in Stamps(k)'
    BY DEF Kept, Stamps
  <2>1. /\ Counted(q) /\ k = request[q].key /\ k \notin S
        /\ request'[q].at = request[q].at /\ k \in Keys
    BY DEF Counted, IInv, TypeOK, Call
  <2>2. [req |-> q, at |-> request[q].at] \in Stamps(k)
    BY <2>1 DEF IInv, Kept
  <2> QED BY <2>1, <2>2
<1> QED BY <1>1, <1>2, <1>3

\* What Forgotten does to the requests.
LEMMA ForgottenRequests ==
  ASSUME IInv, NEW S
  PROVE  /\ DOMAIN Forgotten(S) = DOMAIN request
         /\ \A q \in DOMAIN request :
              /\ Forgotten(S)[q].at = request[q].at /\ Forgotten(S)[q].key = request[q].key
              /\ Forgotten(S)[q].count = request[q].count
              /\ request[q].key \notin S \/ ~Counted(q) => Forgotten(S)[q] = request[q]
              /\ request[q].key \in S /\ Counted(q) => Forgotten(S)[q].stage = "refused"
BY DEF Forgotten, IInv, TypeOK, Call

\* Making room wipes the keys evicted.
LEMMA EnterStep ==
  ASSUME IInv, TypeOK', NEW r \in Requests, Enter(r)
  PROVE  Honest' /\ Past' /\ Kept'
<1>1. PICK S \in Room :
        /\ requests' = Drop(requests, S)
        /\ request' = [Forgotten(S) EXCEPT ![r].stage = "entered", ![r].at = now]
  BY DEF Enter
<1>2. /\ DOMAIN request' = DOMAIN request
      /\ \A q \in DOMAIN request \ {r} : request'[q] = Forgotten(S)[q]
      /\ now' = now
  BY <1>1, ForgottenRequests DEF Enter
<1>3. /\ r \in DOMAIN request /\ ~Counted(r)
      /\ request'[r].stage = "entered" /\ request'[r].at = now
  <2>1. r \in DOMAIN Forgotten(S) /\ Forgotten(S)[r] \in Call
    BY ForgottenRequests, ForgottenType DEF Enter, IInv
  <2> QED BY <2>1, <1>1 DEF Enter, Counted, Call
<1>4. \A q \in Requests : Counted(q)' <=> Counted(q) /\ request[q].key \notin S
  BY <1>2, <1>3, ForgottenRequests DEF Counted
<1>5. \A q \in Requests : Counted(q)' =>
        request'[q].key = request[q].key /\ request'[q].at = request[q].at
  BY <1>2, <1>3, ForgottenRequests DEF Counted
<1>6. \A q \in DOMAIN request' : request'[q].at <= now
  BY <1>2, <1>3, ForgottenRequests DEF IInv, Past, TypeOK
<1>7. /\ \A k \in Keys : Stamps(k)' = IF k \in S THEN {} ELSE Stamps(k)
      /\ \A k \in DOMAIN requests' : k \in DOMAIN requests \ S
  BY <1>1 DEF Drop, Stamps
<1> QED BY <1>2, <1>4, <1>5, <1>6, <1>7, WipeStep

LEMMA CountStep ==
  ASSUME IInv, TypeOK', NEW r \in Requests, Count(r)
  PROVE  Honest' /\ Past' /\ Kept'
<1> DEFINE k    == request[r].key
           at   == request[r].at
           mine == [req |-> r, at |-> at]
           reqs == InWindow(Stamps(k), at) \cup {mine}
<1>1. /\ r \in DOMAIN request /\ request[r] \in Call
      /\ k \in Keys /\ at \in Nat /\ at <= now /\ now \in Nat
  BY DEF Count, IInv, TypeOK, Call, Past
<1>2. /\ DOMAIN request' = DOMAIN request
      /\ \A q \in DOMAIN request \ {r} : request'[q] = request[q]
      /\ request'[r].key = k /\ request'[r].at = at /\ request'[r].stage = "counted"
      /\ ~Counted(r) /\ Counted(r)'
  BY <1>1 DEF Count, Continue, Put, Call, Counted
<1>3. /\ now' = now
      /\ DOMAIN requests' = DOMAIN requests \cup {k}
      /\ requests'[k].stamps = reqs
      /\ \A j \in DOMAIN requests \ {k} : requests'[j] = requests[j]
  BY DEF Count, Put
<1>4. \A j \in Keys : Stamps(j)' = IF j = k THEN reqs ELSE Stamps(j)
  BY <1>3 DEF Stamps
<1>5. \A q \in Requests \ {r} : Counted(q)' <=> Counted(q)
  BY <1>2 DEF Counted
<1>6. Honest'
  <2> SUFFICES ASSUME NEW j \in DOMAIN requests', NEW s \in requests'[j].stamps
               PROVE  Counted(s.req)' /\ request'[s.req].key = j /\ request'[s.req].at = s.at
    BY DEF Honest
  <2>1. CASE j = k /\ s = mine
    BY <2>1, <1>2
  <2>2. CASE ~(j = k /\ s = mine)
    <3>1. j \in DOMAIN requests /\ s \in requests[j].stamps
      BY <2>2, <1>3 DEF InWindow, Stamps
    <3>2. Counted(s.req) /\ request[s.req].key = j /\ request[s.req].at = s.at
      BY <3>1 DEF IInv, Honest
    <3>3. s.req \in DOMAIN request \ {r}
      BY <3>2, <1>2 DEF Counted
    <3> QED BY <3>2, <3>3, <1>2 DEF Counted
  <2> QED BY <2>1, <2>2
<1>7. Past'
  BY <1>1, <1>2, <1>3 DEF IInv, Past
<1>8. Kept'
  <2> SUFFICES ASSUME NEW q \in Requests, NEW j, j = request'[q].key,
                      Counted(q)', request'[q].at > now' - windowMs
               PROVE  [req |-> q, at |-> request'[q].at] \in Stamps(j)'
    BY DEF Kept, Stamps
  <2>1. CASE q = r
    BY <2>1, <1>1, <1>2, <1>4
  <2>2. CASE q # r
    <3>1. /\ Counted(q) /\ q \in DOMAIN request
          /\ request'[q] = request[q]
          /\ request[q] \in Call
      BY <2>2, <1>2, <1>5 DEF Counted, IInv, TypeOK
    <3>2. [req |-> q, at |-> request[q].at] \in Stamps(request[q].key)
      BY <3>1, <1>3 DEF IInv, Kept
    <3>3. request[q].at > at - windowMs
      BY <3>1, <1>1, <1>3, LimiterAssumption DEF Call
    <3>4. CASE j = k
      <4>1. [req |-> q, at |-> request[q].at] \in InWindow(Stamps(k), at)
        BY <3>1, <3>2, <3>3, <3>4 DEF InWindow
      <4> QED BY <4>1, <3>1, <3>4, <1>1, <1>4
    <3>5. CASE j # k
      <4>1. j \in Keys
        BY <3>1 DEF Call
      <4>2. Stamps(j)' = Stamps(j)
        BY <4>1, <3>5, <1>4
      <4> QED BY <4>2, <3>1, <3>2
    <3> QED BY <3>4, <3>5
  <2> QED BY <2>1, <2>2
<1> QED BY <1>6, <1>7, <1>8

LEMMA CleanupStep ==
  ASSUME IInv, TypeOK', Cleanup
  PROVE  Honest' /\ Past' /\ Kept'
<1>1. /\ request' = request /\ now' = now
      /\ \A k \in DOMAIN requests' :
           k \in DOMAIN requests /\ requests'[k].stamps = InWindow(requests[k].stamps, now)
      /\ \A k \in DOMAIN requests : InWindow(requests[k].stamps, now) # {} => k \in DOMAIN requests'
  BY DEF Cleanup, IInv, TypeOK, Stamps
<1>2. Honest' /\ Past'
  BY <1>1 DEF IInv, Honest, Past, InWindow, Counted
<1>3. Kept'
  <2> SUFFICES ASSUME NEW q \in Requests, Counted(q), request[q].at > now - windowMs
               PROVE  [req |-> q, at |-> request[q].at] \in Stamps(request[q].key)'
    BY <1>1 DEF Kept, Stamps, Counted
  <2> DEFINE s == [req |-> q, at |-> request[q].at]
             k == request[q].key
  <2>1. k \in DOMAIN requests /\ s \in requests[k].stamps
    BY DEF IInv, Kept, Stamps
  <2>2. s \in InWindow(requests[k].stamps, now)
    BY <2>1 DEF InWindow
  <2>3. k \in DOMAIN requests' /\ s \in requests'[k].stamps
    BY <2>1, <2>2, <1>1
  <2> QED BY <1>1, <2>3 DEF Stamps
<1> QED BY <1>2, <1>3

\* The operator's part of it.
LEMMA ForgetStep ==
  ASSUME IInv, TypeOK', NEW S, request' = Forgotten(S), now' = now,
         \A k \in Keys : Stamps(k)' = IF k \in S THEN {} ELSE Stamps(k),
         \A k \in DOMAIN requests' : k \in DOMAIN requests \ S
  PROVE  Honest' /\ Past' /\ Kept'
<1>1. \A q \in Requests : Counted(q)' <=> Counted(q) /\ request[q].key \notin S
  BY ForgottenRequests DEF Counted
<1>2. \A q \in Requests : Counted(q)' =>
        request'[q].key = request[q].key /\ request'[q].at = request[q].at
  BY ForgottenRequests DEF Counted
<1>3. \A q \in DOMAIN request' : request'[q].at <= now
  BY ForgottenRequests DEF IInv, Past
<1> QED BY <1>1, <1>2, <1>3, WipeStep

LEMMA OtherStep ==
  ASSUME IInv, TypeOK',
         \/ \E k \in Keys : UnblockIP(k) \/ \E ms \in OperatorMs : BlockIP(k, ms)
         \/ Cleanup \/ Destroy \/ Tick \/ UNCHANGED vars
  PROVE  Honest' /\ Past' /\ Kept'
<1>1. ASSUME NEW k \in Keys, UnblockIP(k) PROVE Honest' /\ Past' /\ Kept'
  <2>1. /\ \A j \in Keys : Stamps(j)' = IF j \in {k} THEN {} ELSE Stamps(j)
        /\ \A j \in DOMAIN requests' : j \in DOMAIN requests \ {k}
    BY <1>1 DEF UnblockIP, Drop, Stamps
  <2> QED BY <1>1, <2>1, ForgetStep DEF UnblockIP
<1>2. ASSUME Destroy PROVE Honest' /\ Past' /\ Kept'
  <2>1. /\ \A j \in Keys : Stamps(j)' = IF j \in Keys THEN {} ELSE Stamps(j)
        /\ \A j \in DOMAIN requests' : j \in DOMAIN requests \ Keys
    BY <1>2 DEF Destroy, Empty, Stamps
  <2> QED BY <1>2, <2>1, ForgetStep DEF Destroy
<1>3. ASSUME \/ \E k \in Keys, ms \in OperatorMs : BlockIP(k, ms)
             \/ Tick \/ UNCHANGED vars
      PROVE  Honest' /\ Past' /\ Kept'
  <2>1. /\ requests' = requests /\ request' = request /\ now' >= now
    BY <1>3 DEF BlockIP, Tick, vars, IInv, TypeOK
  <2>2. \A q \in DOMAIN request' : request'[q].at <= now'
    BY <2>1 DEF IInv, Past, TypeOK, Call
  <2>3. /\ \A q \in Requests : Counted(q)' <=> Counted(q)
        /\ \A q \in Requests : Counted(q) =>
             request'[q].key = request[q].key /\ request'[q].at = request[q].at
    BY <2>1 DEF Counted
  <2> QED BY <2>1, <2>2, <2>3, QuietStep
<1> QED BY <1>1, <1>2, <1>3, CleanupStep

LEMMA Inductive == IInv /\ [Next]_vars => IInv'
<1> SUFFICES ASSUME IInv, [Next]_vars PROVE IInv'
  OBVIOUS
<1>1. TypeOK' /\ Finite'
  BY TypeStep DEF IInv
<1>2. ASSUME NEW r \in Requests, NEW k \in Keys, Start(r, k) PROVE Honest' /\ Past' /\ Kept'
  BY <1>1, <1>2, StartStep
<1>3. ASSUME NEW r \in Requests, Microtask(r) PROVE Honest' /\ Past' /\ Kept'
  BY <1>1, <1>3, EnterStep, CountStep, AnswerStep DEF Microtask
<1>4. Honest' /\ Past' /\ Kept'
  BY <1>1, <1>2, <1>3, OtherStep DEF Next
<1> QED BY <1>1, <1>4 DEF IInv

LEMMA Initial == Init => IInv
BY TypeInit DEF Init, IInv, Honest, Past, Kept, Counted, Empty

LEMMA Invariant == Spec => []IInv
BY Initial, Inductive, PTL DEF Spec

LEMMA ExactFromInvariant == IInv => WindowExact
<1> SUFFICES ASSUME IInv, NEW k \in Keys
             PROVE  {s.req : s \in InWindow(Stamps(k), now)}
                      = {r \in Requests : /\ Counted(r) /\ request[r].key = k
                                          /\ request[r].at > now - windowMs}
  BY DEF WindowExact
<1>1. ASSUME NEW s \in InWindow(Stamps(k), now)
      PROVE  /\ s.req \in Requests /\ Counted(s.req)
             /\ request[s.req].key = k /\ request[s.req].at > now - windowMs
  <2>1. k \in DOMAIN requests /\ s \in requests[k].stamps /\ s.at > now - windowMs
    BY DEF InWindow, Stamps
  <2> QED BY <2>1 DEF IInv, Honest, TypeOK, Stamp
<1>2. ASSUME NEW r \in Requests, Counted(r), request[r].key = k, request[r].at > now - windowMs
      PROVE  \E s \in InWindow(Stamps(k), now) : s.req = r
  <2>1. [req |-> r, at |-> request[r].at] \in InWindow(Stamps(k), now)
    BY <1>2 DEF IInv, Kept, InWindow
  <2> QED BY <2>1
<1> QED BY <1>1, <1>2

\* The store holds exactly the counted requests of the window since their key
\* was last wiped or evicted, for any number of keys and requests: what increment
\* reads before its await is never too old to matter.
THEOREM WindowIsExact == Spec => []WindowExact
BY Invariant, ExactFromInvariant, PTL

-----------------------------------------------------------------------------
(* The limiter implements the sliding window.                              *)

\* Cardinality, as the instance sees it.
LEMMA SameCardinality == \A S : Window!Cardinality(S) = Cardinality(S)
BY DEF Window!Cardinality, Cardinality

\* What is admitted depends on the stage, key, stamp and count of the requests.
LEMMA SameAdmitted ==
  ASSUME \A q \in Requests : /\ IsAdmitted(q)' <=> IsAdmitted(q)
                             /\ IsAdmitted(q) => /\ request'[q].key = request[q].key
                                                 /\ request'[q].at = request[q].at
  PROVE  Admitted' = Admitted
BY DEF Admitted

\* Its count is taken below the limit: the request enters the window, which
\* had room, because every admission the abstract window knows has a stamp.
LEMMA CountAdmits ==
  ASSUME IInv, NEW r \in Requests, Count(r), request'[r].count <= max
  PROVE  Window!Admit(r, request[r].key, request[r].at)
<1> DEFINE k    == request[r].key
           at   == request[r].at
           mine == [req |-> r, at |-> at]
           old  == InWindow(Stamps(k), at)
           stampOf == [a \in Window!Within(k) |-> [req |-> a.req, at |-> a.at]]
<1>1. /\ r \in DOMAIN request /\ request[r] \in Call /\ request[r].stage = "entered"
      /\ k \in Keys /\ at \in Nat /\ at <= now /\ now \in Nat
      /\ now' = now
  BY DEF Count, IInv, TypeOK, Call, Past
<1>2. /\ DOMAIN request' = DOMAIN request
      /\ \A q \in DOMAIN request \ {r} : request'[q] = request[q]
      /\ request'[r].key = k /\ request'[r].at = at /\ request'[r].stage = "counted"
      /\ request'[r].count = Cardinality(old \cup {mine})
  BY <1>1 DEF Count, Continue, Put, Call
<1>3. IsFiniteSet(old)
  <2>1. IsFiniteSet(Stamps(k))
    BY FS_EmptySet DEF IInv, Finite, Stamps
  <2> QED BY <2>1, FS_Subset DEF InWindow
<1>4. mine \notin old
  <2> SUFFICES ASSUME mine \in old PROVE FALSE
    OBVIOUS
  <2>1. k \in DOMAIN requests /\ mine \in requests[k].stamps
    BY DEF InWindow, Stamps
  <2>2. Counted(r)
    BY <2>1 DEF IInv, Honest
  <2> QED BY <2>2, <1>1 DEF Counted
<1>5. Cardinality(old) \in Nat /\ Cardinality(old) < max
  <2> HIDE DEF old, mine
  <2>1. /\ Cardinality(old) \in Nat
        /\ Cardinality(old \cup {mine}) = Cardinality(old) + 1
    BY <1>3, <1>4, FS_AddElement, FS_CardinalityType
  <2>2. Cardinality(old) + 1 <= max /\ max \in Nat
    BY <1>2, <2>1, LimiterAssumption
  <2> QED BY <2>1, <2>2
<1>6. stampOf \in Injection(Window!Within(k), old)
  <2>1. ASSUME NEW a \in Window!Within(k)
        PROVE  /\ [req |-> a.req, at |-> a.at] \in old
               /\ a = [req |-> a.req, key |-> k, at |-> a.at]
    <3>1. PICK q \in Requests :
            IsAdmitted(q) /\ a = [req |-> q, key |-> request[q].key, at |-> request[q].at]
      BY DEF Window!Within, Admitted
    <3>2. a.key = k /\ a.at > now - windowMs
      BY DEF Window!Within
    <3>3. Counted(q) /\ request[q].key = k /\ request[q].at > now - windowMs
          /\ request[q] \in Call
      BY <3>1, <3>2 DEF IsAdmitted, Counted, IInv, TypeOK
    <3>4. [req |-> q, at |-> request[q].at] \in Stamps(k)
      BY <3>3 DEF IInv, Kept
    <3>5. request[q].at > at - windowMs
      BY <3>3, <1>1, LimiterAssumption DEF Call
    <3> QED BY <3>1, <3>3, <3>4, <3>5 DEF InWindow
  <2>2. stampOf \in [Window!Within(k) -> old]
    BY <2>1
  <2>3. ASSUME NEW a \in Window!Within(k), NEW b \in Window!Within(k), stampOf[a] = stampOf[b]
        PROVE  a = b
    <3>1. a.req = b.req /\ a.at = b.at
      BY <2>3
    <3> QED BY <2>1, <3>1
  <2> QED BY <2>2, <2>3 DEF Injection, IsInjective
<1>7. IsFiniteSet(Window!Within(k)) /\ Cardinality(Window!Within(k)) <= Cardinality(old)
  <2> HIDE DEF stampOf, old
  <2> QED BY <1>3, <1>6, FS_Injection
<1>8. Cardinality(Window!Within(k)) < max
  BY <1>5, <1>7, FS_CardinalityType, LimiterAssumption
<1>9. \A a \in Admitted : a.req # r
  BY <1>1 DEF Admitted, IsAdmitted
<1>10. Admitted' = Admitted \cup {[req |-> r, key |-> k, at |-> at]}
  <2>1. \A q \in Requests \ {r} : /\ IsAdmitted(q)' <=> IsAdmitted(q)
                                  /\ IsAdmitted(q) => request'[q] = request[q]
    BY <1>2 DEF IsAdmitted
  <2>2. ~IsAdmitted(r) /\ IsAdmitted(r)'
    BY <1>1, <1>2 DEF IsAdmitted
  <2> QED BY <2>1, <2>2, <1>2 DEF Admitted
<1> HIDE DEF stampOf, old, mine
<1> QED BY <1>1, <1>8, <1>9, <1>10, SameCardinality DEF Window!Admit

\* Disowning the requests of the keys in S wipes their admissions.
LEMMA ForgetRefines ==
  ASSUME IInv, NEW S,
         \A q \in Requests : IsAdmitted(q)' <=> IsAdmitted(q) /\ request[q].key \notin S,
         \A q \in Requests : IsAdmitted(q)' =>
           request'[q].key = request[q].key /\ request'[q].at = request[q].at
  PROVE  Admitted' = {a \in Admitted : a.key \notin S}
BY DEF Admitted

LEMMA ForgottenRefines ==
  ASSUME IInv, NEW S, request' = Forgotten(S)
  PROVE  Admitted' = {a \in Admitted : a.key \notin S}
<1>1. \A q \in Requests : IsAdmitted(q)' <=> IsAdmitted(q) /\ request[q].key \notin S
  BY ForgottenRequests DEF IsAdmitted, Counted
<1>2. \A q \in Requests : IsAdmitted(q)' =>
        request'[q].key = request[q].key /\ request'[q].at = request[q].at
  BY ForgottenRequests DEF IsAdmitted
<1> QED BY <1>1, <1>2, ForgetRefines

\* Making room is a step of the window that forgets the evicted key.
LEMMA EnterRefines ==
  ASSUME IInv, NEW r \in Requests, Enter(r)
  PROVE  Window!Next \/ UNCHANGED Window!wvars
<1>1. PICK S \in Room :
        request' = [Forgotten(S) EXCEPT ![r].stage = "entered", ![r].at = now]
  BY DEF Enter
<1>2. /\ DOMAIN request' = DOMAIN request
      /\ \A q \in DOMAIN request \ {r} : request'[q] = Forgotten(S)[q]
      /\ now' = now
  BY <1>1, ForgottenRequests DEF Enter
<1>3. r \in DOMAIN request /\ ~IsAdmitted(r) /\ request'[r].stage = "entered"
  <2>1. r \in DOMAIN Forgotten(S) /\ Forgotten(S)[r] \in Call
    BY ForgottenRequests, ForgottenType DEF Enter, IInv
  <2> QED BY <2>1, <1>1 DEF Enter, IsAdmitted, Call
<1>4. \A q \in Requests : IsAdmitted(q)' <=> IsAdmitted(q) /\ request[q].key \notin S
  BY <1>2, <1>3, ForgottenRequests DEF IsAdmitted, Counted
<1>5. \A q \in Requests : IsAdmitted(q)' =>
        request'[q].key = request[q].key /\ request'[q].at = request[q].at
  BY <1>2, <1>3, ForgottenRequests DEF IsAdmitted
<1>6. Admitted' = {a \in Admitted : a.key \notin S}
  BY <1>4, <1>5, ForgetRefines
<1>7. CASE S = {}
  BY <1>2, <1>6, <1>7 DEF Window!wvars
<1>8. CASE S # {}
  <2>1. PICK k \in Keys : S = {k}
    BY <1>8 DEF Room, Oldest, IInv, TypeOK
  <2>2. Admitted' = {a \in Admitted : a.key # k}
    BY <1>6, <2>1
  <2> QED BY <1>2, <2>2 DEF Window!Next, Window!Forgive
<1> QED BY <1>7, <1>8

\* A step of one call that takes no count changes no admission.
LEMMA MicrotaskRefines ==
  ASSUME IInv, NEW r \in Requests, Microtask(r)
  PROVE  Window!Next \/ UNCHANGED Window!wvars
<1>1. request[r] \in Call /\ r \in DOMAIN request
  BY DEF IInv, TypeOK, Microtask, Refuse, Enter, Count, Pass, Limit
<1>2. ASSUME Refuse(r) \/ Pass(r) \/ Limit(r) PROVE UNCHANGED Window!wvars
  <2>1. /\ DOMAIN request' = DOMAIN request
        /\ \A q \in DOMAIN request \ {r} : request'[q] = request[q]
        /\ now' = now
    BY <1>2, <1>1 DEF Refuse, Pass, Limit, Finish, Put
  <2>2. ASSUME NEW q \in Requests \ {r} PROVE IsAdmitted(q)' <=> IsAdmitted(q)
    BY <2>1 DEF IsAdmitted
  <2>3. IsAdmitted(r)' <=> IsAdmitted(r)
    <3>1. CASE Refuse(r)
      BY <1>1, <3>1 DEF Refuse, Finish, Put, IsAdmitted, Call
    <3>3. CASE Pass(r)
      BY <1>1, <3>3 DEF Pass, Finish, Put, IsAdmitted, Call
    <3>4. CASE Limit(r)
      BY <1>1, <3>4, LimiterAssumption DEF Limit, Finish, Put, IsAdmitted, Call
    <3> QED BY <1>2, <3>1, <3>3, <3>4
  <2>4. IsAdmitted(r) => request'[r].key = request[r].key /\ request'[r].at = request[r].at
    BY <1>1, <1>2 DEF Refuse, Pass, Limit, Finish, Put, IsAdmitted, Call
  <2>5. Admitted' = Admitted
    <3>1. ASSUME NEW q \in Requests
          PROVE  /\ IsAdmitted(q)' <=> IsAdmitted(q)
                 /\ IsAdmitted(q) => /\ request'[q].key = request[q].key
                                     /\ request'[q].at = request[q].at
      BY <2>1, <2>2, <2>3, <2>4 DEF IsAdmitted
    <3> QED BY <3>1, SameAdmitted
  <2> QED BY <2>1, <2>5 DEF Window!wvars
<1>3. ASSUME Count(r), request'[r].count <= max PROVE Window!Next
  <2>1. Window!Admit(r, request[r].key, request[r].at)
    BY <1>3, CountAdmits
  <2>2. request[r].key \in Keys /\ request[r].at \in 0..now
    BY <1>1 DEF Call, IInv, Past, TypeOK
  <2> QED BY <2>1, <2>2 DEF Window!Next
<1>4. ASSUME Count(r), ~(request'[r].count <= max) PROVE UNCHANGED Window!wvars
  <2>1. /\ DOMAIN request' = DOMAIN request
        /\ \A q \in DOMAIN request \ {r} : request'[q] = request[q]
        /\ request[r].stage = "entered" /\ request'[r].stage = "counted"
        /\ now' = now
    BY <1>1, <1>4 DEF Count, Continue, Put, Call
  <2>2. ASSUME NEW q \in Requests
        PROVE  /\ IsAdmitted(q)' <=> IsAdmitted(q)
               /\ IsAdmitted(q) => /\ request'[q].key = request[q].key
                                   /\ request'[q].at = request[q].at
    BY <1>4, <2>1 DEF IsAdmitted
  <2>3. Admitted' = Admitted
    BY <2>2, SameAdmitted
  <2> QED BY <2>1, <2>3 DEF Window!wvars
<1> QED BY <1>2, <1>3, <1>4, EnterRefines DEF Microtask

\* Every step of the limiter is a step of the window or changes nothing in it.
LEMMA StepRefines == IInv /\ [Next]_vars => [Window!Next]_(Window!wvars)
<1> SUFFICES ASSUME IInv, [Next]_vars PROVE Window!Next \/ UNCHANGED Window!wvars
  OBVIOUS
<1>1. ASSUME NEW r \in Requests, NEW k \in Keys, Start(r, k) PROVE UNCHANGED Window!wvars
  <2>1. /\ now' = now
        /\ \A q \in DOMAIN request : q \in DOMAIN request' /\ request'[q] = request[q]
        /\ DOMAIN request' = DOMAIN request \cup {r}
        /\ r \notin DOMAIN request /\ request'[r].stage = "asked"
    BY <1>1 DEF Start, Put
  <2>2. ASSUME NEW q \in Requests
        PROVE  /\ IsAdmitted(q)' <=> IsAdmitted(q)
               /\ IsAdmitted(q) => /\ request'[q].key = request[q].key
                                   /\ request'[q].at = request[q].at
    BY <2>1 DEF IsAdmitted
  <2>3. Admitted' = Admitted
    BY <2>2, SameAdmitted
  <2> QED BY <2>1, <2>3 DEF Window!wvars
<1>2. ASSUME NEW k \in Keys, UnblockIP(k) PROVE Window!Next
  <2>1. Admitted' = {a \in Admitted : a.key # k} /\ now' = now
    BY <1>2, ForgottenRefines DEF UnblockIP
  <2> QED BY <2>1 DEF Window!Next, Window!Forgive
<1>3. ASSUME Destroy PROVE Window!Next
  <2>1. Admitted' = {a \in Admitted : a.key \notin Keys} /\ now' = now
    BY <1>3, ForgottenRefines DEF Destroy
  <2>2. \A a \in Admitted : a.key \in Keys
    BY DEF Admitted, IsAdmitted, IInv, TypeOK, Call
  <2>3. Admitted' = {}
    BY <2>1, <2>2
  <2> QED BY <2>1, <2>3 DEF Window!Next, Window!ForgiveAll
<1>4. ASSUME \/ \E k \in Keys, ms \in OperatorMs : BlockIP(k, ms)
             \/ Cleanup \/ Tick \/ UNCHANGED vars
      PROVE  Window!Next \/ UNCHANGED Window!wvars
  <2>1. request' = request
    BY <1>4 DEF BlockIP, Cleanup, Tick, vars
  <2>2. ASSUME NEW q \in Requests
        PROVE  /\ IsAdmitted(q)' <=> IsAdmitted(q)
               /\ IsAdmitted(q) => /\ request'[q].key = request[q].key
                                   /\ request'[q].at = request[q].at
    BY <2>1 DEF IsAdmitted
  <2>3. Admitted' = Admitted
    BY <2>2, SameAdmitted
  <2>4. now' = now \/ now' = now + 1
    BY <1>4 DEF BlockIP, Cleanup, Tick, vars
  <2> QED BY <2>3, <2>4 DEF Window!wvars, Window!Next, Window!Tick
<1> QED BY <1>1, <1>2, <1>3, <1>4, MicrotaskRefines DEF Next

\* The limiter implements the sliding window: locks, microtasks, the collector,
\* evictions and late stamps never admit a request the window would refuse.
THEOREM Implements == Spec => ImplementsSlidingWindow
<1>1. Init => Window!Init
  BY DEF Init, Window!Init, Admitted, IsAdmitted, Empty
<1>2. Spec => []IInv
  BY Invariant
<1> QED BY <1>1, <1>2, StepRefines, PTL DEF Spec, Window!Spec, ImplementsSlidingWindow

LEMMA AdmittedFinite ==
  ASSUME IInv, NEW k
  PROVE  IsFiniteSet(Window!Within(k)) /\ Cardinality(Window!Within(k)) \in Nat
<1> DEFINE requestOf == [a \in Window!Within(k) |-> a.req]
<1>1. ASSUME NEW a \in Window!Within(k)
      PROVE  /\ a.req \in DOMAIN request
             /\ a = [req |-> a.req, key |-> request[a.req].key, at |-> request[a.req].at]
  BY DEF Window!Within, Admitted, IsAdmitted
<1>2. requestOf \in Injection(Window!Within(k), DOMAIN request)
  <2>1. requestOf \in [Window!Within(k) -> DOMAIN request]
    BY <1>1
  <2>2. ASSUME NEW a \in Window!Within(k), NEW b \in Window!Within(k), requestOf[a] = requestOf[b]
        PROVE  a = b
    BY <1>1, <2>2
  <2> QED BY <2>1, <2>2 DEF Injection, IsInjective
<1>3. IsFiniteSet(Window!Within(k))
  <2> HIDE DEF requestOf
  <2> QED BY <1>2, FS_Injection DEF IInv, Finite
<1> QED BY <1>3, FS_CardinalityType

\* A smaller set of admissions stays within the bound.
LEMMA FewerWithin ==
  ASSUME IInv, RateBound, NEW k \in Keys, NEW S, S \subseteq Window!Within(k)
  PROVE  Cardinality(S) <= max
<1>1. Cardinality(Window!Within(k)) <= max
  BY SameCardinality DEF RateBound, Window!RateBound
<1>2. IsFiniteSet(S) /\ Cardinality(S) <= Cardinality(Window!Within(k))
  BY AdmittedFinite, FS_Subset
<1> QED BY <1>1, <1>2, AdmittedFinite, FS_CardinalityType, LimiterAssumption

LEMMA OneMore ==
  ASSUME NEW S, NEW x, IsFiniteSet(S)
  PROVE  IsFiniteSet(S \cup {x}) /\ Cardinality(S \cup {x}) <= Cardinality(S) + 1
<1>1. Cardinality(S) \in Nat
  BY FS_CardinalityType
<1>2. CASE x \in S
  BY <1>1, <1>2, FS_AddElement
<1>3. CASE x \notin S
  BY <1>1, <1>3, FS_AddElement
<1> QED BY <1>2, <1>3

LEMMA BoundStep ==
  ASSUME IInv, RateBound, Window!Next \/ UNCHANGED Window!wvars
  PROVE  RateBound'
<1> SUFFICES ASSUME NEW k \in Keys PROVE Cardinality(Window!Within(k)') <= max
  BY SameCardinality DEF RateBound, Window!RateBound
<1>1. now \in Nat /\ windowMs \in Nat /\ max \in Nat
  BY LimiterAssumption DEF IInv, TypeOK
<1>2. \A a \in Admitted : a.at \in Nat
  BY DEF Admitted, IsAdmitted, IInv, TypeOK, Call
<1>3. ASSUME NEW r \in Requests, NEW j \in Keys, NEW t \in 0..now, Window!Admit(r, j, t)
      PROVE  Cardinality(Window!Within(k)') <= max
  <2> DEFINE new == [req |-> r, key |-> j, at |-> t]
  <2>1. Window!Within(k)' \subseteq Window!Within(k) \cup {new}
    BY <1>3 DEF Window!Admit, Window!Within
  <2>2. CASE j = k
    <3>1. /\ IsFiniteSet(Window!Within(k)) /\ Cardinality(Window!Within(k)) \in Nat
          /\ Cardinality(Window!Within(k)) < max
      BY <1>3, <2>2, AdmittedFinite, SameCardinality DEF Window!Admit
    <3>2. /\ IsFiniteSet(Window!Within(k) \cup {new})
          /\ Cardinality(Window!Within(k) \cup {new}) <= Cardinality(Window!Within(k)) + 1
      <4> HIDE DEF new
      <4> QED BY <3>1, FS_AddElement
    <3>3. /\ IsFiniteSet(Window!Within(k)')
          /\ Cardinality(Window!Within(k)') <= Cardinality(Window!Within(k) \cup {new})
      <4> HIDE DEF new
      <4> QED BY <2>1, <3>2, FS_Subset
    <3> QED BY <1>1, <3>1, <3>2, <3>3, FS_CardinalityType
  <2>3. CASE j # k
    <3>1. Window!Within(k)' \subseteq Window!Within(k)
      BY <1>3, <2>3 DEF Window!Admit, Window!Within
    <3> QED BY <3>1, FewerWithin
  <2> QED BY <2>2, <2>3
<1>5. ASSUME NEW r \in Requests, NEW j \in Keys, NEW t \in 0..now, NEW e \in Keys,
             Window!AdmitEvicting(r, j, t, e)
      PROVE  Cardinality(Window!Within(k)') <= max
  <2> DEFINE new  == [req |-> r, key |-> j, at |-> t]
             kept == Window!Within(k) \cap {a \in Admitted : a.key # e}
  <2>1. Window!Within(k)' \subseteq kept \cup {new}
    BY <1>5 DEF Window!AdmitEvicting, Window!Within
  <2>2. /\ IsFiniteSet(kept) /\ Cardinality(kept) \in Nat /\ kept \subseteq Window!Within(k)
    BY AdmittedFinite, FS_Subset, FS_CardinalityType
  <2>3. CASE j = k
    <3>1. Cardinality(kept) < max
      BY <1>5, <2>3, SameCardinality DEF Window!AdmitEvicting
    <3>2. /\ IsFiniteSet(kept \cup {new})
          /\ Cardinality(kept \cup {new}) <= Cardinality(kept) + 1
      <4> HIDE DEF new, kept
      <4> QED BY <2>2, OneMore
    <3>3. Cardinality(Window!Within(k)') <= Cardinality(kept \cup {new})
          /\ IsFiniteSet(Window!Within(k)')
      <4> HIDE DEF new, kept
      <4> QED BY <2>1, <3>2, FS_Subset
    <3> QED BY <1>1, <2>2, <3>1, <3>2, <3>3, FS_CardinalityType
  <2>4. CASE j # k
    <3>1. Window!Within(k)' \subseteq Window!Within(k)
      BY <1>5, <2>4 DEF Window!AdmitEvicting, Window!Within
    <3> QED BY <3>1, FewerWithin
  <2> QED BY <2>3, <2>4
<1>4. ASSUME \/ \E j \in Keys : Window!Forgive(j)
             \/ Window!ForgiveAll \/ Window!Tick \/ UNCHANGED Window!wvars
      PROVE  Cardinality(Window!Within(k)') <= max
  <2>1. /\ Admitted' \subseteq Admitted
        /\ now' = now \/ now' = now + 1
    BY <1>4 DEF Window!Forgive, Window!ForgiveAll, Window!Tick, Window!wvars
  <2>2. Window!Within(k)' \subseteq Window!Within(k)
    BY <1>1, <1>2, <2>1 DEF Window!Within
  <2> QED BY <2>2, FewerWithin
<1> QED BY <1>3, <1>4, <1>5 DEF Window!Next

\* No key has more than max requests admitted per window.
THEOREM RateIsBounded == Spec => []RateBound
<1>1. Init => RateBound
  <2> SUFFICES ASSUME Init, NEW k \in Keys PROVE Cardinality(Window!Within(k)) <= max
    BY SameCardinality DEF RateBound, Window!RateBound
  <2>1. Window!Within(k) = {}
    BY DEF Init, Window!Within, Admitted, IsAdmitted, Empty
  <2> QED BY <2>1, FS_EmptySet, LimiterAssumption
<1>2. IInv /\ RateBound /\ [Next]_vars => RateBound'
  BY StepRefines, BoundStep
<1>3. Spec => []IInv
  BY Invariant
<1> QED BY <1>1, <1>2, <1>3, PTL DEF Spec

-----------------------------------------------------------------------------
(* A block in force stands.  Only a call that was let in can impose one,   *)
(* and it was let in while its key was free: whoever blocked the key since *)
(* did so for blockDuration, because the operator waits for the microtasks *)
(* to drain.                                                               *)

Live(r) == /\ r \in DOMAIN request
           /\ \/ request[r].stage = "asked" /\ request[r].until = 0
              \/ request[r].stage \in {"entered", "counted"}

\* A call under way has its continuation queued, and a block that its key got
\* meanwhile is not longer than the one that it may impose.
Fair(r) ==
  /\ \E i \in DOMAIN queue : queue[i] = r
  /\ Blocked(request[r].key) => blocked[request[r].key] <= now + blockDuration

BlocksInv == \A r \in Requests : Live(r) => Fair(r)

\* What the queue holds once its head is taken, and queued again or not.
LEMMA QueueRest ==
  ASSUME NEW q \in Seq(Requests), q # <<>>
  PROVE  \A i \in DOMAIN q :
           \/ q[i] = Head(q)
           \/ /\ \E j \in DOMAIN Tail(q) : Tail(q)[j] = q[i]
              /\ \A x \in Requests : \E j \in DOMAIN Append(Tail(q), x) :
                   Append(Tail(q), x)[j] = q[i]
<1> SUFFICES ASSUME NEW i \in DOMAIN q, i # 1
             PROVE  /\ \E j \in DOMAIN Tail(q) : Tail(q)[j] = q[i]
                    /\ \A x \in Requests : \E j \in DOMAIN Append(Tail(q), x) :
                         Append(Tail(q), x)[j] = q[i]
  BY HeadTailProperties
<1>1. /\ Len(q) \in Nat /\ i \in 2..Len(q) /\ Tail(q) \in Seq(Requests)
      /\ Len(Tail(q)) = Len(q) - 1
      /\ \A j \in 1..Len(Tail(q)) : Tail(q)[j] = q[j + 1]
  BY HeadTailProperties
<1>2. i - 1 \in 1..Len(Tail(q)) /\ Tail(q)[i - 1] = q[i]
  BY <1>1
<1>3. DOMAIN Tail(q) = 1..Len(Tail(q))
  BY <1>1
<1>4. \A x \in Requests : /\ i - 1 \in DOMAIN Append(Tail(q), x)
                          /\ Append(Tail(q), x)[i - 1] = Tail(q)[i - 1]
  BY <1>1, <1>2, AppendProperties
<1> QED BY <1>2, <1>3, <1>4

LEMMA QueueLast ==
  ASSUME NEW q \in Seq(Requests), NEW r \in Requests
  PROVE  /\ \E j \in DOMAIN Append(q, r) : Append(q, r)[j] = r
         /\ \A i \in DOMAIN q : i \in DOMAIN Append(q, r) /\ Append(q, r)[i] = q[i]
BY AppendProperties

\* A step that takes r's continuation from the queue keeps the others fair if
\* what it does to the blocks is.
LEMMA OthersFair ==
  ASSUME TypeOK, BlocksInv, NEW r \in Requests, queue # <<>>, r = Head(queue),
         queue' \in {Tail(queue), Append(Tail(queue), r)}, now' = now,
         NEW q \in Requests, q # r, Live(q), request'[q].key = request[q].key,
         \A k \in DOMAIN blocked' :
           \/ k \in DOMAIN blocked /\ blocked'[k] = blocked[k]
           \/ blocked'[k] = now + blockDuration
  PROVE  Fair(q)'
<1>1. /\ \E i \in DOMAIN queue : queue[i] = q
      /\ Blocked(request[q].key) => blocked[request[q].key] <= now + blockDuration
  BY DEF BlocksInv, Fair
<1>2. \E j \in DOMAIN queue' : queue'[j] = q
  <2>1. PICK i \in DOMAIN queue : queue[i] = q
    BY <1>1
  <2>2. queue \in Seq(Requests)
    BY DEF TypeOK
  <2>3. /\ \E j \in DOMAIN Tail(queue) : Tail(queue)[j] = q
        /\ \E j \in DOMAIN Append(Tail(queue), r) : Append(Tail(queue), r)[j] = q
    BY <2>1, <2>2, QueueRest
  <2> QED BY <2>3
<1>3. now + blockDuration \in Nat
  BY LimiterAssumption DEF TypeOK
<1>4. Blocked(request[q].key)' => (blocked[request[q].key] <= now + blockDuration)'
  BY <1>1, <1>3 DEF Blocked
<1> QED BY <1>2, <1>4 DEF Fair

\* A call that was under way and is not the head is so after an answer as before.
LEMMA AnswerBlocks ==
  ASSUME TypeOK, BlocksInv, NEW r \in Requests, Refuse(r) \/ Pass(r) \/ Limit(r)
  PROVE  BlocksInv'
<1>1. /\ queue # <<>> /\ r = Head(queue) /\ queue' = Tail(queue) /\ now' = now
      /\ r \in DOMAIN request /\ DOMAIN request' = DOMAIN request
      /\ \A q \in DOMAIN request \ {r} : request'[q] = request[q]
  BY DEF Refuse, Pass, Limit, Finish, Put
<1>2. request'[r].stage \in {"refused", "passed", "limited"}
  <2>1. request[r] \in Call
    BY <1>1 DEF TypeOK
  <2>2. PICK stage \in {"refused", "passed", "limited"} :
          request'[r] = [request[r] EXCEPT !.stage = stage]
    BY <1>1 DEF Refuse, Pass, Limit, Finish, Put
  <2> QED BY <2>1, <2>2 DEF Call
<1>3. \A k \in DOMAIN blocked' :
        \/ k \in DOMAIN blocked /\ blocked'[k] = blocked[k]
        \/ blocked'[k] = now + blockDuration
  BY DEF Refuse, Pass, Limit, Put
<1>4. ASSUME NEW q \in Requests, Live(q)' PROVE q # r /\ Live(q) /\ request'[q] = request[q]
  BY <1>1, <1>2, <1>4 DEF Live
<1>5. ASSUME NEW q \in Requests, Live(q)' PROVE Fair(q)'
  BY <1>1, <1>3, <1>4, <1>5, OthersFair
<1> QED BY <1>5 DEF BlocksInv

LEMMA ContinueBlocks ==
  ASSUME TypeOK, BlocksInv, NEW r \in Requests, Enter(r) \/ Count(r)
  PROVE  BlocksInv'
<1>1. /\ queue # <<>> /\ r = Head(queue) /\ queue' = Append(Tail(queue), r) /\ now' = now
      /\ r \in DOMAIN request /\ Live(r)
      /\ \A k \in DOMAIN blocked' : k \in DOMAIN blocked /\ blocked'[k] = blocked[k]
  BY DEF Enter, Count, Continue, Drop, Live
<1>2. /\ DOMAIN request' = DOMAIN request /\ request'[r].key = request[r].key
      /\ \A q \in DOMAIN request \ {r} :
           /\ request'[q].key = request[q].key
           /\ request'[q] = request[q] \/ request'[q].stage = "refused"
  <2>1. CASE Count(r)
    <3>1. PICK n : request' = Put(request, r, [request[r] EXCEPT !.stage = "counted",
                                                                !.count = n])
      BY <2>1 DEF Count, Continue
    <3>2. request[r] \in Call
      BY <1>1 DEF TypeOK
    <3>3. request'[r].key = request[r].key
      BY <3>1, <3>2 DEF Put, Call
    <3> QED BY <1>1, <3>1, <3>3 DEF Put
  <2>2. CASE Enter(r)
    <3>1. PICK S, f : f = Forgotten(S)
                      /\ request' = [f EXCEPT ![r].stage = "entered", ![r].at = now]
      BY <2>2 DEF Enter
    <3>2. /\ DOMAIN f = DOMAIN request
          /\ \A q \in DOMAIN request :
               /\ f[q] \in Call /\ f[q].key = request[q].key
               /\ f[q] = request[q] \/ f[q].stage = "refused"
      BY <3>1 DEF Forgotten, TypeOK, Call
    <3> DEFINE g == [[f[r] EXCEPT !.stage = "entered"] EXCEPT !.at = now]
    <3>3. g.key = f[r].key
      BY <1>1, <3>2 DEF Call
    <3>4. /\ DOMAIN request' = DOMAIN f /\ request'[r] = g
          /\ \A q \in DOMAIN f \ {r} : request'[q] = f[q]
      BY <1>1, <3>1, <3>2
    <3> HIDE DEF g
    <3> QED BY <1>1, <3>2, <3>3, <3>4
  <2> QED BY <2>1, <2>2
<1>3. ASSUME NEW q \in Requests, Live(q)' PROVE Fair(q)'
  <2>1. CASE q = r
    <3>1. Blocked(request[r].key) => blocked[request[r].key] <= now + blockDuration
      BY <1>1 DEF BlocksInv, Fair
    <3>2. \E j \in DOMAIN queue' : queue'[j] = r
      <4>1. Tail(queue) \in Seq(Requests)
        BY <1>1, HeadTailProperties DEF TypeOK
      <4> QED BY <1>1, <4>1, QueueLast
    <3> QED BY <1>1, <1>2, <2>1, <3>1, <3>2 DEF Fair, Blocked
  <2>2. CASE q # r
    <3>1. Live(q) /\ request'[q].key = request[q].key
      BY <1>2, <1>3, <2>2 DEF Live
    <3> QED BY <1>1, <2>2, <3>1, OthersFair
  <2> QED BY <2>1, <2>2
<1> QED BY <1>3 DEF BlocksInv

LEMMA StartBlocks ==
  ASSUME TypeOK, BlocksInv, NEW r \in Requests, NEW k \in Keys, Start(r, k)
  PROVE  BlocksInv'
<1> DEFINE call == [stage |-> "asked", key |-> k,
                    until |-> IF Blocked(k) THEN blocked[k] ELSE 0,
                    at |-> 0, count |-> 0]
<1>1. /\ r \notin DOMAIN request /\ DOMAIN request' = DOMAIN request \cup {r}
      /\ request'[r] = call
      /\ \A q \in DOMAIN request : request'[q] = request[q]
      /\ queue' = Append(queue, r) /\ now' = now
      /\ blocked' = IF Blocked(k) THEN blocked ELSE Drop(blocked, {k})
  BY DEF Start, Put
<1>2. \A j \in DOMAIN blocked' : j \in DOMAIN blocked /\ blocked'[j] = blocked[j]
  BY <1>1 DEF Drop
<1>3. ASSUME NEW q \in Requests, Live(q)' PROVE Fair(q)'
  <2>1. CASE q = r
    <3>1. ~Blocked(k)
      <4>1. Blocked(k) => blocked[k] \in Nat /\ blocked[k] > now /\ now \in Nat
        BY DEF Blocked, TypeOK
      <4>2. request'[r].stage = "asked" /\ (Blocked(k) => request'[r].until = blocked[k])
        BY <1>1
      <4>3. request'[r].until = 0
        <5>1. Live(r)'
          BY <1>3, <2>1
        <5> QED BY <4>2, <5>1 DEF Live
      <4> QED BY <4>1, <4>2, <4>3
    <3>2. request'[r].key = k
      BY <1>1
    <3> HIDE DEF call
    <3>3. ~Blocked(k)'
      BY <1>1, <1>2, <3>1 DEF Blocked
    <3> QED BY <1>1, <2>1, <3>2, <3>3, QueueLast DEF Fair, TypeOK
  <2>2. CASE q # r
    <3>1. Live(q) /\ request'[q] = request[q]
      BY <1>1, <1>3, <2>2 DEF Live
    <3>2. Fair(q)
      BY <3>1 DEF BlocksInv
    <3>3. \E i \in DOMAIN queue' : queue'[i] = q
      BY <1>1, <3>2, QueueLast DEF Fair, TypeOK
    <3> QED BY <1>1, <1>2, <3>1, <3>2, <3>3 DEF Fair, Blocked
  <2> QED BY <2>1, <2>2
<1> QED BY <1>3 DEF BlocksInv

\* The operator and the timer find no call under way, unless only time passes.
LEMMA OtherBlocks ==
  ASSUME TypeOK, BlocksInv,
         \/ \E k \in Keys : UnblockIP(k) \/ \E ms \in OperatorMs : BlockIP(k, ms)
         \/ Cleanup \/ Destroy \/ Tick \/ UNCHANGED vars
  PROVE  BlocksInv'
<1>1. CASE queue = <<>> /\ queue' = queue
           /\ (request' = request \/ \E S : request' = Forgotten(S))
  <2>1. \A q \in Requests : ~Live(q)
    BY <1>1 DEF BlocksInv, Fair
  <2>2. \A q \in Requests : Live(q)' => Live(q)
    <3> SUFFICES ASSUME NEW q \in Requests, Live(q)' PROVE Live(q)
      OBVIOUS
    <3>1. CASE request' = request
      BY <3>1 DEF Live
    <3>2. CASE \E S : request' = Forgotten(S)
      <4>1. PICK S : request' = Forgotten(S)
        BY <3>2
      <4>2. /\ q \in DOMAIN request
            /\ request'[q] = request[q] \/ request'[q].stage = "refused"
        BY <4>1 DEF Live, Forgotten, TypeOK, Call
      <4> QED BY <4>2 DEF Live
    <3> QED BY <1>1, <3>1, <3>2
  <2> QED BY <2>1, <2>2 DEF BlocksInv
<1>2. CASE Tick
  <2>1. /\ now' = now + 1 /\ UNCHANGED <<blocked, queue, request>> /\ now \in Nat
        /\ blockDuration \in Nat /\ \A k \in DOMAIN blocked : blocked[k] \in Nat
    BY <1>2, LimiterAssumption DEF Tick, TypeOK
  <2>2. ASSUME NEW q \in Requests, Live(q)' PROVE Fair(q)'
    <3>1. Fair(q)
      BY <2>1, <2>2 DEF BlocksInv, Live
    <3> QED BY <2>1, <3>1 DEF Fair, Blocked
  <2> QED BY <2>2 DEF BlocksInv
<1>3. CASE UNCHANGED vars
  BY <1>3 DEF vars, BlocksInv, Live, Fair, Blocked
<1>4. ASSUME \/ \E k \in Keys : UnblockIP(k) \/ \E ms \in OperatorMs : BlockIP(k, ms)
             \/ Cleanup \/ Destroy
      PROVE  queue = <<>> /\ queue' = queue
             /\ (request' = request \/ \E S : request' = Forgotten(S))
  BY <1>4 DEF UnblockIP, BlockIP, Cleanup, Destroy, Idle
<1> QED BY <1>1, <1>2, <1>3, <1>4

LEMMA BlocksInvariant == Spec => []BlocksInv
<1>1. Init => BlocksInv
  BY DEF Init, BlocksInv, Live, Empty
<1>2. TypeOK /\ BlocksInv /\ [Next]_vars => BlocksInv'
  BY StartBlocks, AnswerBlocks, ContinueBlocks, OtherBlocks DEF Next, Microtask
<1> QED BY <1>1, <1>2, TypeCorrect, PTL DEF Spec

\* A block in force is lifted or shortened only by the operator or by the eviction of
\* its key: not by cleanup, by the calls that were let in before it, or by another
\* key's traffic.
THEOREM BlockStandsHolds == Spec => BlockStands
<1>1. ASSUME TypeOK, BlocksInv, [Next]_vars, NEW k \in Keys, Blocked(k),
             k \notin DOMAIN blocked' \/ blocked'[k] < blocked[k]
      PROVE  \/ \E r \in Requests : Enter(r) /\ {k} \in Room
             \/ UnblockIP(k) \/ Destroy
             \/ \E ms \in OperatorMs : BlockIP(k, ms)
  <2>1. k \in DOMAIN blocked /\ now < blocked[k] /\ blocked[k] \in Nat /\ now \in Nat
    BY <1>1 DEF Blocked, TypeOK
  <2>2. ~(k \in DOMAIN blocked' /\ blocked'[k] = blocked[k])
    BY <1>1, <2>1
  <2>3. ASSUME NEW r \in Requests, NEW j \in Keys, Start(r, j) PROVE FALSE
    BY <1>1, <2>1, <2>2, <2>3 DEF Start, Drop
  <2>4. ASSUME NEW r \in Requests, Refuse(r) \/ Count(r) \/ Pass(r) PROVE FALSE
    BY <2>1, <2>2, <2>4 DEF Refuse, Count, Pass
  <2>5. ASSUME NEW r \in Requests, Limit(r) PROVE FALSE
    <3>1. /\ Live(r) /\ blocked' = Put(blocked, request[r].key, now + blockDuration)
      BY <2>5 DEF Limit, Live
    <3>2. request[r].key = k
      BY <2>1, <2>2, <3>1 DEF Put
    <3>3. blocked[k] <= now + blockDuration /\ blockDuration \in Nat
      BY <1>1, <3>1, <3>2, LimiterAssumption DEF BlocksInv, Fair
    <3>4. k \in DOMAIN blocked' /\ blocked'[k] = now + blockDuration
      BY <3>1, <3>2 DEF Put
    <3> QED BY <1>1, <2>1, <3>3, <3>4
  <2>6. ASSUME NEW r \in Requests, Enter(r) PROVE {k} \in Room
    <3>1. PICK S \in Room : blocked' = Drop(blocked, S)
      BY <2>6 DEF Enter
    <3>2. k \in S
      BY <2>1, <2>2, <3>1 DEF Drop
    <3>3. S = {k}
      BY <3>2 DEF Room
    <3> QED BY <3>1, <3>3
  <2>7. ASSUME NEW j \in Keys, UnblockIP(j) \/ \E ms \in OperatorMs : BlockIP(j, ms)
        PROVE  j = k
    BY <2>1, <2>2, <2>7 DEF UnblockIP, BlockIP, Drop, Put
  <2>8. CASE Cleanup
    BY <2>1, <2>2, <2>8 DEF Cleanup
  <2>9. CASE Tick \/ UNCHANGED vars
    BY <2>1, <2>2, <2>9 DEF Tick, vars
  <2> QED BY <1>1, <2>3, <2>4, <2>5, <2>6, <2>7, <2>8, <2>9 DEF Next, Microtask
<1>2. TypeOK /\ BlocksInv /\ [Next]_vars =>
        [\A k \in Keys :
           /\ Blocked(k)
           /\ k \notin DOMAIN blocked' \/ blocked'[k] < blocked[k]
           => \/ \E r \in Requests : Enter(r) /\ {k} \in Room
              \/ UnblockIP(k) \/ Destroy
              \/ \E ms \in OperatorMs : BlockIP(k, ms)]_vars
  BY <1>1
<1> QED BY <1>2, TypeCorrect, BlocksInvariant, PTL DEF Spec, BlockStands

-----------------------------------------------------------------------------
(* The native limiter.                                                      *)

\* What the code's configuration guarantees of the constants.
LEMMA ThreadedSettings == Threaded!ThreadedAssumption =>
  /\ threadedWindowMs \in Nat \ {0} /\ threadedMax \in Nat \ {0} /\ threadedBlockDuration \in Nat /\ threadedMaxKeys \in Nat
  /\ ThreadedOperatorMs \subseteq Nat /\ NoTime \notin Int
BY DEF Threaded!ThreadedAssumption

-----------------------------------------------------------------------------
(* Sliding.                                                                *)

LEMMA LeastOf ==
  ASSUME NEW T, T \subseteq Nat, T # {}
  PROVE  \E x \in T : \A y \in T : x <= y
<1>1. PICK x \in T : \A y \in T : <<y, x>> \notin OpToRel(<, Nat)
  BY NatLessThanWellFounded, WFMin
<1>2. \A y \in T : ~(y < x)
  BY <1>1 DEF OpToRel
<1>. QED  BY <1>2

\* A deque slid keeps every stamp after the cutoff, and adds none.
LEMMA SlideKeeps ==
  ASSUME NEW dq \in Seq(Threaded!Stamp), NEW cutoff \in Int
  PROVE  /\ Threaded!Slide(dq, cutoff) \in Seq(Threaded!Stamp)
         /\ \A i \in DOMAIN dq : dq[i].at > cutoff =>
              \E j \in DOMAIN Threaded!Slide(dq, cutoff) : Threaded!Slide(dq, cutoff)[j] = dq[i]
<1> DEFINE fresh == {i \in DOMAIN dq : dq[i].at > cutoff}
           first == CHOOSE i \in fresh : \A j \in fresh : i <= j
           slid  == Threaded!Slide(dq, cutoff)
<1>1. Len(dq) \in Nat /\ DOMAIN dq = 1 .. Len(dq) /\ \A i \in 1 .. Len(dq) : dq[i] \in Threaded!Stamp
  BY LenProperties, ElementOfSeq
<1>2. CASE fresh = {}
  <2>1. slid = <<>>
    BY <1>2 DEF Threaded!Slide
  <2>. QED  BY <1>2, <2>1, EmptySeq
<1>3. CASE fresh # {}
  <2>1. fresh \subseteq Nat
    BY <1>1
  <2>. HIDE DEF fresh
  <2>2. first \in fresh /\ \A j \in fresh : first <= j
    BY <1>3, <2>1, LeastOf
  <2>3. first \in 1 .. Len(dq)
    BY <1>1, <2>2 DEF fresh
  <2>4. slid = SubSeq(dq, first, Len(dq))
    BY <1>3 DEF Threaded!Slide, fresh
  <2>. HIDE DEF first, slid
  <2>5. /\ slid \in Seq(Threaded!Stamp) /\ Len(slid) = Len(dq) - first + 1
        /\ \A i \in 1 .. Len(dq) - first + 1 : slid[i] = dq[first + i - 1]
    BY <1>1, <2>3, <2>4, SubSeqProperties
  <2>6. DOMAIN slid = 1 .. Len(dq) - first + 1
    BY <2>5, LenProperties
  <2>7. ASSUME NEW i \in DOMAIN dq, dq[i].at > cutoff
        PROVE  \E j \in DOMAIN slid : slid[j] = dq[i]
    <3>1. i \in fresh
      BY <2>7 DEF fresh
    <3>2. first <= i /\ i \in 1 .. Len(dq)
      BY <1>1, <2>2, <2>7, <3>1
    <3> DEFINE j == i - first + 1
    <3>3. j \in 1 .. Len(dq) - first + 1 /\ first + j - 1 = i
      BY <1>1, <2>3, <3>2
    <3>. QED  BY <2>5, <2>6, <3>3
  <2>. QED  BY <2>5, <2>7 DEF slid
<1>. QED  BY <1>2, <1>3

-----------------------------------------------------------------------------
(* What a step does.                                                       *)

\* Only c moves, with the key it is about; what it wiped or saw aside.
Moves(c) ==
  /\ c \in DOMAIN thread /\ DOMAIN thread' = DOMAIN thread
  /\ \A d \in DOMAIN thread : d # c => thread'[d] = thread[d]
  /\ thread'[c] \in Threaded!Thread /\ thread'[c].key = thread[c].key /\ thread'[c].void = thread[c].void

CallsOK == DOMAIN thread \subseteq Calls /\ \A c \in DOMAIN thread : thread[c] \in Threaded!Thread

LEMMA GoneTo ==
  ASSUME CallsOK, NEW c \in DOMAIN thread,
         NEW pc \in {"erase", "clock", "passed", "limited", "refused"}, Threaded!Goto(c, pc)
  PROVE  /\ Moves(c) /\ thread'[c].pc = pc /\ thread'[c].at = thread[c].at
         /\ thread'[c].saw = thread[c].saw /\ thread'[c].count = thread[c].count
<1>1. thread[c] \in Threaded!Thread
  BY DEF CallsOK
<1> DEFINE q == [thread[c] EXCEPT !.pc = pc]
<1>2. thread' = [thread EXCEPT ![c] = q]
  BY DEF Threaded!Goto
<1>3. /\ q \in Threaded!Thread /\ q.key = thread[c].key /\ q.void = thread[c].void /\ q.pc = pc
      /\ q.at = thread[c].at /\ q.saw = thread[c].saw /\ q.count = thread[c].count
  BY <1>1 DEF Threaded!Thread
<1>. HIDE DEF q
<1>. QED  BY <1>2, <1>3 DEF Moves

LEMMA VoidCalls ==
  ASSUME CallsOK, NEW S
  PROVE  /\ DOMAIN Threaded!Void(S) = DOMAIN thread
         /\ \A d \in DOMAIN thread :
              /\ Threaded!Void(S)[d] \in Threaded!Thread
              /\ Threaded!Void(S)[d].pc = thread[d].pc /\ Threaded!Void(S)[d].key = thread[d].key
              /\ Threaded!Void(S)[d].at = thread[d].at /\ Threaded!Void(S)[d].saw = thread[d].saw
              /\ Threaded!Void(S)[d].count = thread[d].count
              /\ Threaded!Void(S)[d].void = (thread[d].void \/ (thread[d].key \in S /\ Threaded!Counted(d)))
<1>. SUFFICES ASSUME NEW d \in DOMAIN thread
              PROVE  /\ Threaded!Void(S)[d] \in Threaded!Thread
                     /\ Threaded!Void(S)[d].pc = thread[d].pc /\ Threaded!Void(S)[d].key = thread[d].key
                     /\ Threaded!Void(S)[d].at = thread[d].at /\ Threaded!Void(S)[d].saw = thread[d].saw
                     /\ Threaded!Void(S)[d].count = thread[d].count
                     /\ Threaded!Void(S)[d].void = (thread[d].void \/ (thread[d].key \in S /\ Threaded!Counted(d)))
  BY DEF Threaded!Void
<1> DEFINE v == thread[d].void \/ (thread[d].key \in S /\ Threaded!Counted(d))
<1>1. Threaded!Void(S)[d] = [thread[d] EXCEPT !.void = v]
  BY DEF Threaded!Void
<1>2. v \in BOOLEAN /\ thread[d] \in Threaded!Thread
  BY DEF CallsOK, Threaded!Thread
<1>. HIDE DEF v
<1>3. /\ Threaded!Void(S)[d] \in Threaded!Thread /\ Threaded!Void(S)[d].void = v
      /\ Threaded!Void(S)[d].pc = thread[d].pc /\ Threaded!Void(S)[d].key = thread[d].key
      /\ Threaded!Void(S)[d].at = thread[d].at /\ Threaded!Void(S)[d].saw = thread[d].saw
      /\ Threaded!Void(S)[d].count = thread[d].count
  BY <1>1, <1>2 DEF Threaded!Thread
<1>. QED  BY <1>3 DEF v

\* A key evicted, at the limit, makes room.
LEMMA EvictedKeys ==
  ASSUME NEW t, NEW r \in Threaded!Evicted(t)
  PROVE  \E S \in SUBSET DOMAIN t :
           (S = {} \/ \E j \in DOMAIN t : S = {j}) /\ DOMAIN r = DOMAIN t \ S
             /\ \A k \in DOMAIN r : r[k] = t[k]
<1>1. CASE DOMAIN t = {}
  BY <1>1 DEF Threaded!Evicted
<1>2. CASE DOMAIN t # {}
  <2>1. PICK j \in DOMAIN t : r = Threaded!Drop(t, {j})
    BY <1>2 DEF Threaded!Evicted
  <2>. QED  BY <2>1 DEF Threaded!Drop
<1>. QED  BY <1>1, <1>2

\* What a count leaves, S the keys it evicted and old the deque it found.
Taken(c, S, old) ==
  LET k  == thread[c].key
      dq == IF k \in DOMAIN deques \ S THEN deques[k] ELSE <<>>
      s  == [call |-> c, at |-> thread[c].at]
  IN  /\ c \in DOMAIN thread /\ thread[c].pc = "count" /\ tnow' = tnow /\ sweep' = sweep
      /\ S \subseteq DOMAIN deques /\ (S = {} \/ \E j \in DOMAIN deques : S = {j})
      /\ S # {} => Threaded!Full
      /\ old = Threaded!Slide(dq, thread[c].at - threadedWindowMs) /\ old \in Seq(Threaded!Stamp)
      /\ \A i \in DOMAIN dq : dq[i].at > thread[c].at - threadedWindowMs => \E j \in DOMAIN old : old[j] = dq[i]
      /\ DOMAIN deques' = (DOMAIN deques \ S) \cup {k}
      /\ deques'[k] = Append(old, s) /\ deques'[k] \in Seq(Threaded!Stamp)
      /\ \A j \in DOMAIN deques \ S : j # k => deques'[j] = deques[j]
      /\ DOMAIN thread' = DOMAIN thread /\ thread'[c] \in Threaded!Thread
      /\ thread'[c].pc = "counted" /\ thread'[c].key = k /\ thread'[c].at = thread[c].at
      /\ thread'[c].count = Len(old) + 1 /\ thread'[c].void = thread[c].void
      /\ \A d \in DOMAIN thread : d # c =>
           /\ thread'[d] \in Threaded!Thread
           /\ thread'[d].pc = thread[d].pc /\ thread'[d].key = thread[d].key
           /\ thread'[d].at = thread[d].at /\ thread'[d].saw = thread[d].saw
           /\ thread'[d].count = thread[d].count
           /\ thread'[d].void = (thread[d].void \/ (thread[d].key \in S /\ Threaded!Counted(d)))

LEMMA CountTakes ==
  ASSUME Threaded!ThreadedAssumption, Threaded!TypeOK, NEW c \in Calls, Threaded!Count(c)
  PROVE  /\ \E S, old : Taken(c, S, old)
         /\ DOMAIN tblocked' \subseteq DOMAIN tblocked
         /\ \A k \in DOMAIN tblocked' : tblocked'[k] = tblocked[k]
         /\ ~Threaded!Full => tblocked' = tblocked
<1> DEFINE k  == thread[c].key
           at == thread[c].at
           s  == [call |-> c, at |-> at]
<1>1. /\ c \in DOMAIN thread /\ thread[c].pc = "count" /\ thread[c] \in Threaded!Thread /\ CallsOK
      /\ k \in Keys /\ at \in Nat /\ tnow' = tnow /\ sweep' = sweep
  BY DEF Threaded!Count, Threaded!At, Threaded!TypeOK, CallsOK, Threaded!Thread
<1>2. PICK reqs : /\ Threaded!Full => reqs \in Threaded!Evicted(deques)
                  /\ ~Threaded!Full => reqs = deques
                  /\ LET dq == Append(Threaded!Slide(IF k \in DOMAIN reqs THEN reqs[k] ELSE <<>>,
                                            at - threadedWindowMs), s)
                     IN  /\ deques' = Threaded!Put(reqs, k, dq)
                         /\ thread' = [Threaded!Void(DOMAIN deques \ DOMAIN reqs)
                                       EXCEPT ![c].pc = "counted", ![c].count = Len(dq)]
  BY DEF Threaded!Count
<1>3. PICK S \in SUBSET DOMAIN deques :
        /\ S = {} \/ \E j \in DOMAIN deques : S = {j}
        /\ S # {} => Threaded!Full
        /\ DOMAIN reqs = DOMAIN deques \ S /\ \A j \in DOMAIN reqs : reqs[j] = deques[j]
  <2>1. CASE Threaded!Full
    BY <1>2, <2>1, EvictedKeys
  <2>2. CASE ~Threaded!Full
    <3>1. reqs = deques /\ DOMAIN deques = DOMAIN deques \ {} /\ {} \in SUBSET DOMAIN deques
      BY <1>2, <2>2
    <3>. QED  BY <3>1
  <2>. QED  BY <2>1, <2>2
<1> DEFINE dq  == IF k \in DOMAIN deques \ S THEN deques[k] ELSE <<>>
           old == Threaded!Slide(dq, at - threadedWindowMs)
           new == Append(old, s)
<1>4. DOMAIN deques \ DOMAIN reqs = S /\ dq = IF k \in DOMAIN reqs THEN reqs[k] ELSE <<>>
  BY <1>3
<1>5. dq \in Seq(Threaded!Stamp) /\ at - threadedWindowMs \in Int /\ s \in Threaded!Stamp
  <2>1. dq \in Seq(Threaded!Stamp)
    BY EmptySeq DEF Threaded!TypeOK
  <2>. QED  BY <1>1, <2>1, ThreadedSettings DEF Threaded!Stamp
<1>6. deques' = Threaded!Put(reqs, k, new)
  BY <1>2, <1>4
<1>7. thread' = [Threaded!Void(S) EXCEPT ![c].pc = "counted", ![c].count = Len(new)]
  BY <1>2, <1>4
<1>. HIDE DEF dq, s
<1>8. /\ old \in Seq(Threaded!Stamp)
      /\ \A i \in DOMAIN dq : dq[i].at > at - threadedWindowMs => \E j \in DOMAIN old : old[j] = dq[i]
  BY <1>5, SlideKeeps
<1>. HIDE DEF old
<1>9. new \in Seq(Threaded!Stamp) /\ Len(new) = Len(old) + 1 /\ Len(new) \in Nat
  BY <1>5, <1>8, AppendProperties, LenProperties
<1>. HIDE DEF new
<1>10. /\ DOMAIN deques' = (DOMAIN deques \ S) \cup {k} /\ deques'[k] = new
       /\ \A j \in DOMAIN deques \ S : j # k => deques'[j] = deques[j]
  BY <1>3, <1>6 DEF Threaded!Put
<1> DEFINE u == Threaded!Void(S)[c]
           q == [[u EXCEPT !.pc = "counted"] EXCEPT !.count = Len(new)]
<1>11. /\ DOMAIN Threaded!Void(S) = DOMAIN thread
       /\ \A d \in DOMAIN thread :
            /\ Threaded!Void(S)[d] \in Threaded!Thread
            /\ Threaded!Void(S)[d].pc = thread[d].pc /\ Threaded!Void(S)[d].key = thread[d].key
            /\ Threaded!Void(S)[d].at = thread[d].at /\ Threaded!Void(S)[d].saw = thread[d].saw
            /\ Threaded!Void(S)[d].count = thread[d].count
            /\ Threaded!Void(S)[d].void = (thread[d].void \/ (thread[d].key \in S /\ Threaded!Counted(d)))
  BY <1>1, VoidCalls
<1>12. /\ u \in Threaded!Thread /\ u.key = k /\ u.at = at /\ u.void = thread[c].void
  <2>1. ~Threaded!Counted(c)
    BY <1>1 DEF Threaded!Counted
  <2>2. thread[c].void \in BOOLEAN
    BY <1>1 DEF Threaded!Thread
  <2>. QED  BY <1>1, <1>11, <2>1, <2>2
<1>13. thread' = [Threaded!Void(S) EXCEPT ![c] = q]
  BY <1>7
<1>. HIDE DEF u
<1>14. /\ q \in Threaded!Thread /\ q.pc = "counted" /\ q.key = k /\ q.at = at
       /\ q.count = Len(new) /\ q.void = thread[c].void
  BY <1>9, <1>12 DEF Threaded!Thread
<1>. HIDE DEF q
<1>15. /\ DOMAIN thread' = DOMAIN thread /\ thread'[c] = q
       /\ \A d \in DOMAIN thread : d # c => thread'[d] = Threaded!Void(S)[d]
  BY <1>1, <1>11, <1>13
<1>16. Taken(c, S, old)
  <2>1. /\ deques'[k] = Append(old, s) /\ deques'[k] \in Seq(Threaded!Stamp)
    BY <1>9, <1>10 DEF new
  <2>. QED
    BY <1>1, <1>3, <1>8, <1>9, <1>10, <1>11, <1>14, <1>15, <2>1 DEF Taken, old, dq, s
<1>17. /\ DOMAIN tblocked' \subseteq DOMAIN tblocked
       /\ \A j \in DOMAIN tblocked' : tblocked'[j] = tblocked[j]
       /\ ~Threaded!Full => tblocked' = tblocked
  <2>1. /\ Threaded!Full => tblocked' \in Threaded!Evicted(tblocked)
        /\ ~Threaded!Full => tblocked' = tblocked
    BY DEF Threaded!Count
  <2>2. CASE Threaded!Full
    <3>1. PICK r \in Threaded!Evicted(tblocked) : tblocked' = r
      BY <2>1, <2>2
    <3>2. PICK T \in SUBSET DOMAIN tblocked :
            DOMAIN r = DOMAIN tblocked \ T /\ \A j \in DOMAIN r : r[j] = tblocked[j]
      BY EvictedKeys
    <3>. QED  BY <2>2, <3>1, <3>2
  <2>. QED  BY <2>1, <2>2
<1>. QED  BY <1>16, <1>17

-----------------------------------------------------------------------------
(* The stamps of the window.                                               *)

Holds(dq, s) == \E i \in DOMAIN dq : dq[i] = s

\* Clocks that were read lie in the past, a block seen expired is older still,
\* and only what was counted is wiped.
Clocks ==
  /\ \A c \in DOMAIN thread :
       /\ thread[c].at <= tnow
       /\ thread[c].pc = "erase" => thread[c].saw <= thread[c].at
       /\ thread[c].void => Threaded!Counted(c)
  /\ sweep \in Nat => sweep <= tnow

ThreadedKept ==
  \A c \in DOMAIN thread :
    Threaded!Counted(c) /\ ~thread[c].void /\ thread[c].at > tnow - threadedWindowMs
      => /\ thread[c].key \in DOMAIN deques
         /\ Holds(deques[thread[c].key], [call |-> c, at |-> thread[c].at])

ThreadedIInv == Threaded!TypeOK /\ Clocks /\ ThreadedKept

LEMMA ThreadedIInvKeeps == ThreadedIInv => Threaded!StampsKept
<1>. SUFFICES ASSUME ThreadedIInv, NEW c \in Calls,
                     Threaded!Counted(c) /\ ~thread[c].void /\ thread[c].at > tnow - threadedWindowMs
              PROVE  \E i \in DOMAIN Threaded!Deque(thread[c].key) : Threaded!Deque(thread[c].key)[i].call = c
  BY DEF ThreadedIInv, Threaded!StampsKept, Threaded!WindowKept
<1>1. /\ thread[c].key \in DOMAIN deques
      /\ Holds(deques[thread[c].key], [call |-> c, at |-> thread[c].at])
  BY DEF ThreadedIInv, ThreadedKept, Threaded!Counted
<1>. QED  BY <1>1 DEF Holds, Threaded!Deque

LEMMA ThreadedTyped ==
  ASSUME ThreadedIInv
  PROVE  /\ tnow \in Nat /\ CallsOK
         /\ \A c \in DOMAIN thread :
              /\ thread[c] \in Threaded!Thread /\ thread[c].key \in Keys /\ thread[c].at \in Nat
              /\ thread[c].saw \in Nat /\ thread[c].count \in Nat /\ thread[c].void \in BOOLEAN
BY DEF ThreadedIInv, Threaded!TypeOK, CallsOK, Threaded!Thread

BlockedOK == DOMAIN tblocked \subseteq Keys /\ \A k \in DOMAIN tblocked : tblocked[k] \in Nat

LEMMA ThreadedIInvInit == Threaded!ThreadedAssumption /\ Threaded!Init => ThreadedIInv
<1>. SUFFICES ASSUME Threaded!ThreadedAssumption, Threaded!Init PROVE ThreadedIInv
  OBVIOUS
<1>1. DOMAIN deques = {} /\ DOMAIN tblocked = {} /\ DOMAIN thread = {}
      /\ tnow = 0 /\ sweep = NoTime
  BY DEF Threaded!Init, Threaded!Empty
<1>2. Threaded!TypeOK
  BY <1>1 DEF Threaded!TypeOK
<1>3. Clocks
  BY <1>1, ThreadedSettings DEF Clocks
<1>4. ThreadedKept
  BY <1>1 DEF ThreadedKept
<1>. QED  BY <1>2, <1>3, <1>4 DEF ThreadedIInv

\* A call that moves on, before or after it is counted, with a clock read in the past.
LEMMA MoveKeeps ==
  ASSUME ThreadedIInv, NEW c \in Calls, Moves(c), BlockedOK',
         UNCHANGED <<tnow, deques, sweep>>,
         thread'[c].at <= tnow, thread'[c].pc = "erase" => thread'[c].saw <= thread'[c].at,
         Threaded!Counted(c)' => Threaded!Counted(c) /\ thread'[c].at = thread[c].at,
         Threaded!Counted(c) => Threaded!Counted(c)'
  PROVE  ThreadedIInv'
<1>1. /\ c \in DOMAIN thread /\ DOMAIN thread' = DOMAIN thread
      /\ \A d \in DOMAIN thread : d # c => thread'[d] = thread[d]
      /\ thread'[c] \in Threaded!Thread /\ thread'[c].key = thread[c].key /\ thread'[c].void = thread[c].void
  BY DEF Moves
<1>2. Threaded!TypeOK'
  BY <1>1 DEF ThreadedIInv, Threaded!TypeOK, BlockedOK
<1>3. Clocks'
  BY <1>1 DEF ThreadedIInv, Clocks, Threaded!Counted
<1>4. ThreadedKept'
  <2>. SUFFICES ASSUME NEW d \in DOMAIN thread, Threaded!Counted(d)', ~thread'[d].void,
                       thread'[d].at > tnow - threadedWindowMs
                PROVE  /\ thread'[d].key \in DOMAIN deques
                       /\ Holds(deques[thread'[d].key], [call |-> d, at |-> thread'[d].at])
    BY <1>1 DEF ThreadedKept, Holds
  <2>1. /\ Threaded!Counted(d) /\ ~thread[d].void /\ thread'[d].at = thread[d].at /\ thread'[d].key = thread[d].key
    BY <1>1 DEF Threaded!Counted
  <2>. QED  BY <2>1 DEF ThreadedIInv, ThreadedKept
<1>. QED  BY <1>2, <1>3, <1>4 DEF ThreadedIInv

LEMMA BlockedType == ThreadedIInv => BlockedOK
BY DEF ThreadedIInv, Threaded!TypeOK, BlockedOK

LEMMA LookKeeps ==
  ASSUME ThreadedIInv, NEW c \in Calls, Threaded!Look(c)
  PROVE  ThreadedIInv'
<1> DEFINE k == thread[c].key
<1>1. /\ c \in DOMAIN thread /\ thread[c].pc = "look" /\ thread[c] \in Threaded!Thread
      /\ UNCHANGED <<tnow, deques, tblocked, sweep>>
  BY ThreadedTyped DEF Threaded!Look, Threaded!At
<1>2. CASE Threaded!Goto(c, "clock") \/ Threaded!Goto(c, "refused")
  <2>1. /\ Moves(c) /\ thread'[c].pc \in {"clock", "refused"} /\ thread'[c].at = thread[c].at
    BY <1>1, <1>2, GoneTo, ThreadedTyped
  <2>. QED
    BY <1>1, <2>1, MoveKeeps, BlockedType DEF Threaded!Counted, ThreadedIInv, Clocks, BlockedOK
<1>3. CASE /\ k \in DOMAIN tblocked /\ ~(thread[c].at < tblocked[k])
           /\ thread' = [thread EXCEPT ![c].pc = "erase", ![c].saw = tblocked[k]]
  <2> DEFINE q == [[thread[c] EXCEPT !.pc = "erase"] EXCEPT !.saw = tblocked[k]]
  <2>1. thread' = [thread EXCEPT ![c] = q]
    BY <1>3
  <2>2. tblocked[k] \in Nat /\ thread[c].at \in Nat /\ tblocked[k] <= thread[c].at
    BY <1>1, <1>3, ThreadedTyped, BlockedType DEF BlockedOK
  <2>3. /\ q \in Threaded!Thread /\ q.pc = "erase" /\ q.key = thread[c].key /\ q.at = thread[c].at
        /\ q.saw = tblocked[k] /\ q.void = thread[c].void
    BY <1>1, <2>2 DEF Threaded!Thread
  <2>. HIDE DEF q
  <2>4. Moves(c) /\ thread'[c] = q
    BY <1>1, <2>1, <2>3 DEF Moves
  <2>. QED
    BY <1>1, <2>2, <2>3, <2>4, MoveKeeps, BlockedType
       DEF Threaded!Counted, ThreadedIInv, Clocks, BlockedOK
<1>. QED  BY <1>2, <1>3 DEF Threaded!Look

LEMMA ErasedKeeps ==
  ASSUME ThreadedIInv, NEW c \in Calls, Threaded!EraseExpired(c)
  PROVE  ThreadedIInv'
<1>1. /\ c \in DOMAIN thread /\ thread[c].pc = "erase" /\ Threaded!Goto(c, "clock")
      /\ tblocked' = Threaded!Drop(tblocked, {thread[c].key}) /\ UNCHANGED <<tnow, deques, sweep>>
  BY DEF Threaded!EraseExpired, Threaded!At
<1>2. Moves(c) /\ thread'[c].pc = "clock" /\ thread'[c].at = thread[c].at
  BY <1>1, GoneTo, ThreadedTyped
<1>3. BlockedOK'
  BY <1>1, BlockedType DEF BlockedOK, Threaded!Drop
<1>. QED  BY <1>1, <1>2, <1>3, MoveKeeps DEF Threaded!Counted, ThreadedIInv, Clocks

LEMMA ReadKeeps ==
  ASSUME ThreadedIInv, NEW c \in Calls, Threaded!ReadClock(c)
  PROVE  ThreadedIInv'
<1>1. /\ c \in DOMAIN thread /\ thread[c].pc = "clock" /\ thread[c] \in Threaded!Thread /\ tnow \in Nat
      /\ UNCHANGED <<tnow, deques, tblocked, sweep>>
      /\ thread' = [thread EXCEPT ![c].pc = "count", ![c].at = tnow]
  BY ThreadedTyped DEF Threaded!ReadClock, Threaded!At
<1> DEFINE q == [[thread[c] EXCEPT !.pc = "count"] EXCEPT !.at = tnow]
<1>2. thread' = [thread EXCEPT ![c] = q]
  BY <1>1
<1>3. q \in Threaded!Thread /\ q.pc = "count" /\ q.key = thread[c].key /\ q.at = tnow /\ q.void = thread[c].void
  BY <1>1 DEF Threaded!Thread
<1>. HIDE DEF q
<1>4. Moves(c) /\ thread'[c] = q
  BY <1>1, <1>2, <1>3 DEF Moves
<1>. QED  BY <1>1, <1>3, <1>4, MoveKeeps, BlockedType DEF Threaded!Counted, BlockedOK

LEMMA AnswerKeeps ==
  ASSUME Threaded!ThreadedAssumption, ThreadedIInv, NEW c \in Calls, Threaded!Pass(c) \/ Threaded!Limit(c)
  PROVE  ThreadedIInv'
<1>1. /\ c \in DOMAIN thread /\ thread[c].pc = "counted" /\ UNCHANGED <<tnow, deques, sweep>>
      /\ Threaded!Goto(c, "passed") \/ Threaded!Goto(c, "limited")
  BY DEF Threaded!Pass, Threaded!Limit, Threaded!At
<1>2. Moves(c) /\ thread'[c].pc \in {"passed", "limited"} /\ thread'[c].at = thread[c].at
  BY <1>1, GoneTo, ThreadedTyped
<1>3. BlockedOK'
  <2>1. CASE tblocked' = tblocked
    BY <2>1, BlockedType DEF BlockedOK
  <2>2. CASE tblocked' = Threaded!Put(tblocked, thread[c].key, tnow + threadedBlockDuration)
    <3>1. tnow + threadedBlockDuration \in Nat /\ thread[c].key \in Keys
      BY <1>1, ThreadedSettings, ThreadedTyped
    <3>. QED  BY <2>2, <3>1, BlockedType DEF BlockedOK, Threaded!Put
  <2>. QED  BY <2>1, <2>2 DEF Threaded!Pass, Threaded!Limit
<1>4. Threaded!Counted(c) /\ thread[c].at <= tnow /\ c \in DOMAIN thread'
  BY <1>1, <1>2 DEF Threaded!Counted, Moves, ThreadedIInv, Clocks
<1>5. Threaded!Counted(c)' /\ thread'[c].pc # "erase" /\ thread'[c].at <= tnow
  BY <1>2, <1>4 DEF Threaded!Counted
<1>. QED  BY <1>1, <1>2, <1>3, <1>4, <1>5, MoveKeeps

LEMMA BeginKeeps ==
  ASSUME ThreadedIInv, NEW c \in Calls, NEW k \in Keys, Threaded!Begin(c, k)
  PROVE  ThreadedIInv'
<1> DEFINE new == [pc |-> "look", key |-> k, at |-> tnow, saw |-> 0, count |-> 0, void |-> FALSE]
<1>1. /\ c \notin DOMAIN thread /\ thread' = Threaded!Put(thread, c, new)
      /\ UNCHANGED <<tnow, deques, tblocked, sweep>>
  BY DEF Threaded!Begin
<1>2. new \in Threaded!Thread /\ new.pc = "look" /\ new.at = tnow /\ new.void = FALSE
  BY ThreadedTyped DEF Threaded!Thread
<1>. HIDE DEF new
<1>3. /\ DOMAIN thread' = DOMAIN thread \cup {c} /\ thread'[c] = new
      /\ \A d \in DOMAIN thread : thread'[d] = thread[d]
  BY <1>1 DEF Threaded!Put
<1>4. Threaded!TypeOK'
  BY <1>1, <1>2, <1>3 DEF ThreadedIInv, Threaded!TypeOK
<1>5. Clocks'
  BY <1>1, <1>2, <1>3, ThreadedTyped DEF ThreadedIInv, Clocks, Threaded!Counted
<1>6. ThreadedKept'
  <2>. SUFFICES ASSUME NEW d \in DOMAIN thread', Threaded!Counted(d)', ~thread'[d].void,
                       thread'[d].at > tnow - threadedWindowMs
                PROVE  /\ thread'[d].key \in DOMAIN deques
                       /\ Holds(deques[thread'[d].key], [call |-> d, at |-> thread'[d].at])
    BY <1>1 DEF ThreadedKept, Holds
  <2>1. d \in DOMAIN thread /\ Threaded!Counted(d) /\ thread'[d] = thread[d]
    BY <1>2, <1>3 DEF Threaded!Counted
  <2>. QED  BY <2>1 DEF ThreadedIInv, ThreadedKept
<1>. QED  BY <1>4, <1>5, <1>6 DEF ThreadedIInv

\* A count slides with a clock that is past: what the window needs now stays.
LEMMA CountKeeps ==
  ASSUME Threaded!ThreadedAssumption, ThreadedIInv, NEW c \in Calls, Threaded!Count(c)
  PROVE  ThreadedIInv'
<1>1. PICK S, old : Taken(c, S, old)
  BY CountTakes DEF ThreadedIInv
<1> DEFINE k  == thread[c].key
           at == thread[c].at
<1>2. /\ c \in DOMAIN thread /\ k \in Keys /\ at \in Nat /\ at <= tnow /\ tnow \in Nat
      /\ thread[c].pc = "count" /\ ~Threaded!Counted(c) /\ ~thread[c].void
  BY <1>1, ThreadedTyped DEF Taken, ThreadedIInv, Clocks, Threaded!Counted
<1>3. Threaded!TypeOK'
  <2>1. \A d \in DOMAIN thread' : thread'[d] \in Threaded!Thread
    BY <1>1 DEF Taken
  <2>2. /\ DOMAIN deques' \subseteq Keys /\ \A j \in DOMAIN deques' : deques'[j] \in Seq(Threaded!Stamp)
    BY <1>1, <1>2 DEF Taken, ThreadedIInv, Threaded!TypeOK
  <2>3. BlockedOK'
    BY CountTakes, BlockedType DEF BlockedOK, ThreadedIInv
  <2>. QED  BY <1>1, <2>1, <2>2, <2>3 DEF Taken, ThreadedIInv, Threaded!TypeOK, BlockedOK
<1>4. Clocks'
  BY <1>1, <1>2 DEF Taken, ThreadedIInv, Clocks, Threaded!Counted
<1>5. ThreadedKept'
  <2>. SUFFICES ASSUME NEW d \in DOMAIN thread, Threaded!Counted(d)', ~thread'[d].void,
                       thread'[d].at > tnow - threadedWindowMs
                PROVE  /\ thread'[d].key \in DOMAIN deques'
                       /\ Holds(deques'[thread'[d].key], [call |-> d, at |-> thread'[d].at])
    BY <1>1 DEF ThreadedKept, Holds, Taken
  <2>1. CASE d = c
    <3>1. /\ old \in Seq(Threaded!Stamp) /\ deques'[k] = Append(old, [call |-> c, at |-> at])
          /\ deques'[k] \in Seq(Threaded!Stamp)
          /\ thread'[c].key = k /\ thread'[c].at = at /\ k \in DOMAIN deques'
      BY <1>1 DEF Taken
    <3> DEFINE s == [call |-> c, at |-> at]
    <3>2. /\ Len(old) \in Nat /\ Append(old, s)[Len(old) + 1] = s
          /\ DOMAIN Append(old, s) = 1 .. Len(old) + 1
      <4>1. s \in Threaded!Stamp
        BY <1>2 DEF Threaded!Stamp
      <4>. HIDE DEF s
      <4>. QED  BY <3>1, <4>1, AppendProperties, LenProperties
    <3>3. Len(old) + 1 \in DOMAIN deques'[k] /\ deques'[k][Len(old) + 1] = s
      BY <3>1, <3>2
    <3>. QED  BY <2>1, <3>1, <3>3 DEF Holds
  <2>2. CASE d # c
    <3> DEFINE s == [call |-> d, at |-> thread[d].at]
    <3>1. /\ thread'[d].key = thread[d].key /\ thread'[d].at = thread[d].at
          /\ Threaded!Counted(d) /\ ~thread[d].void /\ thread[d].key \notin S
      <4>1. /\ thread'[d].pc = thread[d].pc /\ thread'[d].key = thread[d].key /\ thread'[d].at = thread[d].at
            /\ thread'[d].void = (thread[d].void \/ (thread[d].key \in S /\ Threaded!Counted(d)))
        BY <1>1, <2>2 DEF Taken
      <4>2. Threaded!Counted(d)
        BY <4>1 DEF Threaded!Counted
      <4>. QED  BY <4>1, <4>2
    <3>2. /\ thread[d].key \in DOMAIN deques
          /\ Holds(deques[thread[d].key], s)
      BY <3>1 DEF ThreadedIInv, ThreadedKept
    <3>3. CASE thread[d].key # k
      BY <1>1, <3>1, <3>2, <3>3 DEF Taken
    <3>4. CASE thread[d].key = k
      <4>1. k \in DOMAIN deques \ S /\ Holds(deques[k], s)
        BY <3>1, <3>2, <3>4
      <4>2. PICK i \in DOMAIN deques[k] : deques[k][i] = s
        BY <4>1 DEF Holds
      <4>3. thread[d].at > at - threadedWindowMs
        BY <1>2, <3>1, ThreadedTyped, ThreadedSettings
      <4>4. \E j \in DOMAIN old : old[j] = s
        BY <1>1, <4>1, <4>2, <4>3 DEF Taken
      <4>5. PICK j \in DOMAIN old : old[j] = s
        BY <4>4
      <4>6. /\ old \in Seq(Threaded!Stamp) /\ [call |-> c, at |-> at] \in Threaded!Stamp
            /\ deques'[k] = Append(old, [call |-> c, at |-> at]) /\ k \in DOMAIN deques'
        BY <1>1, <1>2 DEF Taken, Threaded!Stamp
      <4>7. j \in DOMAIN deques'[k] /\ deques'[k][j] = s
        <5> DEFINE mine == [call |-> c, at |-> at]
        <5>. HIDE DEF mine, s
        <5>1. /\ Len(old) \in Nat /\ j \in 1 .. Len(old)
              /\ Append(old, mine)[j] = old[j] /\ j \in DOMAIN Append(old, mine)
          BY <4>5, <4>6, LenProperties, AppendProperties DEF mine
        <5>. QED  BY <4>5, <4>6, <5>1 DEF mine
      <4>. QED  BY <3>1, <3>4, <4>6, <4>7 DEF Holds
    <3>. QED  BY <3>3, <3>4
  <2>. QED  BY <2>1, <2>2
<1>. QED  BY <1>3, <1>4, <1>5 DEF ThreadedIInv

\* The operator wipes a key, and with it what was counted.
LEMMA UnblockKeeps ==
  ASSUME ThreadedIInv, NEW k \in Keys, Threaded!UnblockIP(k)
  PROVE  ThreadedIInv'
<1>1. /\ tblocked' = Threaded!Drop(tblocked, {k}) /\ deques' = Threaded!Drop(deques, {k})
      /\ thread' = Threaded!Void({k}) /\ UNCHANGED <<tnow, sweep>>
  BY DEF Threaded!UnblockIP
<1>2. /\ DOMAIN thread' = DOMAIN thread
      /\ \A d \in DOMAIN thread :
           /\ thread'[d] \in Threaded!Thread
           /\ thread'[d].pc = thread[d].pc /\ thread'[d].key = thread[d].key
           /\ thread'[d].at = thread[d].at /\ thread'[d].saw = thread[d].saw
           /\ thread'[d].void = (thread[d].void \/ (thread[d].key \in {k} /\ Threaded!Counted(d)))
  BY <1>1, VoidCalls, ThreadedTyped
<1>3. Threaded!TypeOK'
  BY <1>1, <1>2 DEF ThreadedIInv, Threaded!TypeOK, Threaded!Drop
<1>4. Clocks'
  BY <1>1, <1>2 DEF ThreadedIInv, Clocks, Threaded!Counted
<1>5. ThreadedKept'
  <2>. SUFFICES ASSUME NEW d \in DOMAIN thread, Threaded!Counted(d)', ~thread'[d].void,
                       thread'[d].at > tnow - threadedWindowMs
                PROVE  /\ thread'[d].key \in DOMAIN deques'
                       /\ Holds(deques'[thread'[d].key], [call |-> d, at |-> thread'[d].at])
    BY <1>1, <1>2 DEF ThreadedKept, Holds
  <2>1. Threaded!Counted(d)
    BY <1>2 DEF Threaded!Counted
  <2>2. /\ ~thread[d].void /\ thread'[d].at = thread[d].at /\ thread'[d].key = thread[d].key
        /\ thread[d].key # k
    BY <1>2, <2>1
  <2>3. thread[d].key \in DOMAIN deques /\ Holds(deques[thread[d].key], [call |-> d, at |-> thread[d].at])
    BY <2>1, <2>2 DEF ThreadedIInv, ThreadedKept
  <2>. QED  BY <1>1, <2>2, <2>3 DEF Threaded!Drop
<1>. QED  BY <1>3, <1>4, <1>5 DEF ThreadedIInv

\* The collector slides with a clock it read before it had the lock.
LEMMA CleanupKeeps ==
  ASSUME Threaded!ThreadedAssumption, ThreadedIInv, Threaded!Cleanup
  PROVE  ThreadedIInv'
<1> DEFINE left(j) == Threaded!Slide(deques[j], sweep - threadedWindowMs)
<1>1. /\ sweep # NoTime /\ sweep' = NoTime /\ UNCHANGED <<tnow, thread>>
      /\ deques' = [k \in {j \in DOMAIN deques : left(j) # <<>>} |-> left(k)]
      /\ tblocked' = [k \in {j \in DOMAIN tblocked : sweep < tblocked[j]} |-> tblocked[k]]
  BY DEF Threaded!Cleanup
<1>2. sweep \in Nat /\ sweep <= tnow /\ sweep - threadedWindowMs \in Int /\ tnow \in Nat
  BY <1>1, ThreadedSettings DEF ThreadedIInv, Threaded!TypeOK, Clocks
<1>3. ASSUME NEW j \in DOMAIN deques
      PROVE  /\ left(j) \in Seq(Threaded!Stamp)
             /\ \A i \in DOMAIN deques[j] : deques[j][i].at > sweep - threadedWindowMs
                  => Holds(left(j), deques[j][i])
  <2>1. deques[j] \in Seq(Threaded!Stamp)
    BY DEF ThreadedIInv, Threaded!TypeOK
  <2>. QED  BY <1>2, <2>1, SlideKeeps DEF Holds
<1>. HIDE DEF left
<1>4. Threaded!TypeOK'
  BY <1>1, <1>3 DEF ThreadedIInv, Threaded!TypeOK
<1>5. Clocks'
  BY <1>1, ThreadedSettings DEF ThreadedIInv, Clocks, Threaded!Counted
<1>6. ThreadedKept'
  <2>. SUFFICES ASSUME NEW d \in DOMAIN thread, Threaded!Counted(d), ~thread[d].void,
                       thread[d].at > tnow - threadedWindowMs
                PROVE  /\ thread[d].key \in DOMAIN deques'
                       /\ Holds(deques'[thread[d].key], [call |-> d, at |-> thread[d].at])
    BY <1>1 DEF ThreadedKept, Holds, Threaded!Counted
  <2> DEFINE k == thread[d].key
             s == [call |-> d, at |-> thread[d].at]
  <2>1. k \in DOMAIN deques /\ Holds(deques[k], s)
    BY DEF ThreadedIInv, ThreadedKept
  <2>2. PICK i \in DOMAIN deques[k] : deques[k][i] = s
    BY <2>1 DEF Holds
  <2>3. thread[d].at > sweep - threadedWindowMs
    BY <1>2, ThreadedTyped, ThreadedSettings
  <2>4. Holds(left(k), s)
    BY <1>3, <2>1, <2>2, <2>3
  <2>5. left(k) # <<>>
    BY <2>4 DEF Holds
  <2>. QED  BY <1>1, <2>1, <2>4, <2>5
<1>. QED  BY <1>4, <1>5, <1>6 DEF ThreadedIInv

LEMMA OtherKeeps ==
  ASSUME Threaded!ThreadedAssumption, ThreadedIInv,
         \/ \E k \in Keys, ms \in ThreadedOperatorMs : Threaded!BlockIP(k, ms)
         \/ Threaded!CleanupRead \/ Threaded!Tick \/ UNCHANGED Threaded!vars
  PROVE  ThreadedIInv'
<1>1. UNCHANGED <<deques, thread>>
  BY DEF Threaded!BlockIP, Threaded!CleanupRead, Threaded!Tick, Threaded!vars
<1>2. /\ tnow' \in Nat /\ tnow' >= tnow
      /\ sweep' \in Nat \cup {NoTime} /\ (sweep' \in Nat => sweep' <= tnow')
  BY ThreadedTyped, ThreadedSettings
     DEF Threaded!BlockIP, Threaded!CleanupRead, Threaded!Tick, Threaded!vars, ThreadedIInv,
        Threaded!TypeOK, Clocks
<1>3. BlockedOK'
  <2>1. CASE tblocked' = tblocked
    BY <2>1, BlockedType DEF BlockedOK
  <2>2. ASSUME NEW k \in Keys, NEW ms \in ThreadedOperatorMs, Threaded!BlockIP(k, ms)
        PROVE  BlockedOK'
    <3>1. tnow + ms \in Nat /\ tblocked' = Threaded!Put(tblocked, k, tnow + ms)
      BY <2>2, ThreadedSettings, ThreadedTyped DEF Threaded!BlockIP
    <3>. QED  BY <3>1, BlockedType DEF BlockedOK, Threaded!Put
  <2>. QED  BY <2>1, <2>2 DEF Threaded!CleanupRead, Threaded!Tick, Threaded!vars
<1>4. Threaded!TypeOK'
  BY <1>1, <1>2, <1>3 DEF ThreadedIInv, Threaded!TypeOK, BlockedOK
<1>5. Clocks'
  BY <1>1, <1>2, ThreadedTyped DEF ThreadedIInv, Clocks, Threaded!Counted
<1>6. ThreadedKept'
  <2>1. \A d \in DOMAIN thread : thread[d].at > tnow' - threadedWindowMs => thread[d].at > tnow - threadedWindowMs
    BY <1>2, ThreadedTyped, ThreadedSettings
  <2>. QED  BY <1>1, <2>1 DEF ThreadedIInv, ThreadedKept, Holds, Threaded!Counted
<1>. QED  BY <1>4, <1>5, <1>6 DEF ThreadedIInv

LEMMA ThreadedIInvNext == Threaded!ThreadedAssumption /\ ThreadedIInv /\ [Threaded!Next]_(Threaded!vars) => ThreadedIInv'
BY LookKeeps, ErasedKeeps, ReadKeeps, AnswerKeeps, BeginKeeps, CountKeeps, UnblockKeeps,
   CleanupKeeps, OtherKeeps
   DEF Threaded!Next

LEMMA ThreadedInvariant == ASSUME Threaded!ThreadedAssumption PROVE Threaded!Spec => []ThreadedIInv
<1>1. Threaded!Init => ThreadedIInv
  BY ThreadedIInvInit
<1>2. ThreadedIInv /\ [Threaded!Next]_(Threaded!vars) => ThreadedIInv'
  BY ThreadedIInvNext
<1>. QED  BY <1>1, <1>2, PTL DEF Threaded!Spec

\* The stamp of a counted call stays for a whole window unless its key is wiped
\* or evicted, for any number of threads, whatever clocks they bring.
LEMMA NativeWindowKept == ASSUME Threaded!ThreadedAssumption PROVE Threaded!Spec => []Threaded!StampsKept
<1>1. Threaded!Spec => []ThreadedIInv
  BY ThreadedInvariant
<1>. QED  BY <1>1, ThreadedIInvKeeps, PTL

-----------------------------------------------------------------------------
(* Blocks.                                                                 *)

\* A block in force is lifted or shortened only by the operator, by eviction, by
\* a call counted before a longer block, or by a thread that saw an earlier block
\* of the key expire; the collector, with its old clock, lifts none.
LEMMA NativeBlocksStand == ASSUME Threaded!ThreadedAssumption PROVE Threaded!Spec => Threaded!BlockLiftedOnlyBy
<1> DEFINE Lifted(k) == /\ Threaded!Blocked(k) /\ tnow' = tnow
                        /\ k \notin DOMAIN tblocked' \/ tblocked'[k] < tblocked[k]
           By(k) == \/ Threaded!UnblockIP(k) \/ \E ms \in ThreadedOperatorMs : Threaded!BlockIP(k, ms)
                    \/ \E c \in Calls : Threaded!Count(c) /\ Threaded!Full
                    \/ \E c \in Calls : Threaded!Limit(c) /\ thread[c].key = k
                    \/ \E c \in Calls : /\ Threaded!EraseExpired(c) /\ thread[c].key = k
                                        /\ thread[c].saw <= tnow /\ thread[c].saw < tblocked[k]
<1>1. ASSUME ThreadedIInv, [Threaded!Next]_(Threaded!vars), NEW k \in Keys, Lifted(k)
      PROVE  By(k)
  <2>1. /\ k \in DOMAIN tblocked /\ tnow < tblocked[k] /\ tnow \in Nat /\ tblocked[k] \in Nat
    BY <1>1, ThreadedTyped, BlockedType DEF Threaded!Blocked, BlockedOK
  <2>2. ~(k \in DOMAIN tblocked' /\ tblocked'[k] = tblocked[k])
    BY <1>1, <2>1
  <2>3. ASSUME NEW c \in Calls, Threaded!EraseExpired(c)
        PROVE  By(k)
    <3>1. /\ c \in DOMAIN thread /\ thread[c].pc = "erase" /\ tblocked' = Threaded!Drop(tblocked, {thread[c].key})
      BY <2>3 DEF Threaded!EraseExpired, Threaded!At
    <3>2. thread[c].key = k
      BY <2>1, <2>2, <3>1 DEF Threaded!Drop
    <3>3. thread[c].saw <= thread[c].at /\ thread[c].at <= tnow
      BY <1>1, <3>1 DEF ThreadedIInv, Clocks
    <3>4. thread[c].saw <= tnow /\ thread[c].saw < tblocked[k]
      BY <1>1, <2>1, <3>1, <3>3, ThreadedTyped
    <3>. QED  BY <2>3, <3>2, <3>4
  <2>4. ASSUME NEW c \in Calls, Threaded!Count(c)
        PROVE  By(k)
    <3>1. Threaded!Full
      BY <1>1, <2>1, <2>2, <2>4, CountTakes DEF ThreadedIInv
    <3>. QED  BY <2>4, <3>1
  <2>5. ASSUME NEW c \in Calls, Threaded!Limit(c)
        PROVE  By(k)
    <3>1. tblocked' = Threaded!Put(tblocked, thread[c].key, tnow + threadedBlockDuration)
      BY <2>5 DEF Threaded!Limit
    <3>2. thread[c].key = k
      BY <2>1, <2>2, <3>1 DEF Threaded!Put
    <3>. QED  BY <2>5, <3>2
  <2>6. ASSUME NEW j \in Keys, Threaded!UnblockIP(j)
        PROVE  By(k)
    <3>1. j = k
      BY <2>1, <2>2, <2>6 DEF Threaded!UnblockIP, Threaded!Drop
    <3>. QED  BY <2>6, <3>1
  <2>7. ASSUME NEW j \in Keys, NEW ms \in ThreadedOperatorMs, Threaded!BlockIP(j, ms)
        PROVE  By(k)
    <3>1. j = k
      BY <2>1, <2>2, <2>7 DEF Threaded!BlockIP, Threaded!Put
    <3>. QED  BY <2>7, <3>1
  <2>8. ~Threaded!Cleanup
    <3>. SUFFICES ASSUME Threaded!Cleanup PROVE FALSE
      OBVIOUS
    <3>1. /\ tblocked' = [j \in {i \in DOMAIN tblocked : sweep < tblocked[i]} |-> tblocked[j]]
          /\ sweep # NoTime
      BY DEF Threaded!Cleanup
    <3>2. sweep < tblocked[k]
      BY <1>1, <2>1, <3>1 DEF ThreadedIInv, Threaded!TypeOK, Clocks
    <3>. QED  BY <2>1, <2>2, <3>1, <3>2
  <2>9. tblocked' # tblocked
    BY <2>1, <2>2
  <2>. QED
    BY <1>1, <2>3, <2>4, <2>5, <2>6, <2>7, <2>8, <2>9
    DEF Threaded!Next, Threaded!vars, Threaded!Begin, Threaded!Look, Threaded!ReadClock,
       Threaded!Pass, Threaded!CleanupRead, Threaded!Tick
<1>2. ThreadedIInv /\ [Threaded!Next]_(Threaded!vars) => [\A k \in Keys : Lifted(k) => By(k)]_(Threaded!vars)
  BY <1>1
<1>3. Threaded!Spec => []ThreadedIInv
  BY ThreadedInvariant
<1>. QED  BY <1>2, <1>3, PTL DEF Threaded!Spec, Threaded!BlockLiftedOnlyBy

-----------------------------------------------------------------------------
(* The threaded limiter implements the sliding window.                     *)

\* Cardinality, as the instance sees it.
LEMMA ThreadedSameCardinality == \A S : Threaded!Window!Cardinality(S) = Cardinality(S)
BY DEF Threaded!Window!Cardinality, Cardinality

\* What is admitted depends on what is known of the counted calls.
LEMMA ThreadedForgetRefines ==
  ASSUME NEW S,
         \A q \in Calls : Threaded!IsAdmitted(q)' <=> Threaded!IsAdmitted(q) /\ thread[q].key \notin S,
         \A q \in Calls : Threaded!IsAdmitted(q)' =>
           thread'[q].key = thread[q].key /\ thread'[q].at = thread[q].at
  PROVE  Threaded!Admitted' = {a \in Threaded!Admitted : a.key \notin S}
BY DEF Threaded!Admitted

LEMMA ThreadedSameAdmitted ==
  ASSUME \A q \in Calls : Threaded!IsAdmitted(q)' <=> Threaded!IsAdmitted(q),
         \A q \in Calls : Threaded!IsAdmitted(q)' =>
           thread'[q].key = thread[q].key /\ thread'[q].at = thread[q].at
  PROVE  Threaded!Admitted' = Threaded!Admitted
BY DEF Threaded!Admitted

\* The admissions a count finds in the window each have a stamp in the deque it
\* slides.
LEMMA FewAdmitted ==
  ASSUME Threaded!ThreadedAssumption, ThreadedIInv, NEW c \in Calls, NEW S, NEW old, Taken(c, S, old)
  PROVE  LET W == {a \in Threaded!Window!Within(thread[c].key) : a.key \notin S}
         IN  /\ IsFiniteSet(W) /\ Cardinality(W) \in Nat
             /\ Cardinality(W) <= Len(old) /\ Len(old) \in Nat
<1> DEFINE k  == thread[c].key
           at == thread[c].at
           W  == {a \in Threaded!Window!Within(k) : a.key \notin S}
           place == [a \in W |-> CHOOSE i \in DOMAIN old : old[i].call = a.req]
<1>1. /\ c \in DOMAIN thread /\ k \in Keys /\ at \in Nat /\ at <= tnow /\ tnow \in Nat
      /\ old \in Seq(Threaded!Stamp)
  BY ThreadedTyped DEF Taken, ThreadedIInv, Clocks
<1>2. Len(old) \in Nat /\ DOMAIN old = 1 .. Len(old)
  BY <1>1, LenProperties
<1>3. IsFiniteSet(DOMAIN old) /\ Cardinality(DOMAIN old) = Len(old)
  <2>1. ASSUME NEW n \in Nat PROVE IsFiniteSet(1 .. n) /\ Cardinality(1 .. n) = n
    <3>1. 1 \in Int /\ n \in Int /\ (IF 1 > n THEN 0 ELSE n - 1 + 1) = n
      OBVIOUS
    <3>. QED  BY <3>1, FS_Interval
  <2>. QED  BY <1>2, <2>1
<1>4. ASSUME NEW a \in W
      PROVE  /\ a = [req |-> a.req, key |-> thread[a.req].key, at |-> thread[a.req].at]
             /\ \E i \in DOMAIN old : old[i].call = a.req
  <2>1. a \in Threaded!Admitted /\ a.key = k /\ a.at > tnow - threadedWindowMs /\ a.key \notin S
    BY DEF Threaded!Window!Within
  <2>2. PICK q \in Calls :
          Threaded!IsAdmitted(q) /\ a = [req |-> q, key |-> thread[q].key, at |-> thread[q].at]
    BY <2>1 DEF Threaded!Admitted
  <2>3. /\ Threaded!Counted(q) /\ ~thread[q].void /\ q \in DOMAIN thread /\ thread[q].key = k
        /\ thread[q].at > tnow - threadedWindowMs /\ k \notin S
    BY <2>1, <2>2 DEF Threaded!IsAdmitted, Threaded!Counted
  <2>4. k \in DOMAIN deques /\ Holds(deques[k], [call |-> q, at |-> thread[q].at])
    BY <2>3 DEF ThreadedIInv, ThreadedKept
  <2>5. PICK i \in DOMAIN deques[k] : deques[k][i] = [call |-> q, at |-> thread[q].at]
    BY <2>4 DEF Holds
  <2>6. thread[q].at > at - threadedWindowMs
    BY <1>1, <2>3, ThreadedTyped, ThreadedSettings
  <2>7. \E j \in DOMAIN old : old[j] = [call |-> q, at |-> thread[q].at]
    BY <2>3, <2>4, <2>5, <2>6 DEF Taken
  <2>. QED  BY <2>2, <2>7
<1>5. place \in Injection(W, DOMAIN old)
  <2>1. ASSUME NEW a \in W PROVE place[a] \in DOMAIN old /\ old[place[a]].call = a.req
    BY <1>4
  <2>2. ASSUME NEW a \in W, NEW b \in W, place[a] = place[b] PROVE a = b
    <3>1. a.req = b.req
      BY <2>1, <2>2
    <3>. QED  BY <1>4, <3>1
  <2>3. place \in [W -> DOMAIN old]
    BY <2>1
  <2>. QED  BY <2>2, <2>3 DEF Injection, IsInjective
<1>. HIDE DEF place, W
<1>6. IsFiniteSet(W) /\ Cardinality(W) <= Len(old)
  BY <1>3, <1>5, FS_Injection
<1>. QED  BY <1>2, <1>6, FS_CardinalityType DEF W

\* A count below the limit is an admission, with room in the window it finds; a
\* count over it forgets at most the key that was evicted.
LEMMA CountRefines ==
  ASSUME Threaded!ThreadedAssumption, ThreadedIInv, NEW c \in Calls, Threaded!Count(c)
  PROVE  Threaded!Window!Next \/ UNCHANGED Threaded!Window!wvars
<1>1. PICK S, old : Taken(c, S, old)
  BY CountTakes DEF ThreadedIInv
<1>. PICK k, at : k = thread[c].key /\ at = thread[c].at
  OBVIOUS
<1> DEFINE new == [req |-> c, key |-> k, at |-> at]
           W   == {a \in Threaded!Window!Within(k) : a.key \notin S}
<1>2. /\ c \in DOMAIN thread /\ k \in Keys /\ at \in Nat /\ at <= tnow /\ tnow \in Nat
      /\ thread[c].pc = "count" /\ ~Threaded!Counted(c) /\ ~thread[c].void /\ tnow' = tnow
      /\ thread'[c].pc = "counted" /\ thread'[c].key = k /\ thread'[c].at = at
      /\ thread'[c].count = Len(old) + 1 /\ ~thread'[c].void /\ DOMAIN thread' = DOMAIN thread
      /\ \A d \in DOMAIN thread : d # c =>
           /\ thread'[d].pc = thread[d].pc /\ thread'[d].key = thread[d].key
           /\ thread'[d].at = thread[d].at /\ thread'[d].count = thread[d].count
           /\ thread'[d].void = (thread[d].void \/ (thread[d].key \in S /\ Threaded!Counted(d)))
  BY <1>1, ThreadedTyped DEF Taken, ThreadedIInv, Clocks, Threaded!Counted
<1>3. ASSUME NEW q \in Calls, q # c
      PROVE  /\ Threaded!IsAdmitted(q)' <=> Threaded!IsAdmitted(q) /\ thread[q].key \notin S
             /\ Threaded!IsAdmitted(q)' => thread'[q].key = thread[q].key /\ thread'[q].at = thread[q].at
  BY <1>2, <1>3 DEF Threaded!IsAdmitted, Threaded!Counted
<1>4. ~Threaded!IsAdmitted(c) /\ (Threaded!IsAdmitted(c)' <=> Len(old) + 1 <= threadedMax)
  BY <1>2 DEF Threaded!IsAdmitted
<1>5. /\ IsFiniteSet(W) /\ Cardinality(W) \in Nat
      /\ Cardinality(W) <= Len(old) /\ Len(old) \in Nat
  BY <1>1, FewAdmitted
<1>6. \A a \in Threaded!Admitted : a.req # c
  BY <1>4 DEF Threaded!Admitted
<1>7. CASE Len(old) + 1 <= threadedMax
  <2>1. Threaded!Admitted' = {a \in Threaded!Admitted : a.key \notin S} \cup {new}
    BY <1>2, <1>3, <1>4, <1>7 DEF Threaded!Admitted
  <2>2. Cardinality(W) < threadedMax /\ at \in 0 .. tnow
    BY <1>2, <1>5, <1>7, ThreadedSettings
  <2>3. CASE S = {}
    <3>1. W = Threaded!Window!Within(k) /\ Threaded!Admitted' = Threaded!Admitted \cup {new}
      BY <2>1, <2>3
    <3>2. Threaded!Window!Admit(c, k, at)
      BY <1>2, <1>6, <2>2, <3>1, ThreadedSameCardinality DEF Threaded!Window!Admit
    <3>. QED  BY <1>2, <2>2, <3>2 DEF Threaded!Window!Next
  <2>4. ASSUME NEW j \in DOMAIN deques, S = {j}
        PROVE  Threaded!Window!Next
    <3>1. Threaded!Admitted' = {a \in Threaded!Admitted : a.key # j} \cup {new}
      BY <2>1, <2>4
    <3>2. W = Threaded!Window!Within(k) \cap {a \in Threaded!Admitted : a.key # j}
      BY <2>4 DEF Threaded!Window!Within
    <3>3. Threaded!Window!AdmitEvicting(c, k, at, j)
      BY <1>2, <1>6, <2>2, <3>1, <3>2, ThreadedSameCardinality DEF Threaded!Window!AdmitEvicting
    <3>4. j \in Keys
      BY DEF ThreadedIInv, Threaded!TypeOK
    <3>. QED  BY <1>2, <2>2, <3>3, <3>4 DEF Threaded!Window!Next
  <2>. QED  BY <1>1, <2>3, <2>4 DEF Taken
<1>8. CASE ~(Len(old) + 1 <= threadedMax)
  <2>1. Threaded!Admitted' = {a \in Threaded!Admitted : a.key \notin S}
    <3>1. \A q \in Calls : Threaded!IsAdmitted(q)' <=> Threaded!IsAdmitted(q) /\ thread[q].key \notin S
      BY <1>3, <1>4, <1>8
    <3>2. \A q \in Calls : Threaded!IsAdmitted(q)' =>
            thread'[q].key = thread[q].key /\ thread'[q].at = thread[q].at
      BY <1>3, <1>4, <1>8
    <3>. QED  BY <3>1, <3>2, ThreadedForgetRefines
  <2>2. CASE S = {}
    <3>1. Threaded!Admitted' = Threaded!Admitted
      BY <2>1, <2>2
    <3>. QED  BY <1>2, <3>1 DEF Threaded!Window!wvars
  <2>3. ASSUME NEW j \in DOMAIN deques, S = {j}
        PROVE  Threaded!Window!Next
    <3>1. j \in Keys /\ Threaded!Admitted' = {a \in Threaded!Admitted : a.key # j}
      BY <2>1, <2>3 DEF ThreadedIInv, Threaded!TypeOK
    <3>. QED  BY <1>2, <3>1 DEF Threaded!Window!Next, Threaded!Window!Forgive
  <2>. QED  BY <1>1, <2>2, <2>3 DEF Taken
<1>. QED  BY <1>7, <1>8

\* Every other step of a call leaves the admissions as they are.
LEMMA CallRefines ==
  ASSUME Threaded!ThreadedAssumption, ThreadedIInv, NEW c \in Calls,
         Threaded!Look(c) \/ Threaded!EraseExpired(c) \/ Threaded!ReadClock(c) \/ Threaded!Pass(c) \/ Threaded!Limit(c)
  PROVE  UNCHANGED Threaded!Window!wvars
<1>1. /\ c \in DOMAIN thread /\ thread[c] \in Threaded!Thread /\ thread[c].count \in Nat /\ tnow' = tnow
      /\ CallsOK
  BY ThreadedTyped
     DEF Threaded!Look, Threaded!EraseExpired, Threaded!ReadClock, Threaded!Pass,
        Threaded!Limit, Threaded!At
<1>2. /\ DOMAIN thread' = DOMAIN thread /\ \A d \in DOMAIN thread : d # c => thread'[d] = thread[d]
  BY DEF Threaded!Look, Threaded!EraseExpired, Threaded!ReadClock, Threaded!Pass,
     Threaded!Limit, Threaded!Goto
<1>3. /\ Threaded!IsAdmitted(c)' <=> Threaded!IsAdmitted(c)
      /\ Threaded!IsAdmitted(c)' => thread'[c].key = thread[c].key /\ thread'[c].at = thread[c].at
  <2>1. CASE Threaded!Look(c) \/ Threaded!EraseExpired(c) \/ Threaded!ReadClock(c)
    <3>1. thread[c].pc \in {"look", "erase", "clock"}
      BY <2>1 DEF Threaded!Look, Threaded!EraseExpired, Threaded!ReadClock, Threaded!At
    <3>2. thread'[c].pc \in {"clock", "refused", "erase", "count"}
      <4>1. CASE Threaded!Look(c)
        <5>1. CASE Threaded!Goto(c, "clock") \/ Threaded!Goto(c, "refused")
          BY <1>1, <5>1, GoneTo
        <5>2. CASE thread' = [thread EXCEPT ![c].pc = "erase", ![c].saw = tblocked[thread[c].key]]
          <6> DEFINE b == tblocked[thread[c].key]
                     q == [[thread[c] EXCEPT !.pc = "erase"] EXCEPT !.saw = b]
          <6>1. thread' = [thread EXCEPT ![c] = q]
            BY <5>2
          <6>2. q.pc = "erase"
            <7>. HIDE DEF b
            <7>. QED  BY <1>1 DEF Threaded!Thread
          <6>. HIDE DEF q
          <6>. QED  BY <1>1, <6>1, <6>2
        <5>. QED  BY <4>1, <5>1, <5>2 DEF Threaded!Look
      <4>2. CASE Threaded!EraseExpired(c)
        BY <1>1, <4>2, GoneTo DEF Threaded!EraseExpired
      <4>3. CASE Threaded!ReadClock(c)
        <5> DEFINE q == [[thread[c] EXCEPT !.pc = "count"] EXCEPT !.at = tnow]
        <5>1. thread' = [thread EXCEPT ![c] = q] /\ q.pc = "count"
          BY <1>1, <4>3 DEF Threaded!ReadClock, Threaded!Thread
        <5>. HIDE DEF q
        <5>. QED  BY <1>1, <5>1
      <4>. QED  BY <2>1, <4>1, <4>2, <4>3
    <3>. QED  BY <3>1, <3>2 DEF Threaded!IsAdmitted
  <2>2. CASE Threaded!Pass(c)
    <3>1. /\ thread[c].pc = "counted" /\ thread[c].count <= threadedMax
          /\ thread'[c].pc = "passed" /\ thread'[c].key = thread[c].key /\ thread'[c].at = thread[c].at
          /\ thread'[c].void = thread[c].void
      BY <1>1, <2>2, GoneTo DEF Threaded!Pass, Threaded!At, Moves
    <3>. QED  BY <1>1, <1>2, <3>1 DEF Threaded!IsAdmitted
  <2>3. CASE Threaded!Limit(c)
    <3>1. thread[c].pc = "counted" /\ thread[c].count > threadedMax /\ thread'[c].pc = "limited"
      BY <1>1, <2>3, GoneTo DEF Threaded!Limit, Threaded!At
    <3>2. ~(thread[c].count <= threadedMax)
      BY <1>1, <3>1, ThreadedSettings
    <3>. QED  BY <3>1, <3>2 DEF Threaded!IsAdmitted
  <2>. QED  BY <2>1, <2>2, <2>3
<1>4. ASSUME NEW q \in Calls
      PROVE  /\ Threaded!IsAdmitted(q)' <=> Threaded!IsAdmitted(q)
             /\ Threaded!IsAdmitted(q)' => thread'[q].key = thread[q].key /\ thread'[q].at = thread[q].at
  <2>1. CASE q = c
    BY <1>3, <2>1
  <2>2. CASE q # c
    BY <1>2, <2>2 DEF Threaded!IsAdmitted
  <2>. QED  BY <2>1, <2>2
<1>5. Threaded!Admitted' = Threaded!Admitted
  BY <1>4, ThreadedSameAdmitted
<1>. QED  BY <1>1, <1>5 DEF Threaded!Window!wvars

LEMMA ThreadedStepRefines ==
  Threaded!ThreadedAssumption /\ ThreadedIInv /\ [Threaded!Next]_(Threaded!vars) => [Threaded!Window!Next]_(Threaded!Window!wvars)
<1>. SUFFICES ASSUME Threaded!ThreadedAssumption, ThreadedIInv, [Threaded!Next]_(Threaded!vars)
              PROVE  Threaded!Window!Next \/ UNCHANGED Threaded!Window!wvars
  OBVIOUS
<1>1. ASSUME NEW c \in Calls, NEW k \in Keys, Threaded!Begin(c, k)
      PROVE  UNCHANGED Threaded!Window!wvars
  <2>1. /\ c \notin DOMAIN thread /\ DOMAIN thread' = DOMAIN thread \cup {c} /\ tnow' = tnow
        /\ thread'[c].pc = "look" /\ \A d \in DOMAIN thread : thread'[d] = thread[d]
    BY <1>1 DEF Threaded!Begin, Threaded!Put
  <2>2. ASSUME NEW q \in Calls
        PROVE  /\ Threaded!IsAdmitted(q)' <=> Threaded!IsAdmitted(q)
               /\ Threaded!IsAdmitted(q)' => thread'[q].key = thread[q].key /\ thread'[q].at = thread[q].at
    BY <2>1 DEF Threaded!IsAdmitted
  <2>3. Threaded!Admitted' = Threaded!Admitted
    BY <2>2, ThreadedSameAdmitted
  <2>. QED  BY <2>1, <2>3 DEF Threaded!Window!wvars
<1>2. ASSUME NEW k \in Keys, Threaded!UnblockIP(k)
      PROVE  Threaded!Window!Next
  <2>1. thread' = Threaded!Void({k}) /\ tnow' = tnow
    BY <1>2 DEF Threaded!UnblockIP
  <2>2. /\ DOMAIN thread' = DOMAIN thread
        /\ \A d \in DOMAIN thread :
             /\ thread'[d].pc = thread[d].pc /\ thread'[d].key = thread[d].key
             /\ thread'[d].at = thread[d].at /\ thread'[d].count = thread[d].count
             /\ thread'[d].void = (thread[d].void \/ (thread[d].key \in {k} /\ Threaded!Counted(d)))
    BY <2>1, VoidCalls, ThreadedTyped
  <2>3. ASSUME NEW q \in Calls
        PROVE  /\ Threaded!IsAdmitted(q)' <=> Threaded!IsAdmitted(q) /\ thread[q].key \notin {k}
               /\ Threaded!IsAdmitted(q)' => thread'[q].key = thread[q].key /\ thread'[q].at = thread[q].at
    BY <2>2 DEF Threaded!IsAdmitted, Threaded!Counted
  <2>4. Threaded!Admitted' = {a \in Threaded!Admitted : a.key \notin {k}}
    BY <2>3, ThreadedForgetRefines
  <2>5. Threaded!Admitted' = {a \in Threaded!Admitted : a.key # k}
    BY <2>4
  <2>. QED  BY <2>1, <2>5 DEF Threaded!Window!Next, Threaded!Window!Forgive
<1>3. ASSUME thread' = thread, tnow' = tnow \/ tnow' = tnow + 1
      PROVE  Threaded!Window!Next \/ UNCHANGED Threaded!Window!wvars
  <2>1. Threaded!Admitted' = Threaded!Admitted
    BY <1>3, ThreadedSameAdmitted DEF Threaded!IsAdmitted
  <2>. QED  BY <1>3, <2>1 DEF Threaded!Window!wvars, Threaded!Window!Next, Threaded!Window!Tick
<1>4. \/ \E k \in Keys, ms \in ThreadedOperatorMs : Threaded!BlockIP(k, ms)
      \/ Threaded!CleanupRead \/ Threaded!Cleanup \/ Threaded!Tick \/ UNCHANGED Threaded!vars
      => thread' = thread /\ (tnow' = tnow \/ tnow' = tnow + 1)
  BY DEF Threaded!BlockIP, Threaded!CleanupRead, Threaded!Cleanup, Threaded!Tick, Threaded!vars
<1>. QED  BY <1>1, <1>2, <1>3, <1>4, CountRefines, CallRefines DEF Threaded!Next

\* The native limiter implements the sliding window: clocks read before the lock,
\* stamps out of order, evictions and the collector never admit a call the window
\* would refuse.
LEMMA NativeImplements == ASSUME Threaded!ThreadedAssumption PROVE Threaded!Spec => Threaded!ThreadedImplements
<1>1. Threaded!Init => Threaded!Window!Init
  BY DEF Threaded!Init, Threaded!Window!Init, Threaded!Admitted, Threaded!IsAdmitted,
     Threaded!Empty
<1>2. Threaded!Spec => []ThreadedIInv
  BY ThreadedInvariant
<1>3. ThreadedIInv /\ [Threaded!Next]_(Threaded!vars) => [Threaded!Window!Next]_(Threaded!Window!wvars)
  BY ThreadedStepRefines
<1>. QED  BY <1>1, <1>2, <1>3, PTL
   DEF Threaded!Spec, Threaded!Window!Spec, Threaded!ThreadedImplements

-----------------------------------------------------------------------------
(* Both together, as they are run.                                         *)

LEMMA TogetherStep ==
  [LimiterNext \/ ThreadedNext]_bothVars => [Next]_vars /\ [Threaded!Next]_(Threaded!vars)
<1>1. LimiterNext => Next /\ UNCHANGED OfThreaded
  BY DEF LimiterNext, InLimiter, Next
<1>2. ThreadedNext => Threaded!Next /\ UNCHANGED vars
  BY DEF ThreadedNext, InThreaded, Threaded!Next
<1>3. UNCHANGED bothVars => UNCHANGED vars /\ UNCHANGED OfThreaded
  BY DEF bothVars
<1>4. UNCHANGED OfThreaded => UNCHANGED Threaded!vars
  BY DEF OfThreaded, Threaded!vars
<1>. QED  BY <1>1, <1>2, <1>3, <1>4

\* A behaviour of the two is one of each.
LEMMA Together == BothSpec => Spec /\ Threaded!Spec
<1>1. BothInit => Init /\ Threaded!Init
  BY DEF BothInit
<1>. QED  BY <1>1, TogetherStep, PTL DEF BothSpec, Spec, Threaded!Spec

\* The stamp of a call the native limiter counted stays for a whole window, unless its
\* key is wiped or evicted, for any number of threads, whatever clocks they bring.
THEOREM WindowIsKept == BothSpec => []StampsKept
<1>1. Threaded!Spec => []Threaded!StampsKept
  BY NativeWindowKept, NativeAssumption
<1>. QED  BY <1>1, Together, PTL DEF StampsKept

\* Neither limiter lifts or shortens a block in force: of the first only the operator
\* and eviction do; of the second, besides, a thread that saw an earlier block of the
\* key expire, or counted before the operator imposed a longer one.
THEOREM BlocksStandInBoth == BothSpec => BlocksStand
<1>1. Threaded!Spec => Threaded!BlockLiftedOnlyBy
  BY NativeBlocksStand, NativeAssumption
<1>. QED  BY <1>1, Together, BlockStandsHolds, PTL DEF BlocksStand

\* Clocks read before the lock, stamps out of order, evictions and the collector never
\* make the native limiter admit a call that the sliding window would refuse.
THEOREM NativeWindowImplemented == BothSpec => ThreadedImplements
<1>1. Threaded!Spec => Threaded!ThreadedImplements
  BY NativeImplements, NativeAssumption
<1>. QED  BY <1>1, Together, PTL DEF ThreadedImplements
=============================================================================
