------------------------ MODULE DdosProtectionProofs ------------------------
(***************************************************************************)
(* What holds of DDoS protection for any number of addresses and requests. *)
(***************************************************************************)
EXTENDS DdosProtection, MapsProofs

-----------------------------------------------------------------------------
(* Type correctness, with the limits of the trackers: an evicted address   *)
(* leaves a place only as long as the trackers list what they hold.        *)

CallsOK == /\ DOMAIN request \subseteq Requests
           /\ \A r \in DOMAIN request : request[r] \in Call

ConnectionsOK(m) ==
  /\ Within(m, MaxTrackerSize) /\ DOMAIN m.of \subseteq IPs
  /\ \A ip \in DOMAIN m.of : m.of[ip] \subseteq Stamp

SlowlorisOK(m) ==
  /\ Within(m, MaxTrackerSize) /\ DOMAIN m.of \subseteq IPs
  /\ \A ip \in DOMAIN m.of : m.of[ip] \in Nat

TypeInv ==
  /\ now \in Nat
  /\ ConnectionsOK(connections) /\ SlowlorisOK(slowloris)
  /\ DOMAIN locks \subseteq IPs /\ \A ip \in DOMAIN locks : locks[ip] \in Requests
  /\ whitelist \subseteq IPs
  /\ queue \in Seq(Requests)
  /\ CallsOK

LEMMA TypeInvTypes == TypeInv => TrackerTypes
BY DEF TypeInv, TrackerTypes, TypeOK, TrackersBounded, ConnectionsOK, SlowlorisOK, CallsOK, Within, Ordered

\* Room is made before an address is added.
LEMMA Room ==
  ASSUME DdosAssumption, NEW m, Within(m, MaxTrackerSize), NEW ip
  PROVE  LET room == WithRoom(m, ip)
         IN  /\ Within(room, MaxTrackerSize)
             /\ MapHas(room, ip) \/ MapSize(room) < MaxTrackerSize
             /\ MapHas(m, ip) => room = m
             /\ DOMAIN room.of \subseteq DOMAIN m.of
             /\ \A j \in DOMAIN room.of : room.of[j] = m.of[j]
<1>1. MaxTrackerSize \in Nat \ {0}
  BY DEF DdosAssumption
<1>. QED  BY <1>1, RoomWithin, DeletedFirst DEF WithRoom

\* The tracker of an address, evicted or never known included.
Tracked(m, ip) == IF MapHas(m, ip) THEN m.of[ip] ELSE {}

\* What the collector leaves: of every tracker the recent stamps.
LEMMA SweptTracked ==
  ASSUME DdosAssumption, NEW m, ConnectionsOK(m), NEW t
  PROVE  /\ ConnectionsOK(Swept(m, t))
         /\ \A ip : Tracked(Swept(m, t), ip) = Recent(Tracked(m, ip), t)
<1> DEFINE gone == {ip \in DOMAIN m.of : Recent(m.of[ip], t) = {}}
           kept == MapDelete(m, gone)
           n    == Swept(m, t)
<1>1. n = [kept EXCEPT !.of = [ip \in DOMAIN kept.of |-> Recent(kept.of[ip], t)]]
  BY DEF Swept
<1>2. MaxTrackerSize \in Nat /\ Within(m, MaxTrackerSize)
  BY DEF DdosAssumption, ConnectionsOK
<1>3. Within(kept, MaxTrackerSize)
  BY <1>2, DeleteWithin
<1>4. /\ DOMAIN kept.of = DOMAIN m.of \ gone
      /\ \A j \in DOMAIN kept.of : kept.of[j] = m.of[j]
  <2>. HIDE DEF gone
  <2>. QED  BY DeletedKeys
<1>5. n.keys = kept.keys /\ n.of = [ip \in DOMAIN kept.of |-> Recent(kept.of[ip], t)]
  BY <1>1 DEF MapDelete
<1>. HIDE DEF n, kept
<1>6. Within(n, MaxTrackerSize)
  BY <1>3, <1>5, OrderedByKeys DEF Within
<1>7. \A j \in DOMAIN n.of : j \in DOMAIN m.of /\ n.of[j] = Recent(m.of[j], t)
  BY <1>4, <1>5
<1>8. ConnectionsOK(n)
  BY <1>6, <1>7 DEF ConnectionsOK, Recent
<1>9. ASSUME NEW ip PROVE Tracked(n, ip) = Recent(Tracked(m, ip), t)
  BY <1>4, <1>5, <1>7 DEF Tracked, MapHas, Recent
<1>. QED  BY <1>8, <1>9 DEF n

LEMMA TypeInit ==
  ASSUME DdosAssumption
  PROVE  Init => TypeInv
<1>1. MaxTrackerSize \in Nat
  BY DEF DdosAssumption
<1>2. Within(EmptyMap, MaxTrackerSize) /\ DOMAIN EmptyMap.of = {}
  BY <1>1, EmptyOrdered DEF Within, EmptyMap, Empty
<1>. QED  BY <1>2 DEF Init, TypeInv, ConnectionsOK, SlowlorisOK, CallsOK, Empty

\* A queue of requests, waiting ones of which go on.
LEMMA StartType ==
  ASSUME TypeInv, NEW r \in Requests, NEW ip \in IPs, NEW kind \in Kinds,
         IsFiniteSet(DOMAIN request), Start(r, ip, kind)
  PROVE  TypeInv'
<1> DEFINE lock == IF ip \in DOMAIN locks THEN locks[ip] ELSE NoLock
           call == [stage |-> "waiting", ip |-> ip, kind |-> kind, at |-> now, lock |-> lock,
                    turn |-> Cardinality(DOMAIN request), counted |-> 0, lost |-> FALSE,
                    flood |-> FALSE]
<1>1. lock \in Requests \cup {NoLock} /\ Cardinality(DOMAIN request) \in Nat /\ now \in Nat
  BY FS_CardinalityType DEF TypeInv
<1>2. call \in Call
  <2>. HIDE DEF lock
  <2>. QED  BY <1>1 DEF Call
<1>3. request' = Put(request, r, call)
  BY DEF Start
<1>. HIDE DEF call
<1>4. CallsOK'
  BY <1>2, <1>3 DEF TypeInv, CallsOK, Put
<1>5. queue' = Append(queue, r) \/ queue' = queue
  BY DEF Start
<1>6. queue' \in Seq(Requests)
  BY <1>5, AppendProperties DEF TypeInv
<1>7. /\ DOMAIN locks' \subseteq IPs /\ \A j \in DOMAIN locks' : locks'[j] \in Requests
      /\ UNCHANGED <<now, connections, slowloris, whitelist>>
  BY DEF Start, TypeInv, Put
<1>. QED  BY <1>4, <1>6, <1>7 DEF TypeInv

\* What stage r moves on to changes nothing else of it.
LEMMA SlowlorisType ==
  ASSUME DdosAssumption, TypeInv, NEW r \in Requests, CheckSlowloris(r)
  PROVE  /\ TypeInv'
         /\ r \in DOMAIN request /\ request[r].stage = "waiting"
         /\ DOMAIN request' = DOMAIN request
         /\ \A q \in DOMAIN request : q # r => request'[q] = request[q]
         /\ request'[r] = [request[r] EXCEPT !.stage = "returned"]
<1> DEFINE q    == request[r]
           room == WithRoom(slowloris, q.ip)
<1>1. r \in DOMAIN request /\ request[r].stage = "waiting"
  BY DEF CheckSlowloris, Stage
<1>2. request' = [request EXCEPT ![r].stage = "returned"]
  BY DEF CheckSlowloris
<1>3. /\ DOMAIN request' = DOMAIN request
      /\ \A p \in DOMAIN request : p # r => request'[p] = request[p]
      /\ request'[r] = [request[r] EXCEPT !.stage = "returned"]
  BY <1>1, <1>2
<1>4. request[r] \in Call /\ q.ip \in IPs /\ q.at \in Nat
  BY <1>1 DEF TypeInv, CallsOK, Call
<1>5. request'[r] \in Call
  BY <1>3, <1>4 DEF Call
<1>6. CallsOK'
  BY <1>3, <1>5 DEF TypeInv, CallsOK
<1>7. SlowlorisOK(slowloris')
  <2>1. /\ Within(room, MaxTrackerSize)
        /\ MapHas(room, q.ip) \/ MapSize(room) < MaxTrackerSize
        /\ DOMAIN room.of \subseteq DOMAIN slowloris.of
        /\ \A j \in DOMAIN room.of : room.of[j] = slowloris.of[j]
    BY Room DEF TypeInv, SlowlorisOK
  <2>2. slowloris' = room \/ slowloris' = MapSet(room, q.ip, q.at)
    BY DEF CheckSlowloris
  <2>. HIDE DEF room, q
  <2>3. SlowlorisOK(room)
    BY <2>1 DEF TypeInv, SlowlorisOK
  <2>4. MaxTrackerSize \in Nat
    BY DEF DdosAssumption
  <2>5. Within(MapSet(room, q.ip, q.at), MaxTrackerSize)
    BY <2>1, <2>4, SetWithin
  <2>6. /\ DOMAIN MapSet(room, q.ip, q.at).of = DOMAIN room.of \cup {q.ip}
        /\ MapSet(room, q.ip, q.at).of[q.ip] = q.at
        /\ \A j \in DOMAIN room.of : j # q.ip => MapSet(room, q.ip, q.at).of[j] = room.of[j]
    BY SetValue
  <2>7. SlowlorisOK(MapSet(room, q.ip, q.at))
    BY <1>4, <2>3, <2>5, <2>6 DEF SlowlorisOK
  <2>. QED  BY <2>2, <2>3, <2>7
<1>8. queue' \in Seq(Requests)
  <2>1. queue # <<>> /\ queue \in Seq(Requests)
    BY DEF CheckSlowloris, TypeInv
  <2>2. Woken(r) \in Seq(Requests)
    BY DEF Woken, TypeInv, CallsOK
  <2>3. Tail(queue) \in Seq(Requests) /\ <<r>> \in Seq(Requests)
    BY <2>1, HeadTailProperties
  <2>4. queue' = Tail(queue) \o Woken(r) \o <<r>>
    BY DEF CheckSlowloris
  <2>. QED  BY <2>2, <2>3, <2>4, ConcatProperties
<1>9. /\ DOMAIN locks' \subseteq IPs /\ \A j \in DOMAIN locks' : locks'[j] \in Requests
      /\ UNCHANGED <<now, connections, whitelist>>
  BY DEF CheckSlowloris, Released, TypeInv, Drop
<1>. QED  BY <1>1, <1>3, <1>6, <1>7, <1>8, <1>9 DEF TypeInv

\* A counted call's stamp is in, at the expense at most of another address, and
\* the calls of that one are lost.
LEMMA FloodType ==
  ASSUME DdosAssumption, TypeInv, NEW r \in Requests, CheckConnectionFlood(r)
  PROVE  LET ip   == request[r].ip
             room == WithRoom(connections, ip)
             out  == DOMAIN connections.of \ DOMAIN room.of
         IN  /\ TypeInv'
             /\ r \in DOMAIN request /\ request[r].stage = "returned"
             /\ DOMAIN request' = DOMAIN request
             /\ \A q \in DOMAIN request :
                  /\ request'[q].ip = request[q].ip /\ request'[q].turn = request[q].turn
                  /\ request'[q].lock = request[q].lock
                  /\ q # r => /\ request'[q].stage = request[q].stage
                             /\ request'[q].counted = request[q].counted
                             /\ request'[q].lost
                                  = (request[q].lost \/ (request[q].ip \in out /\ request[q].stage = "done"))
             /\ request'[r].stage = "done" /\ request'[r].counted = now
             /\ request'[r].lost = request[r].lost
             /\ ip \notin out
             /\ Tracked(connections', ip) = Recent(Tracked(connections, ip), now) \cup {[req |-> r, at |-> now]}
             /\ \A j : j # ip => Tracked(connections', j) = IF j \in out THEN {} ELSE Tracked(connections, j)
<1> DEFINE ip     == request[r].ip
           room   == WithRoom(connections, ip)
           out    == DOMAIN connections.of \ DOMAIN room.of
           old    == IF MapHas(room, ip) THEN room.of[ip] ELSE {}
           stamps == Recent(old, now) \cup {[req |-> r, at |-> now]}
           flood  == Cardinality(stamps) > MaxConnections
           lost(q) == request[q].lost \/ (request[q].ip \in out /\ request[q].stage = "done")
<1>1. r \in DOMAIN request /\ request[r].stage = "returned" /\ queue # <<>>
  BY DEF CheckConnectionFlood, Stage
<1>2. request[r] \in Call /\ ip \in IPs /\ now \in Nat /\ \A q \in DOMAIN request : request[q] \in Call
  BY <1>1 DEF TypeInv, CallsOK, Call
<1>3. request' = [Lost(out) EXCEPT ![r].stage = "done", ![r].counted = now, ![r].flood = flood]
  BY DEF CheckConnectionFlood
<1>4. connections' = MapSet(room, ip, stamps)
  BY DEF CheckConnectionFlood
<1>5. /\ Within(room, MaxTrackerSize)
      /\ MapHas(room, ip) \/ MapSize(room) < MaxTrackerSize
      /\ MapHas(connections, ip) => room = connections
      /\ DOMAIN room.of \subseteq DOMAIN connections.of
      /\ \A j \in DOMAIN room.of : room.of[j] = connections.of[j]
  BY Room DEF TypeInv, ConnectionsOK
<1>6. ip \notin out /\ old = Tracked(connections, ip)
  BY <1>5 DEF MapHas, Tracked
<1>7. flood \in BOOLEAN
  OBVIOUS
<1>. HIDE DEF out, room, old, flood
<1>8. Lost(out) = [q \in DOMAIN request |-> [request[q] EXCEPT !.lost = lost(q)]]
  BY DEF Lost
<1>9. /\ DOMAIN request' = DOMAIN request
      /\ \A q \in DOMAIN request : q # r => request'[q] = [request[q] EXCEPT !.lost = lost(q)]
      /\ request'[r] = [[request[r] EXCEPT !.lost = lost(r)]
                          EXCEPT !.stage = "done", !.counted = now, !.flood = flood]
  BY <1>1, <1>3, <1>8
<1>10. lost(r) = request[r].lost
  BY <1>1, <1>2 DEF Call
<1>11. /\ request'[r].stage = "done" /\ request'[r].counted = now
       /\ request'[r].ip = ip /\ request'[r].lost = request[r].lost
       /\ request'[r].turn = request[r].turn /\ request'[r].lock = request[r].lock
  BY <1>1, <1>2, <1>9, <1>10 DEF Call
<1>12. ASSUME NEW q \in DOMAIN request, q # r
       PROVE  /\ request'[q].ip = request[q].ip /\ request'[q].turn = request[q].turn
              /\ request'[q].lock = request[q].lock
              /\ request'[q].stage = request[q].stage /\ request'[q].counted = request[q].counted
              /\ request'[q].lost = lost(q)
  <2>1. request[q] \in Call /\ request'[q] = [request[q] EXCEPT !.lost = lost(q)]
    BY <1>2, <1>9, <1>12
  <2>. HIDE DEF lost
  <2>. QED  BY <2>1 DEF Call
<1>13. CallsOK'
  <2>1. \A q \in DOMAIN request : lost(q) \in BOOLEAN
    BY <1>2 DEF Call
  <2>. HIDE DEF lost
  <2>2. \A q \in DOMAIN request : q # r => request'[q] \in Call
    BY <1>2, <1>9, <2>1 DEF Call
  <2>3. request'[r] \in Call
    BY <1>1, <1>2, <1>7, <1>9, <2>1 DEF Call
  <2>. QED  BY <1>9, <2>2, <2>3 DEF TypeInv, CallsOK
<1>14. /\ DOMAIN connections'.of = DOMAIN room.of \cup {ip}
       /\ connections'.of[ip] = stamps
       /\ \A j \in DOMAIN room.of : j # ip => connections'.of[j] = room.of[j]
  BY <1>4, SetValue
<1>15. MaxTrackerSize \in Nat
  BY DEF DdosAssumption
<1>16. Within(connections', MaxTrackerSize)
  BY <1>4, <1>5, <1>15, SetWithin
<1>17. stamps \subseteq Stamp
  BY <1>2, <1>6 DEF Recent, Tracked, TypeInv, ConnectionsOK, Stamp, MapHas
<1>18. Tracked(connections', ip) = Recent(Tracked(connections, ip), now) \cup {[req |-> r, at |-> now]}
  BY <1>6, <1>14 DEF Tracked, MapHas
<1>. HIDE DEF stamps
<1>19. ConnectionsOK(connections')
  BY <1>2, <1>5, <1>14, <1>16, <1>17 DEF TypeInv, ConnectionsOK
<1>20. ASSUME NEW j, j # ip
       PROVE  Tracked(connections', j) = IF j \in out THEN {} ELSE Tracked(connections, j)
  BY <1>5, <1>14, <1>20 DEF Tracked, MapHas, out
<1>21. queue' \in Seq(Requests)
  BY <1>1, HeadTailProperties DEF CheckConnectionFlood, TypeInv
<1>22. UNCHANGED <<now, slowloris, locks, whitelist>>
  BY DEF CheckConnectionFlood
<1>23. TypeInv'
  BY <1>13, <1>19, <1>21, <1>22 DEF TypeInv
<1>24. /\ r \in DOMAIN request /\ request[r].stage = "returned"
       /\ DOMAIN request' = DOMAIN request
  BY <1>1, <1>9
<1>. QED  BY <1>6, <1>11, <1>18, <1>20, <1>23, <1>12, <1>24 DEF out, room

FiniteCalls == IsFiniteSet(DOMAIN request)

LEMMA TypeNext ==
  ASSUME DdosAssumption
  PROVE  TypeInv /\ FiniteCalls /\ [Next]_vars => TypeInv' /\ FiniteCalls'
<1> SUFFICES ASSUME TypeInv, FiniteCalls, [Next]_vars PROVE TypeInv' /\ FiniteCalls'
  OBVIOUS
<1>1. ASSUME NEW r \in Requests, NEW ip \in IPs, NEW kind \in Kinds, Start(r, ip, kind)
      PROVE  TypeInv' /\ FiniteCalls'
  <2>1. DOMAIN request' = DOMAIN request \cup {r}
    BY <1>1 DEF Start, Put
  <2>. QED  BY <1>1, <2>1, StartType, FS_AddElement DEF FiniteCalls
<1>2. ASSUME NEW r \in Requests, CheckSlowloris(r) PROVE TypeInv' /\ FiniteCalls'
  BY <1>2, SlowlorisType DEF FiniteCalls
<1>3. ASSUME NEW r \in Requests, CheckConnectionFlood(r) PROVE TypeInv' /\ FiniteCalls'
  BY <1>3, FloodType DEF FiniteCalls
<1>4. CASE Collect
  <2>1. MaxTrackerSize \in Nat
    BY DEF DdosAssumption
  <2>2. ConnectionsOK(connections')
    BY <1>4, SweptTracked DEF Collect, TypeInv
  <2>3. SlowlorisOK(slowloris')
    <3> DEFINE gone == {ip \in DOMAIN slowloris.of : now - slowloris.of[ip] > IdleMs}
    <3>1. slowloris' = MapDelete(slowloris, gone) /\ SlowlorisOK(slowloris)
      BY <1>4 DEF Collect, TypeInv
    <3>. HIDE DEF gone
    <3>. QED  BY <2>1, <3>1, DeleteWithin, DeletedKeys DEF SlowlorisOK
  <2>. QED  BY <1>4, <2>2, <2>3 DEF Collect, TypeInv, CallsOK, FiniteCalls
<1>5. ASSUME NEW ip \in IPs, AddToWhitelist(ip) \/ RemoveFromWhitelist(ip)
      PROVE  TypeInv' /\ FiniteCalls'
  BY <1>5 DEF AddToWhitelist, RemoveFromWhitelist, TypeInv, CallsOK, FiniteCalls
<1>6. CASE Tick
  BY <1>6 DEF Tick, TypeInv, CallsOK, FiniteCalls
<1>7. CASE UNCHANGED vars
  BY <1>7 DEF vars, TypeInv, CallsOK, FiniteCalls
<1>. QED  BY <1>1, <1>2, <1>3, <1>4, <1>5, <1>6, <1>7 DEF Next

LEMMA FiniteInit == Init => FiniteCalls
BY FS_EmptySet DEF Init, FiniteCalls, Empty

\* Trackers, locks, queue and calls keep their types, and no tracker ever holds more
\* than MAX_TRACKER_SIZE addresses, whatever is evicted and collected, for any number
\* of addresses and requests.
THEOREM TypeCorrect ==
  ASSUME DdosAssumption
  PROVE  Spec => []TrackerTypes
BY TypeInvTypes, TypeInit, FiniteInit, TypeNext, PTL DEF Spec

-----------------------------------------------------------------------------
(* The chain of locks.  LocksServeInOrder speaks of who is in the queue; it *)
(* holds because each caller waits for the lock of the caller just before   *)
(* it (Chained): so a lock resolved wakes one caller, and that one is then  *)
(* the first.                                                               *)

\* No two calls came at the same turn.
TurnsDiffer ==
  \A r \in DOMAIN request :
    /\ request[r].turn < Cardinality(DOMAIN request)
    /\ \A q \in DOMAIN request : request[q].turn = request[r].turn => q = r

\* r waits for a call of its address that has not come to its finally.
Held(r) == request[r].lock # NoLock /\ Stage(request[r].lock, "waiting")

\* A call that waits beside r.
Rival(q, r) == request[q].stage = "waiting" /\ request[q].ip = request[r].ip

\* Between r and the call it waits for, no other waits; if it waits for none, none
\* waits before it.
Linked(r) ==
  LET l == request[r].lock
  IN  /\ l # NoLock => l \in DOMAIN request
      /\ Held(r) => Rival(l, r) /\ request[l].turn < request[r].turn
      /\ \A q \in DOMAIN request : Rival(q, r) =>
           \/ request[r].turn <= request[q].turn
           \/ Held(r) /\ (q = l \/ request[q].turn < request[l].turn)

Chained == \A r \in DOMAIN request : request[r].stage = "waiting" => Linked(r)

\* The queue lists the calls whose turn it is, each once.
Queued ==
  /\ EachOnce(queue) /\ Listed(queue) \subseteq DOMAIN request
  /\ \A r \in DOMAIN request : request[r].stage = "waiting" => (r \in Listed(queue) <=> ~Held(r))

\* The strengthening.
LockInv == TurnsDiffer /\ Chained /\ Queued /\ LocksReleased

LEMMA LockInvServes == TypeInv /\ LockInv => LocksServeInOrder
<1> SUFFICES ASSUME TypeInv, LockInv, NEW ip \in IPs, NEW r \in Waiting(ip)
             PROVE  (\E i \in DOMAIN queue : queue[i] = r)
                      <=> \A q \in Waiting(ip) : request[r].turn <= request[q].turn
  BY DEF LockInv, LocksServeInOrder, FirstRuns
<1>1. /\ r \in DOMAIN request /\ request[r].stage = "waiting" /\ request[r].ip = ip
      /\ \A q \in DOMAIN request : request[q].turn \in Nat
  BY DEF Waiting, TypeInv, CallsOK, Call
<1>2. (\E i \in DOMAIN queue : queue[i] = r) <=> ~Held(r)
  BY <1>1 DEF LockInv, Queued, Listed
<1>3. Held(r) => request[r].lock \in Waiting(ip) /\ request[request[r].lock].turn < request[r].turn
  BY <1>1 DEF LockInv, Chained, Linked, Rival, Held, Stage, Waiting
<1>4. Held(r) => ~\A q \in Waiting(ip) : request[r].turn <= request[q].turn
  BY <1>1, <1>3 DEF Waiting
<1>5. ~Held(r) => \A q \in Waiting(ip) : request[r].turn <= request[q].turn
  BY <1>1 DEF LockInv, Chained, Linked, Rival, Waiting
<1>. QED  BY <1>2, <1>4, <1>5

LEMMA LockInit == Init => LockInv
BY DEF Init, LockInv, TurnsDiffer, Chained, Queued, LocksReleased, EachOnce, Listed, Waiting, Empty

\* The last caller, if it still waits, is the one the next waits for.
LEMMA LockStart ==
  ASSUME DdosAssumption, TypeInv, FiniteCalls, LockInv,
         NEW r \in Requests, NEW ip \in IPs, NEW kind \in Kinds, Start(r, ip, kind)
  PROVE  LockInv'
<1> DEFINE lock == IF ip \in DOMAIN locks THEN locks[ip] ELSE NoLock
           N    == Cardinality(DOMAIN request)
<1>1. /\ r \notin DOMAIN request /\ DOMAIN request' = DOMAIN request \cup {r}
      /\ \A q \in DOMAIN request : request'[q] = request[q]
      /\ request'[r].stage = "waiting" /\ request'[r].ip = ip /\ request'[r].lock = lock
      /\ request'[r].turn = N
  BY DEF Start, Put
<1>2. /\ N \in Nat /\ Cardinality(DOMAIN request') = N + 1
      /\ \A q \in DOMAIN request : request[q].turn \in Nat /\ request[q].turn < N
  BY <1>1, FS_CardinalityType, FS_AddElement
  DEF FiniteCalls, TypeInv, CallsOK, Call, LockInv, TurnsDiffer
<1>3. NoLock \notin Requests /\ DOMAIN request \subseteq Requests
  BY DEF DdosAssumption, TypeInv, CallsOK
<1>. HIDE DEF N
<1>4. TurnsDiffer'
  <2>1. \A q \in DOMAIN request' : request'[q].turn < N + 1
    BY <1>1, <1>2
  <2>2. ASSUME NEW q \in DOMAIN request', NEW p \in DOMAIN request',
               request'[p].turn = request'[q].turn
        PROVE  p = q
    BY <1>1, <1>2, <2>2 DEF LockInv, TurnsDiffer
  <2>. QED  BY <1>2, <2>1, <2>2 DEF TurnsDiffer
<1>5. \A j : Waiting(j)' = Waiting(j) \cup (IF j = ip THEN {r} ELSE {})
  BY <1>1 DEF Waiting
<1>6. /\ ip \notin DOMAIN locks => lock = NoLock /\ Waiting(ip) = {}
      /\ ip \in DOMAIN locks => /\ lock \in DOMAIN request /\ lock # NoLock
                                /\ request[lock].stage = "waiting" /\ request[lock].ip = ip
                                /\ \A q \in Waiting(ip) : request[q].turn <= request[lock].turn
  BY <1>3 DEF LockInv, LocksReleased, Waiting
<1>7. Held(r)' <=> ip \in DOMAIN locks
  BY <1>1, <1>6 DEF Held, Stage
<1>8. \A q \in DOMAIN request : request[q].stage = "waiting" => (Held(q)' <=> Held(q))
  BY <1>1 DEF Held, Stage, LockInv, Chained, Linked
<1>. HIDE DEF lock
<1>9. ASSUME NEW q \in DOMAIN request, request[q].stage = "waiting"
       PROVE  Linked(q)'
  <2>1. Linked(q) /\ (Held(q)' <=> Held(q)) /\ (Held(q) => request[q].lock \in DOMAIN request)
    BY <1>8, <1>9 DEF LockInv, Chained, Held, Stage
  <2>2. request[q].turn <= request'[r].turn
    BY <1>1, <1>2
  <2>. QED  BY <1>1, <2>1, <2>2 DEF Linked, Rival
<1>10. Linked(r)'
  <2>1. CASE ip \in DOMAIN locks
    <3>1. /\ lock \in DOMAIN request /\ request'[lock] = request[lock]
          /\ request[lock].ip = ip /\ request[lock].turn < N /\ request[lock].stage = "waiting"
      BY <1>1, <1>2, <1>6, <2>1
    <3>2. \A p \in DOMAIN request :
            request[p].ip = ip /\ request[p].stage = "waiting" =>
              p = lock \/ request[p].turn < request[lock].turn
      BY <1>2, <1>6, <2>1, <3>1 DEF Waiting, LockInv, TurnsDiffer
    <3>. QED  BY <1>1, <1>2, <1>7, <2>1, <3>1, <3>2 DEF Linked, Rival
  <2>2. CASE ip \notin DOMAIN locks
    <3>1. \A p \in DOMAIN request : ~(request[p].ip = ip /\ request[p].stage = "waiting")
      BY <1>6, <2>2 DEF Waiting
    <3>. QED  BY <1>1, <1>2, <1>6, <1>7, <2>2, <3>1 DEF Linked, Rival
  <2>. QED  BY <2>1, <2>2
<1>11. Queued'
  <2>1. queue' = IF Held(r)' THEN queue ELSE Append(queue, r)
    <3>1. queue' = IF lock = NoLock \/ request[lock].stage # "waiting"
                   THEN Append(queue, r) ELSE queue
      BY DEF Start, lock
    <3>. QED  BY <3>1, <1>6, <1>7
  <2>2. /\ EachOnce(queue) /\ Listed(queue) \subseteq DOMAIN request /\ queue \in Seq(Requests)
        /\ r \notin Listed(queue)
        /\ \A q \in DOMAIN request :
             request[q].stage = "waiting" => (q \in Listed(queue) <=> ~Held(q))
    BY <1>1 DEF TypeInv, LockInv, Queued
  <2>3. /\ EachOnce(Append(queue, r))
        /\ Listed(Append(queue, r)) = Listed(queue) \cup {r}
    BY <2>2, AppendedOnce
  <2>4. EachOnce(queue') /\ Listed(queue') = IF Held(r)' THEN Listed(queue) ELSE Listed(queue) \cup {r}
    BY <2>1, <2>2, <2>3
  <2>. QED  BY <1>1, <1>8, <2>2, <2>4 DEF Queued, Listed, EachOnce
<1>12. LocksReleased'
  <2>1. locks' = Put(locks, ip, r)
    BY DEF Start
  <2>2. DOMAIN locks' = DOMAIN locks \cup {ip} /\ locks'[ip] = r
        /\ \A j \in DOMAIN locks : j # ip => locks'[j] = locks[j]
    BY <2>1 DEF Put
  <2>3. ASSUME NEW j \in DOMAIN locks'
        PROVE  /\ locks'[j] \in Waiting(j)'
               /\ \A q \in Waiting(j)' : request'[q].turn <= request'[locks'[j]].turn
    <3>1. CASE j = ip
      BY <1>1, <1>2, <1>5, <2>2, <3>1 DEF Waiting
    <3>2. CASE j # ip
      BY <1>1, <1>5, <2>2, <2>3, <3>2 DEF Waiting, LockInv, LocksReleased
    <3>. QED  BY <3>1, <3>2
  <2>4. DOMAIN locks' = {j \in IPs : Waiting(j)' # {}}
    BY <1>5, <2>2 DEF LockInv, LocksReleased
  <2>. QED  BY <2>3, <2>4 DEF LocksReleased
<1>. QED  BY <1>1, <1>4, <1>9, <1>10, <1>11, <1>12 DEF LockInv, Chained

\* The woken caller, if there is one, and r itself join the end of the queue.
LEMMA Requeued ==
  ASSUME NEW S, NEW s \in Seq(S), EachOnce(s), NEW r \in S, r \notin Listed(s),
         NEW woken \in SUBSET S, woken \cap Listed(s) = {}, r \notin woken,
         \A p, q \in woken : p = q,
         NEW w, w = IF woken = {} THEN <<>> ELSE <<CHOOSE q \in woken : TRUE>>
  PROVE  EachOnce(s \o w \o <<r>>) /\ Listed(s \o w \o <<r>>) = Listed(s) \cup woken \cup {r}
<1> DEFINE mid == s \o w
<1>1. mid \in Seq(S) /\ EachOnce(mid) /\ Listed(mid) = Listed(s) \cup woken
  <2>1. CASE woken = {}
    BY <2>1, ConcatEmptySeq
  <2>2. ASSUME NEW q \in woken
        PROVE  mid \in Seq(S) /\ EachOnce(mid) /\ Listed(mid) = Listed(s) \cup woken
    <3>1. woken = {q} /\ w = <<q>> /\ q \in S /\ q \notin Listed(s)
      BY <2>2
    <3>2. mid = Append(s, q)
      BY <3>1, AppendIsConcat
    <3>3. Append(s, q) \in Seq(S) /\ EachOnce(Append(s, q)) /\ Listed(Append(s, q)) = Listed(s) \cup {q}
      BY <3>1, AppendedOnce
    <3>. QED  BY <3>1, <3>2, <3>3
  <2>. QED  BY <2>1, <2>2
<1>2. r \notin Listed(mid)
  BY <1>1
<1>. HIDE DEF mid
<1>3. mid \o <<r>> = Append(mid, r)
  BY <1>1, AppendIsConcat
<1>4. EachOnce(Append(mid, r)) /\ Listed(Append(mid, r)) = Listed(mid) \cup {r}
  BY <1>1, <1>2, AppendedOnce
<1>. QED  BY <1>1, <1>3, <1>4 DEF mid

\* Who waits for r is the next of its address, and there is no other.
LEMMA LockSlowloris ==
  ASSUME DdosAssumption, TypeInv, LockInv, NEW r \in Requests, CheckSlowloris(r)
  PROVE  LockInv'
<1> DEFINE ip    == request[r].ip
           woken == {q \in DOMAIN request : Stage(q, "waiting") /\ request[q].lock = r}
<1>1. /\ r \in DOMAIN request /\ request[r].stage = "waiting"
      /\ DOMAIN request' = DOMAIN request
      /\ \A q \in DOMAIN request : q # r => request'[q] = request[q]
  BY SlowlorisType
<1>2. /\ request'[r].stage = "returned" /\ request'[r].ip = ip
      /\ request'[r].turn = request[r].turn /\ request'[r].lock = request[r].lock
      /\ ip \in IPs
  BY SlowlorisType DEF TypeInv, CallsOK, Call
<1>3. /\ NoLock \notin Requests /\ DOMAIN request \subseteq Requests
      /\ \A q \in DOMAIN request : request[q].turn \in Nat
  BY DEF DdosAssumption, TypeInv, CallsOK, Call
<1>4. /\ queue # <<>> /\ r = Head(queue) /\ queue \in Seq(Requests) /\ EachOnce(queue)
      /\ queue' = Tail(queue) \o Woken(r) \o <<r>>
  BY DEF CheckSlowloris, TypeInv, LockInv, Queued
<1>5. /\ Tail(queue) \in Seq(Requests) /\ EachOnce(Tail(queue))
      /\ Listed(Tail(queue)) = Listed(queue) \ {r} /\ r \in Listed(queue)
  BY <1>4, TailOnce
<1>6. ~Held(r) /\ Linked(r)
  BY <1>1, <1>5 DEF LockInv, Queued, Chained
<1>7. \A q \in DOMAIN request : Rival(q, r) => q = r \/ request[r].turn < request[q].turn
  BY <1>1, <1>3, <1>6 DEF Linked, LockInv, TurnsDiffer
<1>8. ASSUME NEW q \in woken
      PROVE  /\ q \in DOMAIN request /\ q # r /\ request[q].stage = "waiting" /\ request[q].ip = ip
             /\ request[q].lock = r /\ Held(q) /\ Linked(q) /\ q \notin Listed(queue)
             /\ \A p \in DOMAIN request : Rival(p, r) => p = r \/ request[q].turn <= request[p].turn
  <2>1. /\ q \in DOMAIN request /\ request[q].stage = "waiting" /\ request[q].lock = r
        /\ Held(q) /\ Linked(q) /\ q \notin Listed(queue)
    BY <1>1, <1>3 DEF Stage, Held, LockInv, Chained, Queued
  <2>2. q # r /\ request[q].ip = ip
    BY <1>1, <1>3, <2>1 DEF Linked, Rival
  <2>3. ASSUME NEW p \in DOMAIN request, Rival(p, r), p # r
        PROVE  request[q].turn <= request[p].turn
    BY <1>1, <1>3, <1>7, <2>1, <2>2, <2>3 DEF Linked, Rival
  <2>. QED  BY <2>1, <2>2, <2>3
<1>9. \A q, p \in woken : q = p
  <2>. SUFFICES ASSUME NEW q \in woken, NEW p \in woken PROVE q = p
    OBVIOUS
  <2>1. request[q].turn <= request[p].turn /\ request[p].turn <= request[q].turn
    BY <1>1, <1>8 DEF Rival
  <2>. QED  BY <1>3, <2>1 DEF LockInv, TurnsDiffer
<1>10. /\ EachOnce(queue')
       /\ Listed(queue') = (Listed(queue) \ {r}) \cup woken \cup {r}
  <2> DEFINE rest == Tail(queue)
  <2>1. /\ woken \in SUBSET Requests /\ r \notin woken /\ woken \cap Listed(rest) = {}
        /\ r \notin Listed(rest)
    BY <1>3, <1>5, <1>8
  <2>2. Woken(r) = IF woken = {} THEN <<>> ELSE <<CHOOSE q \in woken : TRUE>>
    BY DEF Woken
  <2>3. rest \in Seq(Requests) /\ EachOnce(rest) /\ Listed(rest) = Listed(queue) \ {r}
    BY <1>5
  <2>. HIDE DEF rest, woken
  <2>4. /\ EachOnce(rest \o Woken(r) \o <<r>>)
        /\ Listed(rest \o Woken(r) \o <<r>>) = Listed(rest) \cup woken \cup {r}
    BY <1>9, <2>1, <2>2, <2>3, Requeued
  <2>. QED  BY <1>4, <2>3, <2>4 DEF rest
<1>11. \A q \in DOMAIN request : request[q].stage = "waiting" /\ q # r =>
         (Held(q)' <=> Held(q) /\ q \notin woken)
  BY <1>1, <1>2 DEF Held, Stage
<1>12. TurnsDiffer'
  BY <1>1, <1>2 DEF LockInv, TurnsDiffer
<1>13. ASSUME NEW q \in DOMAIN request, request[q].stage = "waiting", q # r
       PROVE  Linked(q)'
  <2>1. Linked(q) /\ (Held(q)' <=> Held(q) /\ q \notin woken)
    BY <1>11, <1>13 DEF LockInv, Chained
  <2>2. CASE q \in woken
    <3>1. \A p \in DOMAIN request : Rival(p, q)' => request[q].turn <= request[p].turn
      BY <1>1, <1>2, <1>8, <1>13, <2>2 DEF Rival
    <3>. QED  BY <1>1, <1>2, <1>13, <2>1, <2>2, <3>1 DEF Linked, Rival
  <2>3. CASE q \notin woken
    <3>1. request[q].lock # r
      BY <1>13, <2>3 DEF Stage
    <3>2. Held(q) => request[q].lock \in DOMAIN request /\ request'[request[q].lock] = request[request[q].lock]
      BY <1>1, <3>1 DEF Held, Stage
    <3>3. \A p \in DOMAIN request : Rival(p, q)' => Rival(p, q) /\ request'[p] = request[p]
      BY <1>1, <1>2, <1>13 DEF Rival
    <3>4. Held(q) => Rival(request[q].lock, q)'
      BY <1>1, <1>13, <2>1, <3>2 DEF Linked, Rival
    <3>. QED  BY <1>1, <1>13, <2>1, <2>3, <3>2, <3>3, <3>4 DEF Linked
  <2>. QED  BY <2>2, <2>3
<1>14. Queued'
  <2>1. Listed(queue') \subseteq DOMAIN request'
    BY <1>1, <1>8, <1>10 DEF LockInv, Queued
  <2>2. ASSUME NEW q \in DOMAIN request, request'[q].stage = "waiting"
        PROVE  q \in Listed(queue') <=> ~Held(q)'
    <3>1. q # r /\ request[q].stage = "waiting"
      BY <1>1, <1>2, <2>2
    <3>. HIDE DEF woken
    <3>. QED  BY <1>10, <1>11, <3>1 DEF LockInv, Queued
  <2>. QED  BY <1>1, <1>10, <2>1, <2>2 DEF Queued
<1>15. LocksReleased'
  <2>1. \A j : Waiting(j)' = Waiting(j) \ {r}
    BY <1>1, <1>2 DEF Waiting
  <2>2. r \in Waiting(ip) /\ \A j : j # ip => r \notin Waiting(j)
    BY <1>1 DEF Waiting
  <2>3. ip \in DOMAIN locks /\ locks[ip] \in Waiting(ip)
    BY <1>2, <2>2 DEF LockInv, LocksReleased
  <2>4. locks' = Released(r)
    BY DEF CheckSlowloris
  <2>5. CASE locks[ip] = r
    <3>1. Waiting(ip) = {r}
      BY <1>1, <1>3, <1>7, <2>2, <2>3, <2>5 DEF LockInv, LocksReleased, Waiting, Rival
    <3>2. DOMAIN locks' = DOMAIN locks \ {ip} /\ \A j \in DOMAIN locks' : locks'[j] = locks[j]
      BY <2>3, <2>4, <2>5 DEF Released, Drop
    <3>3. \A j \in DOMAIN locks' : Waiting(j)' = Waiting(j) /\ \A q \in Waiting(j) : q \in DOMAIN request /\ q # r
      BY <2>1, <2>2, <3>2 DEF Waiting
    <3>4. DOMAIN locks' = {j \in IPs : Waiting(j)' # {}}
      BY <2>1, <2>2, <3>1, <3>2 DEF LockInv, LocksReleased
    <3>. QED  BY <1>1, <3>2, <3>3, <3>4 DEF LockInv, LocksReleased
  <2>6. CASE locks[ip] # r
    <3>1. locks' = locks
      BY <2>4, <2>6 DEF Released
    <3>2. \A j \in DOMAIN locks : locks[j] # r /\ locks[j] \in Waiting(j)
      BY <2>2, <2>6 DEF LockInv, LocksReleased
    <3>3. DOMAIN locks' = {j \in IPs : Waiting(j)' # {}}
      BY <2>1, <2>3, <3>1, <3>2 DEF LockInv, LocksReleased
    <3>4. \A j : \A q \in Waiting(j) : q \in DOMAIN request
      BY DEF Waiting
    <3>. QED  BY <1>1, <2>1, <3>1, <3>2, <3>3, <3>4 DEF LockInv, LocksReleased
  <2>. QED  BY <2>5, <2>6
<1>. QED  BY <1>1, <1>2, <1>12, <1>13, <1>14, <1>15 DEF LockInv, Chained

\* A step that neither starts nor ends a wait.
LEMMA LockUndisturbed ==
  ASSUME TypeInv, LockInv, DOMAIN request' = DOMAIN request,
         \A q \in DOMAIN request :
           /\ request'[q].ip = request[q].ip /\ request'[q].turn = request[q].turn
           /\ request'[q].lock = request[q].lock
           /\ request'[q].stage = "waiting" <=> request[q].stage = "waiting",
         locks' = locks, EachOnce(queue'), Listed(queue') \subseteq Listed(queue),
         \A q \in DOMAIN request :
           request[q].stage = "waiting" /\ q \in Listed(queue) => q \in Listed(queue')
  PROVE  LockInv'
<1>1. TurnsDiffer'
  BY DEF LockInv, TurnsDiffer
<1>2. \A q \in DOMAIN request : Held(q)' <=> Held(q)
  BY DEF Held, Stage
<1>3. \A p, q \in DOMAIN request : Rival(p, q)' <=> Rival(p, q)
  BY DEF Rival
<1>4. ASSUME NEW q \in DOMAIN request, request[q].stage = "waiting"
      PROVE  Linked(q)'
  <2>1. /\ Linked(q) /\ (Held(q)' <=> Held(q))
        /\ Held(q) => request[q].lock \in DOMAIN request
    BY <1>2, <1>4 DEF LockInv, Chained, Held, Stage
  <2>. QED  BY <1>3, <2>1 DEF Linked
<1>5. Queued'
  BY <1>2 DEF LockInv, Queued
<1>6. \A j : Waiting(j)' = Waiting(j)
  BY DEF Waiting
<1>7. LocksReleased'
  <2>1. \A j : \A q \in Waiting(j) : q \in DOMAIN request
    BY DEF Waiting
  <2>. QED  BY <1>6, <2>1 DEF LockInv, LocksReleased
<1>. QED  BY <1>1, <1>4, <1>5, <1>7 DEF LockInv, Chained

LEMMA LockNext ==
  ASSUME DdosAssumption
  PROVE  TypeInv /\ FiniteCalls /\ LockInv /\ [Next]_vars => LockInv'
<1> SUFFICES ASSUME TypeInv, FiniteCalls, LockInv, [Next]_vars PROVE LockInv'
  OBVIOUS
<1>1. ASSUME NEW r \in Requests, NEW ip \in IPs, NEW kind \in Kinds, Start(r, ip, kind)
      PROVE  LockInv'
  BY <1>1, LockStart
<1>2. ASSUME NEW r \in Requests, CheckSlowloris(r) PROVE LockInv'
  BY <1>2, LockSlowloris
<1>3. ASSUME NEW r \in Requests, CheckConnectionFlood(r) PROVE LockInv'
  <2>1. /\ DOMAIN request' = DOMAIN request
        /\ \A q \in DOMAIN request :
             /\ request'[q].ip = request[q].ip /\ request'[q].turn = request[q].turn
             /\ request'[q].lock = request[q].lock
             /\ request'[q].stage = "waiting" <=> request[q].stage = "waiting"
    <3>1. request[r].stage # "waiting" /\ request'[r].stage # "waiting"
      BY <1>3, FloodType
    <3>. QED  BY <1>3, <3>1, FloodType
  <2>2. request[r].stage = "returned"
    BY <1>3, FloodType
  <2>3. /\ queue # <<>> /\ queue \in Seq(Requests) /\ EachOnce(queue) /\ r = Head(queue)
        /\ queue' = Tail(queue) /\ locks' = locks
    BY <1>3 DEF CheckConnectionFlood, TypeInv, LockInv, Queued
  <2>4. EachOnce(queue') /\ Listed(queue') = Listed(queue) \ {r}
    BY <2>3, TailOnce
  <2>. QED  BY <2>1, <2>2, <2>3, <2>4, LockUndisturbed
<1>4. CASE /\ UNCHANGED <<locks, queue, request>>
  BY <1>4, LockUndisturbed DEF LockInv, Queued
<1>5. CASE Collect \/ Tick \/ UNCHANGED vars
           \/ \E ip \in IPs : AddToWhitelist(ip) \/ RemoveFromWhitelist(ip)
  BY <1>4, <1>5 DEF Collect, Tick, vars, AddToWhitelist, RemoveFromWhitelist
<1>. QED  BY <1>1, <1>2, <1>3, <1>5 DEF Next

\* The locks of an address serve its calls in the order they came, each caller
\* wakes one, and the last takes the lock away: for any number of callers, however
\* their continuations interleave and whichever of them return early.
THEOREM LocksHold ==
  ASSUME DdosAssumption
  PROVE  Spec => []LocksServeInOrder
<1>1. Init => TypeInv /\ FiniteCalls /\ LockInv
  BY TypeInit, FiniteInit, LockInit
<1>2. (TypeInv /\ FiniteCalls /\ LockInv) /\ [Next]_vars => (TypeInv /\ FiniteCalls /\ LockInv)'
  BY TypeNext, LockNext
<1>3. TypeInv /\ FiniteCalls /\ LockInv => LocksServeInOrder
  BY LockInvServes
<1>. QED  BY <1>1, <1>2, <1>3, PTL DEF Spec

-----------------------------------------------------------------------------
(* Floods.  FloodExact says which calls a tracker counts; it is inductive   *)
(* with the times of their stamps.                                          *)

StampsTrue ==
  \A ip \in IPs : \A s \in Tracked(connections, ip) :
    /\ s.req \in DOMAIN request /\ request[s.req].ip = ip
    /\ request[s.req].stage = "done" /\ ~request[s.req].lost /\ request[s.req].counted = s.at

StampsKept ==
  \A r \in DOMAIN request :
    /\ request[r].stage # "done" => ~request[r].lost
    /\ request[r].stage = "done" /\ ~request[r].lost /\ now - request[r].counted < WindowMs
         => [req |-> r, at |-> request[r].counted] \in Tracked(connections, request[r].ip)

\* The strengthening.
FloodInv == StampsTrue /\ StampsKept

LEMMA FloodInvExact == TypeInv /\ FloodInv => FloodExact
<1> SUFFICES ASSUME TypeInv, FloodInv, NEW ip \in IPs
             PROVE  {s.req : s \in Recent(Tracked(connections, ip), now)}
                      = {r \in DOMAIN request : /\ request[r].ip = ip /\ request[r].stage = "done"
                                                /\ ~request[r].lost
                                                /\ now - request[r].counted < WindowMs}
  BY DEF FloodExact, Tracked
<1>1. ASSUME NEW s \in Recent(Tracked(connections, ip), now)
      PROVE  /\ s.req \in DOMAIN request /\ request[s.req].ip = ip
             /\ request[s.req].stage = "done" /\ ~request[s.req].lost
             /\ now - request[s.req].counted < WindowMs
  BY DEF FloodInv, StampsTrue, Recent
<1>2. ASSUME NEW r \in DOMAIN request, request[r].ip = ip, request[r].stage = "done",
             ~request[r].lost, now - request[r].counted < WindowMs
      PROVE  \E s \in Recent(Tracked(connections, ip), now) : s.req = r
  <2>1. [req |-> r, at |-> request[r].counted] \in Recent(Tracked(connections, ip), now)
    BY <1>2 DEF FloodInv, StampsKept, Recent
  <2>. QED  BY <2>1
<1>. QED  BY <1>1, <1>2

LEMMA FloodInit == Init => FloodInv
BY DEF Init, FloodInv, StampsTrue, StampsKept, Tracked, MapHas, EmptyMap, Empty

\* Time, and stamps that time has made old.
LEMMA FloodAged ==
  ASSUME DdosAssumption, TypeInv, FloodInv, request' = request, now' \in {now, now + 1},
         \/ connections' = connections
         \/ \A ip : Tracked(connections', ip) = Recent(Tracked(connections, ip), now')
  PROVE  FloodInv'
<1>1. \A r \in DOMAIN request : request[r].counted \in Nat
  BY DEF TypeInv, CallsOK, Call
<1>2. now \in Nat /\ WindowMs \in Nat
  BY DEF DdosAssumption, TypeInv
<1>3. \A ip : Tracked(connections', ip) \subseteq Tracked(connections, ip)
  BY DEF Recent, Tracked
<1>4. StampsTrue'
  BY <1>3 DEF FloodInv, StampsTrue
<1>5. StampsKept'
  BY <1>1, <1>2 DEF FloodInv, StampsKept, Recent, Tracked
<1>. QED  BY <1>4, <1>5 DEF FloodInv

LEMMA FloodCounted ==
  ASSUME DdosAssumption, TypeInv, FloodInv, NEW r \in Requests, CheckConnectionFlood(r)
  PROVE  FloodInv'
<1> DEFINE ip  == request[r].ip
           out == DOMAIN connections.of \ DOMAIN WithRoom(connections, ip).of
           new == [req |-> r, at |-> now]
<1>1. /\ r \in DOMAIN request /\ request[r].stage = "returned"
      /\ DOMAIN request' = DOMAIN request
      /\ request'[r].stage = "done" /\ request'[r].counted = now
      /\ request'[r].ip = ip /\ request'[r].lost = request[r].lost
      /\ ip \notin out
      /\ Tracked(connections', ip) = Recent(Tracked(connections, ip), now) \cup {new}
      /\ \A j : j # ip => Tracked(connections', j) = IF j \in out THEN {} ELSE Tracked(connections, j)
  BY FloodType, Zenon
<1>2. \A q \in DOMAIN request : q # r =>
        /\ request'[q].ip = request[q].ip /\ request'[q].stage = request[q].stage
        /\ request'[q].counted = request[q].counted
        /\ request'[q].lost = (request[q].lost \/ (request[q].ip \in out /\ request[q].stage = "done"))
  BY FloodType
<1>. HIDE DEF out
<1>0. now' = now
  BY DEF CheckConnectionFlood
<1>3. ~request[r].lost
  BY <1>1 DEF FloodInv, StampsKept
<1>4. StampsTrue'
  <2>1. ASSUME NEW j \in IPs, NEW s \in Tracked(connections', j)
        PROVE  /\ s.req \in DOMAIN request' /\ request'[s.req].ip = j
               /\ request'[s.req].stage = "done" /\ ~request'[s.req].lost
               /\ request'[s.req].counted = s.at
    <3>1. CASE s = new /\ j = ip
      BY <1>1, <1>3, <3>1
    <3>2. CASE ~(s = new /\ j = ip)
      <4>1. s \in Tracked(connections, j) /\ j \notin out
        BY <1>1, <2>1, <3>2 DEF Recent
      <4>2. /\ s.req \in DOMAIN request /\ request[s.req].ip = j
            /\ request[s.req].stage = "done" /\ ~request[s.req].lost /\ request[s.req].counted = s.at
        BY <2>1, <4>1 DEF FloodInv, StampsTrue
      <4>. QED  BY <1>1, <1>2, <4>1, <4>2
    <3>. QED  BY <3>1, <3>2
  <2>. QED  BY <2>1 DEF StampsTrue
<1>5. ASSUME NEW q \in DOMAIN request
      PROVE  /\ request'[q].stage # "done" => ~request'[q].lost
             /\ request'[q].stage = "done" /\ ~request'[q].lost /\ now - request'[q].counted < WindowMs
                 => [req |-> q, at |-> request'[q].counted] \in Tracked(connections', request'[q].ip)
  <2>1. CASE q = r
    BY <1>1, <2>1
  <2>2. CASE q # r
    <3>1. /\ request[q].stage # "done" => ~request[q].lost
          /\ request[q].stage = "done" /\ ~request[q].lost /\ now - request[q].counted < WindowMs
               => [req |-> q, at |-> request[q].counted] \in Tracked(connections, request[q].ip)
      BY DEF FloodInv, StampsKept
    <3>. QED  BY <1>1, <1>2, <2>2, <3>1 DEF Recent
  <2>. QED  BY <2>1, <2>2
<1>. QED  BY <1>0, <1>1, <1>4, <1>5 DEF FloodInv, StampsKept

\* A call is counted once, at the end.
LEMMA FloodElsewhere ==
  ASSUME TypeInv, FloodInv, DOMAIN request \subseteq DOMAIN request',
         connections' = connections, now' = now,
         \A q \in DOMAIN request : request[q].stage = "done" => request'[q] = request[q],
         \A q \in DOMAIN request' :
           \/ q \in DOMAIN request /\ request[q].stage = "done"
           \/ request'[q].stage # "done" /\ ~request'[q].lost
  PROVE  FloodInv'
<1>1. StampsTrue'
  BY DEF FloodInv, StampsTrue
<1>2. StampsKept'
  BY DEF FloodInv, StampsKept
<1>. QED  BY <1>1, <1>2 DEF FloodInv

LEMMA FloodNext ==
  ASSUME DdosAssumption
  PROVE  TypeInv /\ FiniteCalls /\ FloodInv /\ [Next]_vars => FloodInv'
<1> SUFFICES ASSUME TypeInv, FiniteCalls, FloodInv, [Next]_vars PROVE FloodInv'
  OBVIOUS
<1>1. ASSUME NEW r \in Requests, NEW ip \in IPs, NEW kind \in Kinds, Start(r, ip, kind)
      PROVE  FloodInv'
  <2>1. /\ DOMAIN request' = DOMAIN request \cup {r} /\ r \notin DOMAIN request
        /\ \A q \in DOMAIN request : request'[q] = request[q]
        /\ request'[r].stage = "waiting" /\ ~request'[r].lost
        /\ connections' = connections /\ now' = now
    BY <1>1 DEF Start, Put
  <2>2. \A q \in DOMAIN request : request[q].stage # "done" => ~request[q].lost
    BY DEF FloodInv, StampsKept
  <2>. QED  BY <2>1, <2>2, FloodElsewhere
<1>2. ASSUME NEW r \in Requests, CheckSlowloris(r) PROVE FloodInv'
  <2>1. /\ r \in DOMAIN request /\ request[r].stage = "waiting"
        /\ DOMAIN request' = DOMAIN request
        /\ \A q \in DOMAIN request : q # r => request'[q] = request[q]
    BY <1>2, SlowlorisType
  <2>2. request'[r].stage = "returned" /\ request'[r].lost = request[r].lost
    BY <1>2, SlowlorisType DEF TypeInv, CallsOK, Call
  <2>3. connections' = connections /\ now' = now
    BY <1>2 DEF CheckSlowloris
  <2>4. \A q \in DOMAIN request : request[q].stage # "done" => ~request[q].lost
    BY DEF FloodInv, StampsKept
  <2>. QED  BY <2>1, <2>2, <2>3, <2>4, FloodElsewhere
<1>3. ASSUME NEW r \in Requests, CheckConnectionFlood(r) PROVE FloodInv'
  BY <1>3, FloodCounted
<1>4. CASE Collect
  <2>1. \A ip : Tracked(connections', ip) = Recent(Tracked(connections, ip), now)
    BY <1>4, SweptTracked DEF Collect, TypeInv
  <2>. QED  BY <1>4, <2>1, FloodAged DEF Collect
<1>5. CASE Tick \/ UNCHANGED vars \/ \E ip \in IPs : AddToWhitelist(ip) \/ RemoveFromWhitelist(ip)
  BY <1>5, FloodAged DEF Tick, vars, AddToWhitelist, RemoveFromWhitelist
<1>. QED  BY <1>1, <1>2, <1>3, <1>4, <1>5 DEF Next

\* The tracker of an address knows exactly its calls counted within the window
\* since it was last evicted, so it reports a flood for just as many.
THEOREM FloodIsExact ==
  ASSUME DdosAssumption
  PROVE  Spec => []FloodExact
<1>1. Init => TypeInv /\ FiniteCalls /\ FloodInv
  BY TypeInit, FiniteInit, FloodInit
<1>2. (TypeInv /\ FiniteCalls /\ FloodInv) /\ [Next]_vars => (TypeInv /\ FiniteCalls /\ FloodInv)'
  BY TypeNext, FloodNext
<1>3. TypeInv /\ FiniteCalls /\ FloodInv => FloodExact
  BY FloodInvExact
<1>. QED  BY <1>1, <1>2, <1>3, PTL DEF Spec
=============================================================================
