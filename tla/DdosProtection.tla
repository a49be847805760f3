--------------------------- MODULE DdosProtection ---------------------------
(***************************************************************************)
(* src/modules/ddos-protection.js: the two trackers of check and the chain *)
(* of promises that serializes checkSlowloris per address.                 *)
(*                                                                         *)
(* check is called by the engine at any time.  It runs to `await lock`;    *)
(* its continuation is queued as a microtask at once if the lock's promise *)
(* is resolved, else when its holder resolves it.  `queue` holds the       *)
(* continuations in the order they run; other modules' run in between.     *)
(* The garbage collector is a timer, and runs when no microtask is left.   *)
(*                                                                         *)
(* Headers are of one of two kinds: regular (a full run, whatever it       *)
(* finds) and malformed (an early return).                                 *)
(***************************************************************************)
EXTENDS Integers, Maps

CONSTANTS
  IPs, Requests,
  NoLock,              \* Promise.resolve() in the place of a lock
  MaxConnections,      \* MAX_CONNECTIONS_PER_IP
  MaxTrackerSize,      \* MAX_TRACKER_SIZE
  WindowMs,            \* 60000
  IdleMs,              \* SLOWLORIS_TIMEOUT + 5000
  MaxTime              \* bound of the clock

DdosAssumption ==
  /\ {MaxConnections, MaxTrackerSize, WindowMs, IdleMs} \subseteq Nat \ {0}
  /\ MaxTime \in Nat
  /\ NoLock \notin Requests

VARIABLES
  now,          \* Date.now()
  connections,  \* CONNECTION_TRACKER: address -> stamps, labelled by request
  slowloris,    \* SLOWLORIS_TRACKER: address -> lastActivity
  locks,        \* TRACKER_LOCKS: address -> request whose nextLock it is
  whitelist,    \* WHITELIST
  queue,        \* requests whose continuation is queued
  request       \* request -> where it is in check

vars == <<now, connections, slowloris, locks, whitelist, queue, request>>

Kinds == {"regular", "malformed"}

Stamp == [req : Requests, at : Nat]

\* waiting: at `await lock`; returned: checkSlowloris has returned; done: check
\* has.  turn counts the calls before it, counted is the time of its stamp, lost
\* says that its address was evicted since.
Call == [stage : {"waiting", "returned", "done"}, ip : IPs, kind : Kinds,
         at : Nat, lock : Requests \cup {NoLock}, turn : Nat,
         counted : Nat, lost : BOOLEAN, flood : BOOLEAN]

Stage(r, s) == r \in DOMAIN request /\ request[r].stage = s

\* Mutant: room is made one entry too late.
WithRoomLate(tracker, ip) ==
  IF ~MapHas(tracker, ip) /\ MapSize(tracker) > MaxTrackerSize
  THEN MapDeleteFirst(tracker) ELSE tracker

WithRoom(tracker, ip) ==
  IF ~MapHas(tracker, ip) /\ MapSize(tracker) >= MaxTrackerSize
  THEN MapDeleteFirst(tracker) ELSE tracker

\* Mutant: the window a tick too short.
RecentShort(stamps, t) == {s \in stamps : t - s.at < WindowMs - 1}

\* requests.filter(ts => now - ts < windowMs)
Recent(stamps, t) == {s \in stamps : t - s.at < WindowMs}

-----------------------------------------------------------------------------
Init ==
  /\ now = 0
  /\ connections = EmptyMap /\ slowloris = EmptyMap
  /\ locks = Empty /\ whitelist = {} /\ queue = <<>>
  /\ request = Empty

\* check and checkSlowloris up to `await lock`.
Start(r, ip, kind) ==
  /\ r \notin DOMAIN request /\ ip \notin whitelist
  /\ LET lock == IF ip \in DOMAIN locks THEN locks[ip] ELSE NoLock
     IN  /\ request' = Put(request, r,
              [stage |-> "waiting", ip |-> ip, kind |-> kind, at |-> now, lock |-> lock,
               turn |-> Cardinality(DOMAIN request), counted |-> 0, lost |-> FALSE, flood |-> FALSE])
         /\ queue' = IF lock = NoLock \/ request[lock].stage # "waiting"
                     THEN Append(queue, r) ELSE queue
  /\ locks' = Put(locks, ip, r)
  /\ UNCHANGED <<now, connections, slowloris, whitelist>>

\* The request that awaits r's lock, if any.
Woken(r) ==
  LET waiting == {q \in DOMAIN request : Stage(q, "waiting") /\ request[q].lock = r}
  IN  IF waiting = {} THEN <<>> ELSE <<CHOOSE q \in waiting : TRUE>>

\* Mutant: the early return leaves the lock behind.
ReleasedOnlyAtEnd(r) ==
  IF request[r].kind = "malformed" THEN locks ELSE Drop(locks, {request[r].ip})

\* The locks after r's finally.
Released(r) ==
  LET ip == request[r].ip
  IN  IF ip \in DOMAIN locks /\ locks[ip] = r THEN Drop(locks, {ip}) ELSE locks

\* The rest of checkSlowloris, finally included: r's lock is resolved before the
\* promise of checkSlowloris is.
CheckSlowloris(r) ==
  /\ queue # <<>> /\ r = Head(queue) /\ Stage(r, "waiting")
  /\ LET q    == request[r]
         room == WithRoom(slowloris, q.ip)
     IN  slowloris' = IF q.kind = "malformed" /\ ~MapHas(room, q.ip)
                      THEN room ELSE MapSet(room, q.ip, q.at)
  /\ locks' = Released(r)
  /\ queue' = Tail(queue) \o Woken(r) \o <<r>>
  /\ request' = [request EXCEPT ![r].stage = "returned"]
  /\ UNCHANGED <<now, connections, whitelist>>

\* The stamps of the addresses in S are gone.
Lost(S) == [r \in DOMAIN request |->
  [request[r] EXCEPT !.lost = @ \/ (request[r].ip \in S /\ request[r].stage = "done")]]

\* The rest of check: checkConnectionFlood and the verdict.
CheckConnectionFlood(r) ==
  /\ queue # <<>> /\ r = Head(queue) /\ Stage(r, "returned")
  /\ LET ip     == request[r].ip
         room   == WithRoom(connections, ip)
         old    == IF MapHas(room, ip) THEN room.of[ip] ELSE {}
         stamps == Recent(old, now) \cup {[req |-> r, at |-> now]}
     IN  /\ connections' = MapSet(room, ip, stamps)
         /\ request' = [Lost(DOMAIN connections.of \ DOMAIN room.of)
                          EXCEPT ![r].stage = "done", ![r].counted = now,
                                 ![r].flood = Cardinality(stamps) > MaxConnections]
  /\ queue' = Tail(queue)
  /\ UNCHANGED <<now, slowloris, locks, whitelist>>

\* The connections the collector keeps.
Swept(tracker, t) ==
  LET gone == {ip \in DOMAIN tracker.of : Recent(tracker.of[ip], t) = {}}
      kept == MapDelete(tracker, gone)
  IN  [kept EXCEPT !.of = [ip \in DOMAIN kept.of |-> Recent(kept.of[ip], t)]]

Collect ==
  /\ queue = <<>>
  /\ connections' = Swept(connections, now)
  /\ slowloris' = MapDelete(slowloris, {ip \in DOMAIN slowloris.of : now - slowloris.of[ip] > IdleMs})
  /\ UNCHANGED <<now, locks, whitelist, queue, request>>

AddToWhitelist(ip) ==
  /\ whitelist' = whitelist \cup {ip}
  /\ UNCHANGED <<now, connections, slowloris, locks, queue, request>>

RemoveFromWhitelist(ip) ==
  /\ whitelist' = whitelist \ {ip}
  /\ UNCHANGED <<now, connections, slowloris, locks, queue, request>>

Tick ==
  /\ now < MaxTime
  /\ now' = now + 1
  /\ UNCHANGED <<connections, slowloris, locks, whitelist, queue, request>>

Next ==
  \/ \E r \in Requests :
       \/ \E ip \in IPs, kind \in Kinds : Start(r, ip, kind)
       \/ CheckSlowloris(r) \/ CheckConnectionFlood(r)
  \/ Collect
  \/ \E ip \in IPs : AddToWhitelist(ip) \/ RemoveFromWhitelist(ip)
  \/ Tick

Spec == Init /\ [][Next]_vars

-----------------------------------------------------------------------------
(* Properties.                                                             *)

TypeOK ==
  /\ now \in Nat
  /\ DOMAIN connections.of \subseteq IPs
  /\ \A ip \in DOMAIN connections.of : connections.of[ip] \subseteq Stamp
  /\ DOMAIN slowloris.of \subseteq IPs /\ \A ip \in DOMAIN slowloris.of : slowloris.of[ip] \in Nat
  /\ MapOrdered(connections) /\ MapOrdered(slowloris)
  /\ DOMAIN locks \subseteq IPs /\ \A ip \in DOMAIN locks : locks[ip] \in Requests
  /\ whitelist \subseteq IPs
  /\ queue \in Seq(Requests)
  /\ DOMAIN request \subseteq Requests /\ \A r \in DOMAIN request : request[r] \in Call

Waiting(ip) == {r \in DOMAIN request : request[r].ip = ip /\ request[r].stage = "waiting"}

\* An address has a lock exactly while calls of it wait, and it is the last
\* caller's: no early return, collection or late caller leaves one behind.
LocksReleased ==
  /\ DOMAIN locks = {ip \in IPs : Waiting(ip) # {}}
  /\ \A ip \in DOMAIN locks :
       /\ locks[ip] \in Waiting(ip)
       /\ \A r \in Waiting(ip) : request[r].turn <= request[locks[ip]].turn

\* Of the calls of an address that wait, one is about to run, and it is the
\* first that came: nobody waits for a lock that nobody will resolve.
FirstRuns ==
  \A ip \in IPs : \A r \in Waiting(ip) :
    (\E i \in DOMAIN queue : queue[i] = r) <=> \A q \in Waiting(ip) : request[r].turn <= request[q].turn

\* Both: the locks of an address serve its calls one after the other, in the
\* order they came, and are gone with the last.
LocksServeInOrder == LocksReleased /\ FirstRuns

\* The tracker of an address knows exactly its calls counted within the window,
\* since it was last evicted.
FloodExact ==
  \A ip \in IPs :
    {s.req : s \in Recent(IF MapHas(connections, ip) THEN connections.of[ip] ELSE {}, now)}
      = {r \in DOMAIN request : /\ request[r].ip = ip /\ request[r].stage = "done"
                                /\ ~request[r].lost
                                /\ now - request[r].counted < WindowMs}

TrackersBounded == MapSize(connections) <= MaxTrackerSize /\ MapSize(slowloris) <= MaxTrackerSize

\* The types of all of it, with the limits of the trackers: however evictions, the
\* insertions that follow them and collections interleave.
TrackerTypes == TypeOK /\ TrackersBounded

=============================================================================
