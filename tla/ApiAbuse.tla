------------------------------ MODULE ApiAbuse ------------------------------
(***************************************************************************)
(* src/modules/api-abuse.js: the endpoints each client has accessed, and   *)
(* what is concluded from them and from one request.  check has no await.  *)
(***************************************************************************)
EXTENDS Integers, Maps

CONSTANTS
  Clients, Paths,
  IdPaths,        \* paths that end in a number or a UUID
  Base,           \* path -> the path without its last part
  Requests,       \* what may be sent
  MaxTrackers,    \* MAX_TRACKER_SIZE
  windowMs,       \* TRACKING_WINDOW
  idleMs,         \* CLEANUP_INTERVAL
  manyPaths, manyIds, tooManyPaths, perBase,   \* 20, 10, 30 and 5
  LastActivity,   \* bound: when clients fall silent
  MaxCalls, MaxTime

\* Of the constants.
ApiAssumption ==
  /\ {MaxTrackers, windowMs} \subseteq Nat \ {0} /\ {MaxCalls, MaxTime} \subseteq Nat
  /\ IdPaths \subseteq Paths

VARIABLES
  now,
  trackers,   \* ENDPOINT_TRACKER, in order of insertion
  log         \* the calls made, each with what it returned

vars == <<now, trackers, log>>

Flag(f, test) == IF test THEN {f} ELSE {}

\* calculateQueryComplexity, doubled: g counts levels, fields, aliases and named
\* queries of a GraphQL request.
Complexity(g) ==
  10 * g.depth + g.fields + 4 * g.aliases + (IF g.introspection THEN 60 ELSE 0)
    + (IF g.queries > 3 THEN 20 * g.queries ELSE 0)

\* Nothing is reported of a query that is not complex as a whole.
GraphqlFlags(g) ==
  IF Complexity(g) <= 400 THEN {}
  ELSE {"graphql_bomb"}
       \cup Flag("deep_nesting", g.depth > 8)
       \cup Flag("massive_field_count", g.fields > 100)
       \cup Flag("excessive_aliases", g.aliases > 20)
       \cup Flag("introspection_query", g.introspection)
       \cup Flag("batch_bombs", g.queries > 3)

\* detectRestAbuse: q.body is what an object holds, or nothing.
RestFlags(q) ==
  Flag("mass_assignment_suspected", q.keys > 50)
  \cup Flag("privilege_escalation_attempt", q.adminField)
  \cup Flag("method_override", q.override)
  \cup Flag("jsonp_callback_injection", q.callback)

\* At the time t.
Expired(endpoints, t) == {p \in DOMAIN endpoints : t - endpoints[p].last > windowMs}

Accessed(endpoints, p, t) ==
  LET left == Drop(endpoints, Expired(endpoints, t))
      old  == p \in DOMAIN left
  IN  Put(left, p, [count |-> IF old THEN left[p].count + 1 ELSE 1,
                    first |-> IF old THEN left[p].first ELSE t,
                    last  |-> t])

\* At the limit the first client goes, though the one that comes be tracked, and
\* though it be that very client, who is then added again as the last.
WithRoom(m) == IF MapSize(m) >= MaxTrackers THEN MapDeleteFirst(m) ELSE m

EnumerationFlags(endpoints) ==
  LET paths == DOMAIN endpoints
      bases == {Base[p] : p \in paths}
      ids   == /\ perBase * Cardinality(bases) < Cardinality(paths)
               /\ Cardinality(paths \cap IdPaths) > manyIds
  IN  IF Cardinality(paths) <= manyPaths THEN {}
      ELSE Flag("id_enumeration", ids)
           \cup Flag("endpoint_enumeration", ~ids /\ Cardinality(paths) > tooManyPaths)

-----------------------------------------------------------------------------
Init == now = 0 /\ trackers = EmptyMap /\ log = <<>>

Check(q) ==
  /\ Len(log) < MaxCalls /\ now <= LastActivity
  /\ LET known   == MapHas(trackers, q.client)
         tracker == IF known THEN trackers.of[q.client]
                    ELSE [endpoints |-> Empty, firstSeen |-> now, lastSeen |-> now,
                          born |-> Len(log) + 1]
         after   == [tracker EXCEPT !.lastSeen = now, !.endpoints = Accessed(@, q.path, now)]
     IN  /\ trackers' = MapSet(WithRoom(trackers), q.client, after)
         /\ log' = Append(log, [q |-> q, at |-> now, flags |->
              (IF q.graphql THEN GraphqlFlags(q.query) ELSE {})
                \cup RestFlags(q) \cup EnumerationFlags(after.endpoints)])
  /\ UNCHANGED now

\* The collector.
Collect ==
  /\ trackers' = MapDelete(trackers,
       {c \in DOMAIN trackers.of : now - trackers.of[c].lastSeen > idleMs})
  /\ UNCHANGED <<now, log>>

Tick == now < MaxTime /\ now' = now + 1 /\ UNCHANGED <<trackers, log>>

Next == (\E q \in Requests : Check(q)) \/ Collect \/ Tick

Spec == Init /\ [][Next]_vars

\* Time passes and the collector's interval fires.
FairSpec == Spec /\ WF_vars(Collect) /\ WF_vars(Tick)

-----------------------------------------------------------------------------
\* Type correctness and the limit of the table.
TypeOK ==
  /\ now \in 0 .. MaxTime
  /\ MapOrdered(trackers) /\ MapSize(trackers) <= MaxTrackers
  /\ \A c \in DOMAIN trackers.of :
       /\ trackers.of[c].lastSeen \in trackers.of[c].firstSeen .. now
       /\ \A p \in DOMAIN trackers.of[c].endpoints :
            trackers.of[c].endpoints[p] \in [count : 1 .. MaxCalls, first : 0 .. now, last : 0 .. now]

\* What is known of a tracked client is true and complete: an endpoint is kept if
\* and only if it was accessed in the window that ended at the client's last call, and
\* its count is that of its accesses no further than the window apart, whatever
\* other clients pushed out of the table and whoever was pushed out to make room
\* for a call of its own.
EndpointsExact ==
  \A c \in DOMAIN trackers.of :
    LET tracker == trackers.of[c]
        calls(p) == {n \in DOMAIN log : n >= tracker.born /\ log[n].q.client = c /\ log[n].q.path = p}
    IN  \A p \in Paths :
          LET run == {n \in calls(p) :
                \A m \in calls(p) : m > n =>
                   \E k \in calls(p) : n <= k /\ k < m /\ log[m].at - log[k].at <= windowMs}
              kept == \E n \in calls(p) : log[n].at >= tracker.lastSeen - windowMs
          IN  /\ (p \in DOMAIN tracker.endpoints) <=> kept
              /\ kept => tracker.endpoints[p].count = Cardinality(run)

\* Clients are forgotten once they are silent.
NothingKept == trackers = EmptyMap
=============================================================================
