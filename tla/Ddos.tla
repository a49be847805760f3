-------------------------------- MODULE Ddos --------------------------------
(* The native flood protection and the JavaScript one, side by side.  They   *)
(* share nothing: `protector` names the one that a behaviour is about, and   *)
(* the other stays as it starts.                                             *)
EXTENDS ThreadedDdosProtector

CONSTANTS                                  \* of src/modules/ddos-protection.js
  IPs, Requests, NoLock,
  MaxConnections, MaxTrackerSize, WindowMs, IdleMs, SingleMaxTime

VARIABLES
  protector,
  clock, connections, slowloris, locks, whitelist, queue, request   \* of the same

Single == INSTANCE DdosProtection WITH MaxTime <- SingleMaxTime, now <- clock

ASSUME SingleAssumption == Single!DdosAssumption

OfSingle == <<clock, connections, slowloris, locks, whitelist, queue, request>>

bothVars == <<protector, vars, OfSingle>>

InThreaded(A) == protector = "threaded" /\ A /\ UNCHANGED <<protector, OfSingle>>
InSingle(A)   == protector = "single" /\ A /\ UNCHANGED <<protector, vars>>

\* The native features, of which only the native protector reads, are one choice for
\* the other.
BothInit ==
  /\ protector \in {"single", "threaded"} /\ Init /\ Single!Init
  /\ protector = "single" => features = CHOOSE f \in FeatureSets : TRUE

ThreadedNext ==
  \/ \E c \in Calls :
       \/ \E op \in Ops, addr \in Addresses : InThreaded(Begin(c, op, addr))
       \/ \E exempt \in BOOLEAN : InThreaded(Admit(c, exempt))
       \/ InThreaded(CheckSlowloris(c))
       \/ \E limit \in Limits, payload \in BOOLEAN : InThreaded(CheckConnFlood(c, limit, payload))
       \/ InThreaded(RecordViolation(c))
       \/ \E length \in BanLengths : InThreaded(BanIp(c, length))
       \/ \E kind \in Chunks, slowly \in BOOLEAN : InThreaded(OnChunk(c, kind, slowly))
       \/ InThreaded(OnStreamReset(c))
  \/ \E ip \in Addresses : InThreaded(UnbanIp(ip))
  \/ InThreaded(Dispose)
  \/ InThreaded(GcStart) \/ InThreaded(GcCollect) \/ InThreaded(GcDelete)
  \/ InThreaded(Tick)

SingleNext ==
  \/ \E r \in Requests :
       \/ \E ip \in IPs, kind \in Single!Kinds : InSingle(Single!Start(r, ip, kind))
       \/ InSingle(Single!CheckSlowloris(r)) \/ InSingle(Single!CheckConnectionFlood(r))
  \/ InSingle(Single!Collect)
  \/ \E ip \in IPs : InSingle(Single!AddToWhitelist(ip)) \/ InSingle(Single!RemoveFromWhitelist(ip))
  \/ InSingle(Single!Tick)

BothSpec == BothInit /\ [][ThreadedNext \/ SingleNext]_bothVars

-----------------------------------------------------------------------------
\* The types of the JavaScript trackers, locks and queue, and the trackers' limits:
\* however evictions, the insertions that follow them and collections interleave.
SingleTypes == Single!TrackerTypes

\* The promises that serialize an address's calls serve them one after the other, in
\* the order they came, and are gone with the last: no early return leaves a lock
\* behind, and nobody waits for one that nobody will resolve.
LocksServeInOrder == Single!LocksServeInOrder

\* The JavaScript tracker of an address knows exactly its calls counted within the
\* window, since it was last evicted.
FloodExact == Single!FloodExact
=============================================================================
