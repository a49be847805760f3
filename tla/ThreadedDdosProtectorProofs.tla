-------------------- MODULE ThreadedDdosProtectorProofs --------------------
(***************************************************************************)
(* What holds of the C++ flood protection for any number of threads,       *)
(* addresses and spellings, whatever the limits in the options.            *)
(***************************************************************************)
EXTENDS Ddos, MapsProofs

-----------------------------------------------------------------------------
(* Trackers.                                                               *)

\* A tracker within its limit, of addresses with entries in V.
Tracker(m, V) ==
  /\ Within(m, maxTrackerSize) /\ DOMAIN m.of \subseteq Addresses
  /\ \A a \in DOMAIN m.of : m.of[a] \in V

LEMMA Limit == maxTrackerSize \in Nat \ {0}
BY ProtectorAssumption DEF ProtectorAssumption

\* What an address that is looked up finds: its own entry or a new one; the
\* others are as they were or, to make room, one is gone.
LEMMA TouchedTracker ==
  ASSUME NEW V, NEW m, Tracker(m, V), NEW addr \in Addresses, NEW new \in V
  PROVE  LET n == Touched(m, addr, new)
         IN  /\ Tracker(n, V)
             /\ addr \in DOMAIN n.of
             /\ n.of[addr] = IF MapHas(m, addr) THEN m.of[addr] ELSE new
             /\ \A j \in DOMAIN n.of : j # addr => j \in DOMAIN m.of /\ n.of[j] = m.of[j]
<1> DEFINE d == MapDelete(m, {addr})
           w == WithRoom(m)
           n == Touched(m, addr, new)
<1>1. maxTrackerSize \in Nat \ {0} /\ Within(m, maxTrackerSize)
  BY Limit DEF Tracker
<1>2. CASE MapHas(m, addr)
  <2>1. n = MapSet(d, addr, m.of[addr])
    BY <1>2 DEF Touched
  <2>2. Within(n, maxTrackerSize)
    BY <1>1, <1>2, <2>1, MovedWithin
  <2>3. DOMAIN d.of = DOMAIN m.of \ {addr} /\ \A j \in DOMAIN m.of \ {addr} : d.of[j] = m.of[j]
    BY DeletedKeys
  <2>. HIDE DEF d, n
  <2>4. /\ DOMAIN n.of = DOMAIN d.of \cup {addr} /\ n.of[addr] = m.of[addr]
        /\ \A j \in DOMAIN d.of : j # addr => n.of[j] = d.of[j]
    BY <2>1, SetValue
  <2>. QED  BY <1>2, <2>2, <2>3, <2>4 DEF Tracker, MapHas, n
<1>3. CASE ~MapHas(m, addr)
  <2>1. n = MapSet(w, addr, new)
    BY <1>3 DEF Touched
  <2>2. w = IF ~MapHas(m, addr) /\ MapSize(m) >= maxTrackerSize THEN MapDeleteFirst(m) ELSE m
    BY <1>3 DEF WithRoom
  <2>3. Within(w, maxTrackerSize) /\ (MapHas(w, addr) \/ MapSize(w) < maxTrackerSize)
    BY <1>1, <2>2, RoomWithin
  <2>4. DOMAIN w.of \subseteq DOMAIN m.of /\ \A j \in DOMAIN w.of : w.of[j] = m.of[j]
    BY <2>2, DeletedFirst
  <2>. HIDE DEF w, n
  <2>5. Within(n, maxTrackerSize)
    BY <1>1, <2>1, <2>3, SetWithin
  <2>6. /\ DOMAIN n.of = DOMAIN w.of \cup {addr} /\ n.of[addr] = new
        /\ \A j \in DOMAIN w.of : j # addr => n.of[j] = w.of[j]
    BY <2>1, SetValue
  <2>. QED  BY <1>3, <2>4, <2>5, <2>6 DEF Tracker, MapHas, n
<1>. QED  BY <1>2, <1>3

\* The entry of an address replaced.
LEMMA ReplacedTracker ==
  ASSUME NEW V, NEW m, Tracker(m, V), NEW a \in DOMAIN m.of, NEW v \in V,
         NEW n, n.keys = m.keys, n.of = [m.of EXCEPT ![a] = v]
  PROVE  /\ Tracker(n, V) /\ DOMAIN n.of = DOMAIN m.of /\ n.of[a] = v
         /\ \A j \in DOMAIN m.of : j # a => n.of[j] = m.of[j]
<1>1. DOMAIN n.of = DOMAIN m.of
  OBVIOUS
<1>2. Within(n, maxTrackerSize)
  BY <1>1, OrderedByKeys DEF Tracker, Within
<1>. QED  BY <1>1, <1>2 DEF Tracker

LEMMA DeletedTracker ==
  ASSUME NEW V, NEW m, Tracker(m, V), NEW S
  PROVE  /\ Tracker(MapDelete(m, S), V)
         /\ \A j \in DOMAIN MapDelete(m, S).of : j \in DOMAIN m.of /\ MapDelete(m, S).of[j] = m.of[j]
<1>1. Within(MapDelete(m, S), maxTrackerSize)
  BY Limit, DeleteWithin DEF Tracker
<1>. QED  BY <1>1, DeletedKeys DEF Tracker

LEMMA EmptyTracker == ASSUME NEW V PROVE Tracker(EmptyMap, V) /\ DOMAIN EmptyMap.of = {}
<1>1. DOMAIN EmptyMap.of = {}
  BY DEF EmptyMap, Empty
<1>. QED  BY <1>1, Limit, EmptyOrdered DEF Tracker, Within

-----------------------------------------------------------------------------
(* Type correctness, with the limits of the trackers.                      *)

Pcs == {"begun", "admitted", "streamed", "violating", "done"}

CallsOK == DOMAIN call \subseteq Calls /\ \A c \in DOMAIN call : call[c] \in Thread

CollectorOK ==
  /\ collector \in [phase : Phases \cup {"idle"}, at : Nat, keys : SUBSET Addresses]
  /\ collector.phase = "idle" => collector.keys = {}

PenaltyOK ==
  /\ DOMAIN penalty \subseteq {Normal[a] : a \in Addresses}
  /\ \A ip \in DOMAIN penalty : penalty[ip] \in Offender

TypeInv ==
  /\ features \in FeatureSets /\ now \in Nat /\ disposed \in BOOLEAN
  /\ Tracker(conn, Bucket) /\ Tracker(slow, Stream) /\ Tracker(resets, Nat)
  /\ PenaltyOK /\ CallsOK /\ CollectorOK

LEMMA TypeInvTypes == TypeInv => TrackerTypes
BY DEF TypeInv, TrackerTypes, TypeOK, TrackersBounded, Tracker, Within, Ordered,
       PenaltyOK, CallsOK, CollectorOK

\* A call that moves on keeps what it is about.
LEMMA MovedCall ==
  ASSUME CallsOK, now \in Nat, NEW c \in DOMAIN call, NEW pc \in Pcs, NEW noted \in BOOLEAN,
         Moved(c, pc, noted)
  PROVE  /\ CallsOK' /\ DOMAIN call' = DOMAIN call
         /\ \A d \in DOMAIN call : d # c => call'[d] = call[d]
         /\ call'[c].op = call[c].op /\ call'[c].addr = call[c].addr
         /\ call'[c].pc = pc /\ call'[c].noted = noted
         /\ call'[c].at \in {0, call[c].at}
<1>1. call[c] \in Thread
  BY DEF CallsOK
<1> DEFINE at == IF pc = "done" THEN 0 ELSE call[c].at
           q  == [[[call[c] EXCEPT !.pc = pc] EXCEPT !.noted = noted] EXCEPT !.at = at]
<1>2. call' = [call EXCEPT ![c] = q]
  BY DEF Moved
<1>3. /\ q \in Thread /\ q.op = call[c].op /\ q.addr = call[c].addr
      /\ q.pc = pc /\ q.noted = noted /\ q.at \in {0, call[c].at}
  BY <1>1 DEF Thread, Pcs
<1>. HIDE DEF q
<1>. QED  BY <1>2, <1>3 DEF CallsOK

\* One call moves on from where it is, with whatever it noted.
Steps(c, op, from, noted) ==
  /\ c \in DOMAIN call /\ call[c].op = op /\ call[c].pc = from
  /\ CallsOK' /\ DOMAIN call' = DOMAIN call
  /\ \A d \in DOMAIN call : d # c => call'[d] = call[d]
  /\ call'[c].op = op /\ call'[c].addr = call[c].addr
  /\ call'[c].pc \in Pcs \ {"begun", "admitted"} \/ (from = "begun" /\ ~noted)
  /\ call'[c].noted = noted /\ call'[c].at \in {0, call[c].at}

LEMMA CallType ==
  ASSUME TypeInv, NEW c \in DOMAIN call
  PROVE  /\ call[c] \in Thread /\ call[c].addr \in Addresses /\ call[c].at \in Nat
         /\ call[c].noted \in BOOLEAN /\ Normal[call[c].addr] \in Addresses
BY ProtectorAssumption DEF TypeInv, CallsOK, Thread, ProtectorAssumption

LEMMA BegunCall ==
  ASSUME TypeInv, NEW c \in Calls, NEW op \in Ops, NEW addr \in Addresses, Begin(c, op, addr)
  PROVE  /\ TypeInv'
         /\ c \notin DOMAIN call /\ DOMAIN call' = DOMAIN call \cup {c}
         /\ \A d \in DOMAIN call : call'[d] = call[d]
         /\ call'[c].at = now /\ call'[c].noted = FALSE /\ call'[c].pc = "begun"
<1> DEFINE new == [op |-> op, addr |-> addr, at |-> now, noted |-> FALSE, pc |-> "begun"]
<1>1. new \in Thread
  BY DEF TypeInv, Thread
<1>2. c \notin DOMAIN call /\ call' = Put(call, c, new) /\ UNCHANGED <<now, collector, tables>>
  BY DEF Begin
<1>3. CallsOK'
  BY <1>1, <1>2 DEF TypeInv, CallsOK, Put
<1>. QED  BY <1>2, <1>3 DEF tables, TypeInv, PenaltyOK, CollectorOK, Put

LEMMA AdmittedCall ==
  ASSUME TypeInv, NEW c \in Calls, NEW exempt \in BOOLEAN, Admit(c, exempt)
  PROVE  TypeInv' /\ Steps(c, "check", "begun", FALSE)
<1>1. c \in DOMAIN call /\ call[c].op = "check" /\ call[c].pc = "begun"
  BY DEF Admit, At
<1>2. PICK pc \in Pcs : Moved(c, pc, FALSE)
  BY DEF Admit, Pcs
<1>3. Steps(c, "check", "begun", FALSE)
  BY <1>1, <1>2, MovedCall DEF Steps, TypeInv, Pcs
<1>4. UNCHANGED <<now, collector, tables>>
  BY DEF Admit
<1>. QED  BY <1>3, <1>4 DEF tables, TypeInv, PenaltyOK, CollectorOK, Steps

\* checkSlowloris_ takes the flag with it.
LEMMA SlowlorisChecked ==
  ASSUME TypeInv, NEW c \in Calls, CheckSlowloris(c)
  PROVE  LET a    == call[c].addr
             flag == "slowloris" \in features /\ MapHas(slow, a) /\ slow.of[a].flagged
         IN  /\ TypeInv' /\ Steps(c, "check", "admitted", flag)
             /\ UNCHANGED <<features, now, collector, conn, resets, penalty, disposed>>
             /\ \A j \in DOMAIN slow'.of : j # a => j \in DOMAIN slow.of /\ slow'.of[j] = slow.of[j]
             /\ "slowloris" \in features => a \in DOMAIN slow'.of /\ ~slow'.of[a].flagged
             /\ "slowloris" \notin features => slow' = slow
<1> DEFINE a     == call[c].addr
           table == Touched(slow, a, NoChunks)
           e     == table.of[a]
           flag  == "slowloris" \in features /\ MapHas(slow, a) /\ slow.of[a].flagged
<1>1. /\ c \in DOMAIN call /\ call[c].op = "check" /\ call[c].pc = "admitted"
      /\ UNCHANGED <<features, now, collector, conn, resets, penalty, disposed>>
  BY DEF CheckSlowloris, At
<1>2. a \in Addresses /\ NoChunks \in Stream /\ Tracker(slow, Stream)
  BY <1>1, CallType DEF NoChunks, Stream, TypeInv
<1>. HIDE DEF a
<1>3. /\ Tracker(table, Stream) /\ a \in DOMAIN table.of
      /\ e = IF MapHas(slow, a) THEN slow.of[a] ELSE NoChunks
      /\ \A j \in DOMAIN table.of : j # a => j \in DOMAIN slow.of /\ table.of[j] = slow.of[j]
  BY <1>2, TouchedTracker
<1>4. e \in Stream /\ e.flagged = (MapHas(slow, a) /\ slow.of[a].flagged)
  BY <1>2, <1>3 DEF Tracker, NoChunks, MapHas, Stream
<1>5. CASE "slowloris" \in features
  <2>1. slow' = [table EXCEPT !.of[a].flagged = FALSE] /\ Moved(c, "streamed", e.flagged)
    BY <1>5 DEF CheckSlowloris, a
  <2> DEFINE v == [e EXCEPT !.flagged = FALSE]
  <2>2. slow'.keys = table.keys /\ slow'.of = [table.of EXCEPT ![a] = v]
    <3>1. table = [of |-> table.of, keys |-> table.keys]
      BY DEF Touched, MapSet
    <3>. HIDE DEF table
    <3>. QED  BY <2>1, <3>1
  <2>3. v \in Stream /\ ~v.flagged
    BY <1>4 DEF Stream
  <2>. HIDE DEF v, table
  <2>4. /\ Tracker(slow', Stream) /\ DOMAIN slow'.of = DOMAIN table.of /\ slow'.of[a] = v
        /\ \A j \in DOMAIN table.of : j # a => slow'.of[j] = table.of[j]
    BY <1>3, <2>2, <2>3, ReplacedTracker
  <2>5. e.flagged = flag /\ flag \in BOOLEAN
    BY <1>4, <1>5
  <2>. HIDE DEF e, flag
  <2>6. Steps(c, "check", "admitted", flag)
    BY <1>1, <2>1, <2>5, MovedCall DEF Steps, TypeInv, Pcs
  <2>7. TypeInv'
    BY <1>1, <2>4, <2>6 DEF TypeInv, PenaltyOK, CollectorOK, Steps
  <2>. QED  BY <1>1, <1>3, <1>5, <2>3, <2>4, <2>6, <2>7 DEF a, flag
<1>6. CASE "slowloris" \notin features
  <2>1. slow' = slow /\ Moved(c, "streamed", FALSE) /\ ~flag
    BY <1>6 DEF CheckSlowloris
  <2>2. Steps(c, "check", "admitted", FALSE)
    BY <1>1, <2>1, MovedCall DEF Steps, TypeInv, Pcs
  <2>3. TypeInv'
    BY <1>1, <2>1, <2>2 DEF TypeInv, PenaltyOK, CollectorOK, Steps
  <2>. QED  BY <1>1, <1>6, <2>1, <2>2, <2>3 DEF a
<1>. QED  BY <1>5, <1>6

\* A chunk that comes too late, or too slowly, raises the flag.
LEMMA ChunkNoted ==
  ASSUME TypeInv, NEW c \in Calls, NEW kind \in Chunks, NEW slowly \in BOOLEAN,
         OnChunk(c, kind, slowly)
  PROVE  LET a == call[c].addr
         IN  \E late \in BOOLEAN :
               /\ TypeInv' /\ Steps(c, kind, "begun", late) /\ call'[c].pc = "done"
               /\ UNCHANGED <<features, now, collector, conn, resets, penalty, disposed>>
               /\ \A j \in DOMAIN slow'.of : j # a => j \in DOMAIN slow.of /\ slow'.of[j] = slow.of[j]
               /\ slow'.of[a].flagged = ((MapHas(slow, a) /\ slow.of[a].flagged) \/ late)
<1> DEFINE a     == call[c].addr
           t     == call[c].at
           table == Touched(slow, a, NoChunks)
           e     == table.of[a]
           last  == e.last[kind]
           late  == MapHas(slow, a) /\ (slowly \/ (last > 0 /\ t - last > slowChunkIntervalMs))
<1>1. /\ c \in DOMAIN call /\ call[c].op = kind /\ call[c].pc = "begun"
      /\ UNCHANGED <<features, now, collector, conn, resets, penalty, disposed>>
      /\ slow' = [table EXCEPT !.of[a] = [last    |-> [@.last EXCEPT ![kind] = t],
                                          flagged |-> @.flagged \/ late]]
      /\ Moved(c, "done", late)
  BY DEF OnChunk, At
<1>2. a \in Addresses /\ t \in Nat /\ NoChunks \in Stream /\ Tracker(slow, Stream)
  BY <1>1, CallType DEF NoChunks, Stream, TypeInv
<1>3. late \in BOOLEAN
  OBVIOUS
<1>. HIDE DEF a, t, late
<1>4. /\ Tracker(table, Stream) /\ a \in DOMAIN table.of
      /\ e = IF MapHas(slow, a) THEN slow.of[a] ELSE NoChunks
      /\ \A j \in DOMAIN table.of : j # a => j \in DOMAIN slow.of /\ table.of[j] = slow.of[j]
  BY <1>2, TouchedTracker
<1>5. e \in Stream /\ e.flagged = (MapHas(slow, a) /\ slow.of[a].flagged)
  BY <1>2, <1>4 DEF Tracker, NoChunks, MapHas, Stream
<1> DEFINE v == [last |-> [e.last EXCEPT ![kind] = t], flagged |-> e.flagged \/ late]
<1>6. slow'.keys = table.keys /\ slow'.of = [table.of EXCEPT ![a] = v]
  <2>1. table = [of |-> table.of, keys |-> table.keys]
    BY DEF Touched, MapSet
  <2>. HIDE DEF table
  <2>. QED  BY <1>1, <2>1
<1>7. v \in Stream /\ v.flagged = (e.flagged \/ late)
  BY <1>2, <1>3, <1>5 DEF Stream
<1>. HIDE DEF v, table
<1>8. /\ Tracker(slow', Stream) /\ DOMAIN slow'.of = DOMAIN table.of /\ slow'.of[a] = v
      /\ \A j \in DOMAIN table.of : j # a => slow'.of[j] = table.of[j]
  BY <1>4, <1>6, <1>7, ReplacedTracker
<1>9. Steps(c, kind, "begun", late) /\ call'[c].pc = "done"
  BY <1>1, <1>3, MovedCall DEF Steps, TypeInv, Pcs
<1>10. TypeInv'
  BY <1>1, <1>8, <1>9 DEF TypeInv, PenaltyOK, CollectorOK, Steps
<1>11. slow'.of[a].flagged = ((MapHas(slow, a) /\ slow.of[a].flagged) \/ late)
  BY <1>5, <1>7, <1>8
<1>. QED  BY <1>1, <1>3, <1>4, <1>8, <1>9, <1>10, <1>11 DEF a

Fresh(limit, t) == [tokens |-> limit, refilled |-> t, passes |-> <<>>]

\* A bucket after one more request.
Spent(e) ==
  [e EXCEPT !.tokens = @ - 1,
            !.passes = IF e.tokens < 1 THEN @ ELSE Append(@, e.refilled)]

LEMMA RefilledType ==
  ASSUME NEW e \in Bucket, NEW t \in Nat, NEW limit \in Limits
  PROVE  /\ limit \in Nat /\ RefillPerMs \in Nat
         /\ Refilled(e, t, limit) \in Bucket /\ Spent(e) \in Bucket
<1>1. limit \in Nat /\ RefillPerMs \in Nat
  BY ProtectorAssumption DEF ProtectorAssumption
<1>2. /\ e.tokens \in Int /\ e.refilled \in Nat /\ e.passes \in Seq(Nat)
      /\ e = [tokens |-> e.tokens, refilled |-> e.refilled, passes |-> e.passes]
  BY DEF Bucket
<1>3. Refilled(e, t, limit) \in Bucket
  <2> DEFINE left == e.tokens + (t - e.refilled) * RefillPerMs
  <2>1. t > e.refilled => left \in Int /\ Least(left, limit) \in Int
    BY <1>1, <1>2 DEF Least
  <2>. HIDE DEF left
  <2>2. Refilled(e, t, limit) =
          IF t > e.refilled THEN [e EXCEPT !.tokens = Least(left, limit), !.refilled = t] ELSE e
    BY DEF Refilled, left
  <2>. QED  BY <1>2, <2>1, <2>2 DEF Bucket
<1>4. Spent(e) \in Bucket
  <2> DEFINE passes == IF e.tokens < 1 THEN e.passes ELSE Append(e.passes, e.refilled)
  <2>1. passes \in Seq(Nat) /\ e.tokens - 1 \in Int
    BY <1>2, AppendProperties
  <2>2. Spent(e) = [e EXCEPT !.tokens = e.tokens - 1, !.passes = passes]
    BY DEF Spent
  <2>. HIDE DEF passes
  <2>. QED  BY <2>1, <2>2 DEF Bucket
<1>. QED  BY <1>1, <1>3, <1>4

\* A request draws on the bucket of its address, or on a new one.
LEMMA ConnFlooded ==
  ASSUME TypeInv, NEW c \in Calls, NEW limit \in Limits, NEW payload \in BOOLEAN,
         CheckConnFlood(c, limit, payload)
  PROVE  LET a == call[c].addr
             t == call[c].at
         IN  /\ TypeInv' /\ Steps(c, "check", "streamed", call[c].noted)
             /\ UNCHANGED <<features, now, collector, slow, resets, penalty, disposed>>
             /\ t \in Nat
             /\ \/ conn' = conn
                \/ \E b \in Bucket :
                     /\ b = Fresh(limit, t) \/ (a \in DOMAIN conn.of /\ b = conn.of[a])
                     /\ conn'.of[a] = Spent(Refilled(b, t, limit))
                     /\ \A j \in DOMAIN conn'.of :
                          j # a => j \in DOMAIN conn.of /\ conn'.of[j] = conn.of[j]
<1> DEFINE a     == call[c].addr
           t     == call[c].at
           table == Touched(conn, a, Fresh(limit, t))
           b     == table.of[a]
           e     == Refilled(b, t, limit)
           over  == "flood" \in features /\ e.tokens < 1
           pc    == IF call[c].noted \/ over \/ payload THEN "violating" ELSE "done"
<1>1. /\ c \in DOMAIN call /\ call[c].op = "check" /\ call[c].pc = "streamed"
      /\ UNCHANGED <<features, now, collector, slow, resets, penalty, disposed>>
      /\ Moved(c, pc, call[c].noted)
      /\ "flood" \notin features => conn' = conn
      /\ "flood" \in features => conn' = [table EXCEPT !.of[a] =
           [e EXCEPT !.tokens = @ - 1, !.passes = IF over THEN @ ELSE Append(@, e.refilled)]]
  BY DEF CheckConnFlood, At, Fresh
<1>2. a \in Addresses /\ t \in Nat /\ call[c].noted \in BOOLEAN /\ Tracker(conn, Bucket)
  BY <1>1, CallType DEF TypeInv
<1>3. Fresh(limit, t) \in Bucket
  BY <1>2, ProtectorAssumption DEF Fresh, Bucket, ProtectorAssumption
<1>4. pc \in {"violating", "done"}
  OBVIOUS
<1>. HIDE DEF pc
<1>5. Steps(c, "check", "streamed", call[c].noted)
  BY <1>1, <1>2, <1>4, MovedCall DEF Steps, TypeInv, Pcs
<1>6. CASE "flood" \notin features
  <2>1. TypeInv'
    BY <1>1, <1>5, <1>6 DEF TypeInv, PenaltyOK, CollectorOK, Steps
  <2>. QED  BY <1>1, <1>2, <1>5, <1>6, <2>1
<1>7. CASE "flood" \in features
  <2>1. conn' = [table EXCEPT !.of[a] = Spent(e)]
    BY <1>1, <1>7 DEF Spent
  <2>. HIDE DEF a, t
  <2>2. /\ Tracker(table, Bucket) /\ a \in DOMAIN table.of
        /\ b = IF MapHas(conn, a) THEN conn.of[a] ELSE Fresh(limit, t)
        /\ \A j \in DOMAIN table.of : j # a => j \in DOMAIN conn.of /\ table.of[j] = conn.of[j]
    BY <1>2, <1>3, TouchedTracker
  <2>3. b \in Bucket
    BY <2>2 DEF Tracker
  <2>4. e \in Bucket
    BY <1>2, <2>3, RefilledType
  <2>5. Spent(e) \in Bucket
    <3>. HIDE DEF e
    <3>. QED  BY <1>2, <2>4, RefilledType
  <2>6. conn'.keys = table.keys /\ conn'.of = [table.of EXCEPT ![a] = Spent(e)]
    <3>1. table = [of |-> table.of, keys |-> table.keys]
      BY DEF Touched, MapSet
    <3>. HIDE DEF table, e
    <3>. QED  BY <2>1, <3>1
  <2> DEFINE v == Spent(e)
  <2>. HIDE DEF v, table
  <2>7. /\ Tracker(conn', Bucket) /\ DOMAIN conn'.of = DOMAIN table.of /\ conn'.of[a] = v
        /\ \A j \in DOMAIN table.of : j # a => conn'.of[j] = table.of[j]
    <3>1. v \in Bucket /\ conn'.of = [table.of EXCEPT ![a] = v]
      BY <2>5, <2>6 DEF v
    <3>. QED  BY <2>2, <2>6, <3>1, ReplacedTracker
  <2>8. TypeInv'
    BY <1>1, <1>5, <2>7 DEF TypeInv, PenaltyOK, CollectorOK, Steps
  <2>9. /\ b = Fresh(limit, t) \/ (a \in DOMAIN conn.of /\ b = conn.of[a])
        /\ conn'.of[a] = Spent(Refilled(b, t, limit))
        /\ \A j \in DOMAIN conn'.of : j # a => j \in DOMAIN conn.of /\ conn'.of[j] = conn.of[j]
    BY <2>2, <2>7 DEF MapHas, v
  <2>. HIDE DEF b
  <2>. QED  BY <1>1, <1>2, <1>5, <2>3, <2>8, <2>9 DEF a, t
<1>. QED  BY <1>6, <1>7

-----------------------------------------------------------------------------
(* The penalty box.                                                        *)

LEMMA OffenceType ==
  ASSUME TypeInv, NEW ip
  PROVE  OffenceOf(ip) \in Offender
BY DEF TypeInv, PenaltyOK, OffenceOf, NoOffence, Offender

LEMMA Penalised ==
  ASSUME PenaltyOK, NEW a \in Addresses, NEW e \in Offender,
         penalty' = Put(penalty, Normal[a], e)
  PROVE  /\ PenaltyOK' /\ DOMAIN penalty' = DOMAIN penalty \cup {Normal[a]}
         /\ penalty'[Normal[a]] = e
         /\ \A j \in DOMAIN penalty : j # Normal[a] => penalty'[j] = penalty[j]
BY DEF PenaltyOK, Put

\* What one more violation makes of an entry.
LEMMA ViolationType ==
  ASSUME NEW e \in Offender, NEW c \in Calls, NEW t \in Nat
  PROVE  LET f == AfterViolation(e, c, t)
         IN  /\ f \in Offender /\ f.manual = e.manual
             /\ e.until > t => f = e
             /\ ~(e.until > t) =>
                  /\ f.by = e.by \cup {c} /\ f.count = e.count + 1
                  /\ f.until = e.until \/ f.count >= penaltyViolationsThreshold
<1> DEFINE counted == [e EXCEPT !.count = @ + 1, !.by = @ \cup {c}]
           length  == Least(IF e.length = 0 THEN penaltyBaseBanMs
                            ELSE e.length * penaltyBackoffMultiplier, penaltyMaxBanMs)
           f       == AfterViolation(e, c, t)
<1>1. f = IF e.until > t THEN e
          ELSE IF counted.count >= penaltyViolationsThreshold
          THEN [counted EXCEPT !.length = length, !.until = t + length]
          ELSE counted
  BY DEF AfterViolation
<1>2. length \in Nat
  <2>1. /\ e.length \in Nat /\ penaltyBaseBanMs \in Nat /\ penaltyBackoffMultiplier \in Nat
        /\ penaltyMaxBanMs \in Nat
    BY ProtectorAssumption DEF ProtectorAssumption, Offender
  <2>2. e.length * penaltyBackoffMultiplier \in Nat
    BY <2>1
  <2>. QED  BY <2>1, <2>2 DEF Least
<1>. HIDE DEF length
<1>3. /\ counted \in Offender /\ counted.manual = e.manual /\ counted.until = e.until
      /\ counted.by = e.by \cup {c} /\ counted.count = e.count + 1
  <2> DEFINE by    == e.by \cup {c}
             count == e.count + 1
  <2>1. by \in SUBSET Calls /\ count \in Nat /\ counted = [e EXCEPT !.count = count, !.by = by]
    BY DEF Offender
  <2>. HIDE DEF by, count, counted
  <2>2. /\ counted \in Offender /\ counted.manual = e.manual /\ counted.until = e.until
        /\ counted.by = by /\ counted.count = count
    BY <2>1 DEF Offender
  <2>. QED  BY <2>2 DEF by, count
<1>. HIDE DEF counted
<1>4. CASE e.until > t
  BY <1>1, <1>4
<1>5. CASE ~(e.until > t) /\ counted.count >= penaltyViolationsThreshold
  <2> DEFINE until == t + length
  <2>1. until \in Nat /\ f = [counted EXCEPT !.length = length, !.until = until]
    BY <1>1, <1>2, <1>5
  <2>. HIDE DEF until, f
  <2>2. /\ f \in Offender /\ f.manual = counted.manual
        /\ f.by = counted.by /\ f.count = counted.count
    BY <1>2, <1>3, <2>1 DEF Offender
  <2>. QED  BY <1>3, <1>5, <2>2 DEF f
<1>6. CASE ~(e.until > t) /\ ~(counted.count >= penaltyViolationsThreshold)
  BY <1>1, <1>3, <1>6
<1>. QED  BY <1>4, <1>5, <1>6

\* A violation, counted by the clock of the check that found it.
LEMMA ViolationRecorded ==
  ASSUME TypeInv, NEW c \in Calls, RecordViolation(c)
  PROVE  LET ip == Normal[call[c].addr]
             e  == OffenceOf(ip)
         IN  /\ TypeInv' /\ Steps(c, "check", "violating", call[c].noted) /\ call'[c].pc = "done"
             /\ UNCHANGED <<features, now, collector, conn, slow, resets, disposed>>
             /\ \/ penalty' = penalty
                \/ /\ DOMAIN penalty' = DOMAIN penalty \cup {ip}
                   /\ penalty'[ip] = AfterViolation(e, c, call[c].at)
                   /\ \A j \in DOMAIN penalty : j # ip => penalty'[j] = penalty[j]
<1> DEFINE a  == call[c].addr
           ip == Normal[a]
           e  == OffenceOf(ip)
           f  == AfterViolation(e, c, call[c].at)
<1>1. /\ c \in DOMAIN call /\ call[c].op = "check" /\ call[c].pc = "violating"
      /\ UNCHANGED <<features, now, collector, conn, slow, resets, disposed>>
      /\ Moved(c, "done", call[c].noted)
      /\ penalty' = IF "penalty" \in features THEN Put(penalty, ip, f) ELSE penalty
  BY DEF RecordViolation, At
<1>2. a \in Addresses /\ call[c].at \in Nat /\ call[c].noted \in BOOLEAN
  BY <1>1, CallType
<1>3. Steps(c, "check", "violating", call[c].noted) /\ call'[c].pc = "done"
  BY <1>1, <1>2, MovedCall DEF Steps, TypeInv, Pcs
<1>4. f \in Offender
  BY <1>2, OffenceType, ViolationType
<1>5. CASE penalty' = penalty
  <2>1. TypeInv'
    BY <1>1, <1>3, <1>5 DEF TypeInv, PenaltyOK, CollectorOK, Steps
  <2>. QED  BY <1>1, <1>3, <1>5, <2>1
<1>6. CASE penalty' = Put(penalty, Normal[a], f)
  <2>1. /\ PenaltyOK' /\ DOMAIN penalty' = DOMAIN penalty \cup {Normal[a]}
        /\ penalty'[Normal[a]] = f
        /\ \A j \in DOMAIN penalty : j # Normal[a] => penalty'[j] = penalty[j]
    <3>. HIDE DEF f
    <3>. QED  BY <1>2, <1>4, <1>6, Penalised DEF TypeInv
  <2>2. TypeInv'
    BY <1>1, <1>3, <2>1 DEF TypeInv, CollectorOK, Steps
  <2>. QED  BY <1>1, <1>3, <2>1, <2>2
<1>. QED  BY <1>1, <1>5, <1>6

\* An operator's ban.
LEMMA BanPlaced ==
  ASSUME TypeInv, NEW c \in Calls, NEW length \in BanLengths, BanIp(c, length)
  PROVE  LET ip == Normal[call[c].addr]
         IN  /\ TypeInv' /\ Steps(c, "ban", "begun", FALSE) /\ call'[c].pc = "done"
             /\ UNCHANGED <<features, now, collector, conn, slow, resets, disposed>>
             /\ DOMAIN penalty' = DOMAIN penalty \cup {ip} /\ penalty'[ip].manual
             /\ penalty'[ip].by = OffenceOf(ip).by
             /\ \A j \in DOMAIN penalty : j # ip => penalty'[j] = penalty[j]
<1> DEFINE a  == call[c].addr
           ip == Normal[a]
           e  == OffenceOf(ip)
           u  == call[c].at + length
           n  == Greatest(e.count, 1)
           f  == [e EXCEPT !.until = u, !.length = length, !.count = n, !.manual = TRUE]
<1>1. /\ c \in DOMAIN call /\ call[c].op = "ban" /\ call[c].pc = "begun"
      /\ UNCHANGED <<features, now, collector, conn, slow, resets, disposed>>
      /\ Moved(c, "done", FALSE)
      /\ penalty' = Put(penalty, ip, f)
  BY DEF BanIp, At
<1>2. a \in Addresses /\ call[c].at \in Nat
  BY <1>1, CallType
<1>3. Steps(c, "ban", "begun", FALSE) /\ call'[c].pc = "done"
  BY <1>1, MovedCall DEF Steps, TypeInv, Pcs
<1>4. e \in Offender /\ length \in Nat /\ u \in Nat /\ n \in Nat
  BY <1>2, OffenceType, ProtectorAssumption DEF ProtectorAssumption, Offender, Greatest
<1>5. f \in Offender /\ f.manual /\ f.by = e.by
  <2>. HIDE DEF e, u, n
  <2>. QED  BY <1>4 DEF Offender
<1>6. /\ PenaltyOK' /\ DOMAIN penalty' = DOMAIN penalty \cup {Normal[a]}
      /\ penalty'[Normal[a]] = f
      /\ \A j \in DOMAIN penalty : j # Normal[a] => penalty'[j] = penalty[j]
  <2>. HIDE DEF f
  <2>. QED  BY <1>1, <1>2, <1>5, Penalised DEF TypeInv
<1>. HIDE DEF f
<1>7. TypeInv'
  BY <1>1, <1>3, <1>6 DEF TypeInv, CollectorOK, Steps
<1>. QED  BY <1>1, <1>3, <1>5, <1>6, <1>7

LEMMA ResetNoted ==
  ASSUME TypeInv, NEW c \in Calls, OnStreamReset(c)
  PROVE  /\ TypeInv' /\ Steps(c, "reset", "begun", FALSE) /\ call'[c].pc = "done"
         /\ UNCHANGED <<features, now, collector, conn, slow, penalty, disposed>>
<1> DEFINE a     == call[c].addr
           t     == call[c].at
           table == Touched(resets, a, 0)
<1>1. /\ c \in DOMAIN call /\ call[c].op = "reset" /\ call[c].pc = "begun"
      /\ UNCHANGED <<features, now, collector, conn, slow, penalty, disposed>>
      /\ Moved(c, "done", FALSE) /\ resets' = MapSet(table, a, t)
  BY DEF OnStreamReset, At
<1>2. a \in Addresses /\ t \in Nat /\ 0 \in Nat /\ Tracker(resets, Nat)
  BY <1>1, CallType DEF TypeInv
<1>3. Steps(c, "reset", "begun", FALSE) /\ call'[c].pc = "done"
  BY <1>1, MovedCall DEF Steps, TypeInv, Pcs
<1>. HIDE DEF a, t
<1>4. Tracker(table, Nat) /\ a \in DOMAIN table.of
  BY <1>2, TouchedTracker
<1>. HIDE DEF table
<1>5. Within(resets', maxTrackerSize)
  BY <1>1, <1>4, Limit, SetWithin DEF Tracker, MapHas
<1>6. /\ DOMAIN resets'.of = DOMAIN table.of \cup {a} /\ resets'.of[a] = t
      /\ \A j \in DOMAIN table.of : j # a => resets'.of[j] = table.of[j]
  BY <1>1, SetValue
<1>7. Tracker(resets', Nat)
  BY <1>2, <1>4, <1>5, <1>6 DEF Tracker
<1>8. TypeInv'
  BY <1>1, <1>3, <1>7 DEF TypeInv, PenaltyOK, CollectorOK, Steps
<1>. QED  BY <1>1, <1>3, <1>8

-----------------------------------------------------------------------------
(* The collector, the operator and disposal drop entries and change none   *)
(* but the end of a ban.                                                   *)

LEMMA UnbannedType ==
  ASSUME TypeInv, NEW ip \in Addresses, UnbanIp(ip)
  PROVE  /\ TypeInv' /\ ip \in DOMAIN penalty
         /\ UNCHANGED <<features, now, collector, call, conn, slow, resets, disposed>>
         /\ DOMAIN penalty' = DOMAIN penalty
         /\ penalty'[ip].until = 0
         /\ \A j \in DOMAIN penalty :
              /\ j # ip => penalty'[j] = penalty[j]
              /\ penalty'[j].by = penalty[j].by /\ penalty'[j].count = penalty[j].count
              /\ penalty'[j].manual = penalty[j].manual
<1>1. /\ ip \in DOMAIN penalty
      /\ UNCHANGED <<features, now, collector, call, conn, slow, resets, disposed>>
  BY DEF UnbanIp
<1> DEFINE f == [penalty[ip] EXCEPT !.until = 0]
<1>2. penalty[ip] \in Offender
  BY <1>1 DEF TypeInv, PenaltyOK
<1>3. /\ f \in Offender /\ f.until = 0 /\ f.by = penalty[ip].by /\ f.count = penalty[ip].count
      /\ f.manual = penalty[ip].manual
  BY <1>2 DEF Offender
<1>4. penalty' = [penalty EXCEPT ![ip] = f]
  BY DEF UnbanIp
<1>. HIDE DEF f
<1>5. /\ DOMAIN penalty' = DOMAIN penalty /\ penalty'[ip] = f
      /\ \A j \in DOMAIN penalty : j # ip => penalty'[j] = penalty[j]
  BY <1>1, <1>4
<1>6. TypeInv'
  BY <1>1, <1>3, <1>5 DEF TypeInv, PenaltyOK, CallsOK, CollectorOK
<1>. QED  BY <1>1, <1>3, <1>5, <1>6

\* Entries may go, none comes or changes.
Fewer(m, n) == \A j \in DOMAIN n.of : j \in DOMAIN m.of /\ n.of[j] = m.of[j]

FewerPenalties == \A j \in DOMAIN penalty' : j \in DOMAIN penalty /\ penalty'[j] = penalty[j]

LEMMA DisposedType ==
  ASSUME TypeInv, Dispose
  PROVE  /\ TypeInv' /\ UNCHANGED <<features, now, collector, call>>
         /\ Fewer(conn, conn') /\ Fewer(slow, slow') /\ FewerPenalties
<1>1. /\ conn' = EmptyMap /\ slow' = EmptyMap /\ resets' = EmptyMap /\ penalty' = Empty
      /\ disposed' = TRUE /\ UNCHANGED <<features, now, collector, call>>
  BY DEF Dispose
<1>2. \A V : Tracker(EmptyMap, V) /\ DOMAIN EmptyMap.of = {}
  BY EmptyTracker
<1>3. DOMAIN penalty' = {}
  BY <1>1 DEF Empty
<1>4. TypeInv'
  BY <1>1, <1>2, <1>3 DEF TypeInv, PenaltyOK, CallsOK, CollectorOK
<1>. QED  BY <1>1, <1>2, <1>3, <1>4 DEF Fewer, FewerPenalties

LEMMA NextPhaseType ==
  ASSUME CollectorOK, collector.phase \in Phases
  PROVE  /\ NextPhase \in [phase : Phases \cup {"idle"}, at : Nat, keys : SUBSET Addresses]
         /\ NextPhase.keys = {}
<1>1. /\ collector \in [phase : Phases \cup {"idle"}, at : Nat, keys : SUBSET Addresses]
      /\ {} \in SUBSET Addresses
  BY DEF CollectorOK
<1>2. CASE collector.phase = "penalty"
  <2>1. NextPhase = [phase |-> "idle", at |-> 0, keys |-> {}]
    BY <1>2 DEF NextPhase
  <2>. QED  BY <1>1, <2>1
<1>3. CASE collector.phase # "penalty"
  <2>1. PICK phase \in Phases : NextPhase = [collector EXCEPT !.phase = phase, !.keys = {}]
    BY <1>3 DEF NextPhase, Phases
  <2>. QED  BY <1>1, <2>1 DEF Phases
<1>. QED  BY <1>2, <1>3

LEMMA CollectedType ==
  ASSUME TypeInv, GcStart \/ GcCollect
  PROVE  TypeInv' /\ UNCHANGED <<now, call, tables>>
<1>1. UNCHANGED <<now, call, tables>>
  BY DEF GcStart, GcCollect
<1>2. CollectorOK'
  <2>1. CASE GcStart
    BY <2>1 DEF GcStart, CollectorOK, TypeInv, Phases
  <2>2. CASE GcCollect
    <3> DEFINE expired == Expired(collector.phase, collector.at)
    <3>1. collector.phase # "idle" /\ collector.phase \in Phases /\ CollectorOK
      BY <2>2 DEF GcCollect, TypeInv, CollectorOK
    <3>2. expired \subseteq Addresses
      <4>1. /\ DOMAIN conn.of \subseteq Addresses /\ DOMAIN slow.of \subseteq Addresses
            /\ DOMAIN resets.of \subseteq Addresses /\ DOMAIN penalty \subseteq Addresses
        BY ProtectorAssumption DEF TypeInv, Tracker, PenaltyOK, ProtectorAssumption
      <4>. QED  BY <3>1, <4>1 DEF Expired, Phases
    <3>3. CASE collector' = NextPhase
      BY <3>1, <3>3, NextPhaseType DEF CollectorOK
    <3>4. CASE \E keys \in SUBSET expired : collector' = [collector EXCEPT !.keys = keys]
      <4>. HIDE DEF expired
      <4>1. PICK keys \in SUBSET expired : collector' = [collector EXCEPT !.keys = keys]
        BY <3>4
      <4>. QED  BY <3>1, <3>2, <4>1 DEF CollectorOK, Phases
    <3>. QED  BY <2>2, <3>3, <3>4 DEF GcCollect
  <2>. QED  BY <2>1, <2>2
<1>. QED  BY <1>1, <1>2 DEF TypeInv, PenaltyOK, CallsOK, tables

LEMMA DeletedType ==
  ASSUME TypeInv, GcDelete
  PROVE  /\ TypeInv' /\ UNCHANGED <<features, now, call>>
         /\ Fewer(conn, conn') /\ Fewer(slow, slow') /\ FewerPenalties
         /\ \A ip \in DOMAIN penalty :
              ip \notin DOMAIN penalty' => collector.phase = "penalty" /\ ip \in collector.keys
<1> DEFINE keys == collector.keys
<1>1. /\ keys # {} /\ collector' = NextPhase /\ UNCHANGED <<features, now, call, disposed>>
      /\ collector.phase \in Phases
  BY DEF GcDelete, TypeInv, CollectorOK
<1>2. /\ conn' = conn \/ conn' = MapDelete(conn, keys)
      /\ slow' = slow \/ slow' = MapDelete(slow, keys)
      /\ resets' = resets \/ resets' = MapDelete(resets, keys)
      /\ penalty' = penalty \/ (collector.phase = "penalty" /\ penalty' = Drop(penalty, keys))
  BY <1>1 DEF GcDelete, Phases
<1>3. /\ Tracker(conn', Bucket) /\ Fewer(conn, conn')
      /\ Tracker(slow', Stream) /\ Fewer(slow, slow') /\ Tracker(resets', Nat)
  BY <1>2, DeletedTracker DEF TypeInv, Fewer
<1>4. /\ DOMAIN penalty' = DOMAIN penalty \/ (collector.phase = "penalty" /\ DOMAIN penalty' = DOMAIN penalty \ keys)
      /\ FewerPenalties
  BY <1>2 DEF Drop, FewerPenalties
<1>5. PenaltyOK'
  BY <1>4 DEF FewerPenalties, TypeInv, PenaltyOK
<1>6. CollectorOK'
  BY <1>1, NextPhaseType DEF TypeInv, CollectorOK
<1>7. TypeInv'
  BY <1>1, <1>3, <1>5, <1>6 DEF TypeInv, CallsOK
<1>. QED  BY <1>1, <1>3, <1>4, <1>7

LEMMA TickType ==
  ASSUME TypeInv, Tick
  PROVE  TypeInv' /\ now' = now + 1 /\ UNCHANGED <<call, collector, tables>>
BY DEF TypeInv, Tick, tables, PenaltyOK, CallsOK, CollectorOK

-----------------------------------------------------------------------------
(* The types of everything, and the limits of the trackers.                *)

LEMMA TypeInit == Init => TypeInv
<1>. SUFFICES ASSUME Init PROVE TypeInv
  OBVIOUS
<1>1. \A V : Tracker(EmptyMap, V)
  BY EmptyTracker
<1>2. DOMAIN Empty = {}
  BY DEF Empty
<1>. QED  BY <1>1, <1>2 DEF Init, TypeInv, PenaltyOK, CallsOK, CollectorOK

LEMMA TypeNext == TypeInv /\ [Next]_vars => TypeInv'
<1>. SUFFICES ASSUME TypeInv, [Next]_vars PROVE TypeInv'
  OBVIOUS
<1>1. ASSUME NEW c \in Calls, NEW op \in Ops, NEW addr \in Addresses, Begin(c, op, addr)
      PROVE  TypeInv'
  BY <1>1, BegunCall
<1>2. ASSUME NEW c \in Calls, NEW exempt \in BOOLEAN, Admit(c, exempt)
      PROVE  TypeInv'
  BY <1>2, AdmittedCall
<1>3. ASSUME NEW c \in Calls, CheckSlowloris(c)
      PROVE  TypeInv'
  BY <1>3, SlowlorisChecked
<1>4. ASSUME NEW c \in Calls, NEW limit \in Limits, NEW payload \in BOOLEAN,
             CheckConnFlood(c, limit, payload)
      PROVE  TypeInv'
  BY <1>4, ConnFlooded
<1>5. ASSUME NEW c \in Calls, RecordViolation(c)
      PROVE  TypeInv'
  BY <1>5, ViolationRecorded
<1>6. ASSUME NEW c \in Calls, NEW length \in BanLengths, BanIp(c, length)
      PROVE  TypeInv'
  BY <1>6, BanPlaced
<1>7. ASSUME NEW c \in Calls, NEW kind \in Chunks, NEW slowly \in BOOLEAN,
             OnChunk(c, kind, slowly)
      PROVE  TypeInv'
  BY <1>7, ChunkNoted
<1>8. ASSUME NEW c \in Calls, OnStreamReset(c)
      PROVE  TypeInv'
  BY <1>8, ResetNoted
<1>9. ASSUME NEW ip \in Addresses, UnbanIp(ip)
      PROVE  TypeInv'
  BY <1>9, UnbannedType
<1>10. CASE Dispose
  BY <1>10, DisposedType
<1>11. CASE GcStart \/ GcCollect
  BY <1>11, CollectedType
<1>12. CASE GcDelete
  BY <1>12, DeletedType
<1>13. CASE Tick
  BY <1>13, TickType
<1>14. CASE UNCHANGED vars
  BY <1>14 DEF vars, TypeInv, PenaltyOK, CallsOK, CollectorOK
<1>. QED
  BY <1>1, <1>2, <1>3, <1>4, <1>5, <1>6, <1>7, <1>8, <1>9, <1>10, <1>11, <1>12, <1>13, <1>14
  DEF Next

LEMMA TypeInvHolds == Spec => []TypeInv
BY TypeInit, TypeNext, PTL DEF Spec

\* However many threads interleave, every table keeps its type, and no tracker
\* outgrows its limit or lists an address twice.
THEOREM TypeCorrect == Spec => []TrackerTypes
BY TypeInvHolds, TypeInvTypes, PTL

-----------------------------------------------------------------------------
(* Bans are earned.                                                        *)

\* A check that is over.
Served(c) == c \in DOMAIN call /\ call[c].op = "check" /\ call[c].pc = "done"

\* The counter of a client no operator banned is the number of its violations;
\* a ban was asked for by an operator or by that number.
Counted(e) ==
  /\ IsFiniteSet(e.by)
  /\ ~e.manual => e.count = Cardinality(e.by)
  /\ e.until > 0 => e.manual \/ Cardinality(e.by) >= penaltyViolationsThreshold

\* A violation counts when its check ends, which is why none counts twice.
BanInv == \A ip \in DOMAIN penalty :
            Counted(penalty[ip]) /\ \A c \in penalty[ip].by : Served(c)

\* What can touch the penalty box.
LEMMA PenaltySteps ==
  ASSUME [Next]_vars
  PROVE  \/ \E c \in Calls : RecordViolation(c)
         \/ \E c \in Calls, length \in BanLengths : BanIp(c, length)
         \/ \E ip \in Addresses : UnbanIp(ip)
         \/ Dispose \/ GcDelete
         \/ penalty' = penalty
<1>1. CASE UNCHANGED vars
  BY <1>1 DEF vars
<1>2. ASSUME NEW c, NEW op, NEW addr, Begin(c, op, addr)
      PROVE  penalty' = penalty
  BY <1>2 DEF Begin, tables
<1>3. ASSUME NEW c, NEW exempt, Admit(c, exempt)
      PROVE  penalty' = penalty
  BY <1>3 DEF Admit, tables
<1>4. ASSUME NEW c, CheckSlowloris(c)
      PROVE  penalty' = penalty
  BY <1>4 DEF CheckSlowloris
<1>5. ASSUME NEW c, NEW limit, NEW payload, CheckConnFlood(c, limit, payload)
      PROVE  penalty' = penalty
  BY <1>5 DEF CheckConnFlood
<1>6. ASSUME NEW c, NEW kind, NEW slowly, OnChunk(c, kind, slowly)
      PROVE  penalty' = penalty
  BY <1>6 DEF OnChunk
<1>7. ASSUME NEW c, OnStreamReset(c)
      PROVE  penalty' = penalty
  BY <1>7 DEF OnStreamReset
<1>8. GcStart \/ GcCollect \/ Tick => penalty' = penalty
  BY DEF GcStart, GcCollect, Tick, tables
<1>. QED  BY <1>1, <1>2, <1>3, <1>4, <1>5, <1>6, <1>7, <1>8 DEF Next

LEMMA ServedStay ==
  ASSUME TypeInv, [Next]_vars, NEW d, Served(d)
  PROVE  Served(d)'
<1>1. d \in DOMAIN call /\ call[d].op = "check" /\ call[d].pc = "done"
  BY DEF Served
<1>2. ASSUME NEW c, NEW op, NEW from, NEW noted, Steps(c, op, from, noted), from # "done"
      PROVE  Served(d)'
  BY <1>1, <1>2 DEF Steps, Served
<1>3. ASSUME NEW c \in Calls, NEW op \in Ops, NEW addr \in Addresses, Begin(c, op, addr)
      PROVE  Served(d)'
  BY <1>1, <1>3, BegunCall DEF Served
<1>4. ASSUME NEW c \in Calls, NEW exempt \in BOOLEAN, Admit(c, exempt)
      PROVE  Served(d)'
  BY <1>2, <1>4, AdmittedCall
<1>5. ASSUME NEW c \in Calls, CheckSlowloris(c)
      PROVE  Served(d)'
  BY <1>2, <1>5, SlowlorisChecked
<1>6. ASSUME NEW c \in Calls, NEW limit \in Limits, NEW payload \in BOOLEAN,
             CheckConnFlood(c, limit, payload)
      PROVE  Served(d)'
  BY <1>2, <1>6, ConnFlooded
<1>7. ASSUME NEW c \in Calls, RecordViolation(c)
      PROVE  Served(d)'
  BY <1>2, <1>7, ViolationRecorded
<1>8. ASSUME NEW c \in Calls, NEW length \in BanLengths, BanIp(c, length)
      PROVE  Served(d)'
  BY <1>2, <1>8, BanPlaced
<1>9. ASSUME NEW c \in Calls, NEW kind \in Chunks, NEW slowly \in BOOLEAN,
             OnChunk(c, kind, slowly)
      PROVE  Served(d)'
  BY <1>2, <1>9, ChunkNoted
<1>10. ASSUME NEW c \in Calls, OnStreamReset(c)
       PROVE  Served(d)'
  BY <1>2, <1>10, ResetNoted
<1>11. CASE UNCHANGED call
  BY <1>1, <1>11 DEF Served
<1>. QED
  BY <1>3, <1>4, <1>5, <1>6, <1>7, <1>8, <1>9, <1>10, <1>11
  DEF Next, vars, UnbanIp, Dispose, GcStart, GcCollect, GcDelete, Tick

LEMMA BanInit == Init => BanInv
BY DEF Init, BanInv, Empty

LEMMA BanNext == TypeInv /\ BanInv /\ [Next]_vars => BanInv'
<1>. SUFFICES ASSUME TypeInv, BanInv, [Next]_vars, NEW ip \in DOMAIN penalty'
              PROVE  Counted(penalty'[ip]) /\ \A c \in penalty'[ip].by : Served(c)'
  BY DEF BanInv, Counted
<1>1. \A j \in DOMAIN penalty :
        Counted(penalty[j]) /\ \A c \in penalty[j].by : Served(c)'
  BY ServedStay DEF BanInv
<1>2. CASE \E c \in Calls : RecordViolation(c)
  <2>1. PICK c \in Calls : RecordViolation(c)
    BY <1>2
  <2> DEFINE j == Normal[call[c].addr]
             e == OffenceOf(j)
             f == AfterViolation(e, c, call[c].at)
  <2>2. /\ Steps(c, "check", "violating", call[c].noted) /\ call'[c].pc = "done"
        /\ \/ penalty' = penalty
           \/ /\ DOMAIN penalty' = DOMAIN penalty \cup {j} /\ penalty'[j] = f
              /\ \A k \in DOMAIN penalty : k # j => penalty'[k] = penalty[k]
    BY <2>1, ViolationRecorded
  <2>3. Served(c)' /\ ~Served(c)
    BY <2>2 DEF Steps, Served
  <2>4. /\ Counted(e) /\ c \notin e.by /\ \A d \in e.by : Served(d)'
        /\ e \in Offender
    <3>1. CASE j \in DOMAIN penalty
      BY <1>1, <2>3, <3>1, OffenceType DEF BanInv, OffenceOf
    <3>2. CASE j \notin DOMAIN penalty
      <4>1. e = NoOffence /\ e \in Offender
        BY <3>2, OffenceType DEF OffenceOf
      <4>. QED  BY <4>1, FS_EmptySet DEF Counted, NoOffence
    <3>. QED  BY <3>1, <3>2
  <2>5. /\ f.manual = e.manual
        /\ e.until > call[c].at => f = e
        /\ ~(e.until > call[c].at) =>
             /\ f.by = e.by \cup {c} /\ f.count = e.count + 1
             /\ f.until = e.until \/ f.count >= penaltyViolationsThreshold
    <3>1. call[c].at \in Nat
      BY <2>2, CallType DEF Steps
    <3>. QED  BY <2>4, <3>1, ViolationType
  <2>. HIDE DEF e, f
  <2>6. Counted(f) /\ \A d \in f.by : Served(d)'
    <3>1. CASE e.until > call[c].at
      BY <2>4, <2>5, <3>1
    <3>2. CASE ~(e.until > call[c].at)
      <4>1. /\ IsFiniteSet(e.by) /\ e.count \in Nat /\ e.until \in Nat
            /\ penaltyViolationsThreshold \in Nat
        BY <2>4, ProtectorAssumption DEF Counted, Offender, ProtectorAssumption
      <4>2. Cardinality(e.by) \in Nat
        BY <4>1, FS_CardinalityType
      <4>3. IsFiniteSet(f.by) /\ Cardinality(f.by) = Cardinality(e.by) + 1
        BY <2>4, <2>5, <3>2, <4>1, FS_AddElement
      <4>4. Counted(f)
        BY <2>4, <2>5, <3>2, <4>1, <4>2, <4>3 DEF Counted
      <4>. QED  BY <2>3, <2>4, <2>5, <3>2, <4>4
    <3>. QED  BY <3>1, <3>2
  <2>. QED  BY <1>1, <2>2, <2>6
<1>3. CASE \E c \in Calls, length \in BanLengths : BanIp(c, length)
  <2>1. PICK c \in Calls, length \in BanLengths : BanIp(c, length)
    BY <1>3
  <2> DEFINE j == Normal[call[c].addr]
  <2>2. /\ DOMAIN penalty' = DOMAIN penalty \cup {j} /\ penalty'[j].manual
        /\ penalty'[j].by = OffenceOf(j).by
        /\ \A k \in DOMAIN penalty : k # j => penalty'[k] = penalty[k]
    BY <2>1, BanPlaced
  <2>3. IsFiniteSet(OffenceOf(j).by) /\ \A d \in OffenceOf(j).by : Served(d)'
    BY <1>1, FS_EmptySet DEF OffenceOf, NoOffence, Counted
  <2>. QED  BY <1>1, <2>2, <2>3 DEF Counted
<1>4. CASE \E j \in Addresses : UnbanIp(j)
  <2>1. PICK j \in Addresses : UnbanIp(j)
    BY <1>4
  <2>2. /\ DOMAIN penalty' = DOMAIN penalty /\ penalty'[j].until = 0
        /\ \A k \in DOMAIN penalty :
             /\ k # j => penalty'[k] = penalty[k]
             /\ penalty'[k].by = penalty[k].by /\ penalty'[k].count = penalty[k].count
             /\ penalty'[k].manual = penalty[k].manual
    BY <2>1, UnbannedType
  <2>. QED  BY <1>1, <2>2 DEF Counted
<1>5. CASE Dispose \/ GcDelete \/ penalty' = penalty
  <2>1. FewerPenalties
    BY <1>5, DisposedType, DeletedType DEF FewerPenalties
  <2>. QED  BY <1>1, <2>1 DEF FewerPenalties
<1>. QED  BY <1>2, <1>3, <1>4, <1>5, PenaltySteps

\* A client is banned only by an operator or for as many violations as the
\* threshold asks, whatever the interleaving of checks, unbans and collections.
THEOREM BansEarned == Spec => []BanEarned
<1>1. BanInv => BanEarned
  BY DEF BanInv, Counted, BanEarned
<1>. QED  BY <1>1, BanInit, BanNext, TypeInvHolds, PTL DEF Spec

-----------------------------------------------------------------------------
(* Bans stand.                                                             *)

\* No clock that was read is ahead of the clock.
Clocks == now \in Nat /\ \A c \in DOMAIN call : call[c].at <= now

LEMMA ClocksInit == Init => Clocks
BY DEF Init, Clocks, Empty

LEMMA ClocksNext == TypeInv /\ Clocks /\ [Next]_vars => Clocks'
<1>. SUFFICES ASSUME TypeInv, Clocks, [Next]_vars PROVE Clocks'
  OBVIOUS
<1>1. now \in Nat /\ \A c \in DOMAIN call : call[c].at \in Nat /\ call[c].at <= now
  BY CallType DEF Clocks
<1>2. ASSUME NEW c, NEW op, NEW from, NEW noted, Steps(c, op, from, noted), now' = now
      PROVE  Clocks'
  BY <1>1, <1>2 DEF Steps, Clocks
<1>3. ASSUME NEW c \in Calls, NEW op \in Ops, NEW addr \in Addresses, Begin(c, op, addr)
      PROVE  Clocks'
  <2>1. now' = now
    BY <1>3 DEF Begin
  <2>2. /\ DOMAIN call' = DOMAIN call \cup {c} /\ call'[c].at = now
        /\ \A d \in DOMAIN call : call'[d] = call[d]
    BY <1>3, BegunCall
  <2>. QED  BY <1>1, <2>1, <2>2 DEF Clocks
<1>4. ASSUME NEW c \in Calls, NEW exempt \in BOOLEAN, Admit(c, exempt)
      PROVE  Clocks'
  <2>1. now' = now
    BY <1>4 DEF Admit
  <2>. QED  BY <1>2, <1>4, <2>1, AdmittedCall
<1>5. ASSUME NEW c \in Calls, CheckSlowloris(c)
      PROVE  Clocks'
  BY <1>2, <1>5, SlowlorisChecked
<1>6. ASSUME NEW c \in Calls, NEW limit \in Limits, NEW payload \in BOOLEAN,
             CheckConnFlood(c, limit, payload)
      PROVE  Clocks'
  BY <1>2, <1>6, ConnFlooded
<1>7. ASSUME NEW c \in Calls, RecordViolation(c)
      PROVE  Clocks'
  BY <1>2, <1>7, ViolationRecorded
<1>8. ASSUME NEW c \in Calls, NEW length \in BanLengths, BanIp(c, length)
      PROVE  Clocks'
  BY <1>2, <1>8, BanPlaced
<1>9. ASSUME NEW c \in Calls, NEW kind \in Chunks, NEW slowly \in BOOLEAN,
             OnChunk(c, kind, slowly)
      PROVE  Clocks'
  BY <1>2, <1>9, ChunkNoted
<1>10. ASSUME NEW c \in Calls, OnStreamReset(c)
       PROVE  Clocks'
  BY <1>2, <1>10, ResetNoted
<1>11. CASE UNCHANGED <<now, call>>
  BY <1>1, <1>11 DEF Clocks
<1>12. CASE Tick
  BY <1>1, <1>12 DEF Clocks, Tick
<1>. QED
  BY <1>3, <1>4, <1>5, <1>6, <1>7, <1>8, <1>9, <1>10, <1>11, <1>12
  DEF Next, vars, UnbanIp, Dispose, GcStart, GcCollect, GcDelete

\* A ban in force is cut short only by an operator, disposal or a collector that
\* found the entry expired before: a violation recorded under it, by a check
\* with an older clock, leaves it alone.
THEOREM BansStand == Spec => BanCutOnlyBy
<1> DEFINE Cut(ip) == /\ penalty[ip].until > now
                      /\ ip \notin DOMAIN penalty' \/ penalty'[ip].until < penalty[ip].until
           By(ip)  == \/ UnbanIp(ip) \/ Dispose
                      \/ \E c \in Calls, length \in BanLengths :
                           BanIp(c, length) /\ Normal[call[c].addr] = ip
                      \/ GcDelete /\ collector.phase = "penalty" /\ ip \in collector.keys
<1>1. ASSUME TypeInv, Clocks, [Next]_vars, NEW ip \in DOMAIN penalty, Cut(ip)
      PROVE  By(ip)
  <2>1. now \in Nat /\ penalty[ip].until \in Nat
    BY <1>1 DEF TypeInv, PenaltyOK, Offender
  <2>2. ~(ip \in DOMAIN penalty' /\ penalty'[ip] = penalty[ip])
    BY <1>1, <2>1
  <2>3. ~ \E c \in Calls : RecordViolation(c)
    <3>. SUFFICES ASSUME NEW c \in Calls, RecordViolation(c) PROVE FALSE
      OBVIOUS
    <3> DEFINE j == Normal[call[c].addr]
    <3>1. /\ c \in DOMAIN call
          /\ \/ penalty' = penalty
             \/ /\ DOMAIN penalty' = DOMAIN penalty \cup {j}
                /\ penalty'[j] = AfterViolation(OffenceOf(j), c, call[c].at)
                /\ \A k \in DOMAIN penalty : k # j => penalty'[k] = penalty[k]
      BY <1>1, ViolationRecorded DEF Steps
    <3>2. OffenceOf(ip) = penalty[ip] /\ penalty[ip] \in Offender
      BY <1>1 DEF OffenceOf, TypeInv, PenaltyOK
    <3>3. call[c].at \in Nat /\ penalty[ip].until > call[c].at
      BY <1>1, <2>1, <3>1, CallType DEF Clocks
    <3>4. AfterViolation(penalty[ip], c, call[c].at) = penalty[ip]
      BY <3>2, <3>3, ViolationType
    <3>. QED  BY <2>2, <3>1, <3>2, <3>4
  <2>4. ASSUME NEW j \in Addresses, UnbanIp(j)
        PROVE  By(ip)
    <3>1. /\ DOMAIN penalty' = DOMAIN penalty
          /\ \A k \in DOMAIN penalty : k # j => penalty'[k] = penalty[k]
      BY <1>1, <2>4, UnbannedType
    <3>2. j = ip
      BY <2>2, <3>1
    <3>. QED  BY <2>4, <3>2
  <2>5. ASSUME NEW c \in Calls, NEW length \in BanLengths, BanIp(c, length)
        PROVE  By(ip)
    <3> DEFINE j == Normal[call[c].addr]
    <3>1. /\ DOMAIN penalty' = DOMAIN penalty \cup {j}
          /\ \A k \in DOMAIN penalty : k # j => penalty'[k] = penalty[k]
      BY <1>1, <2>5, BanPlaced
    <3>2. j = ip
      BY <2>2, <3>1
    <3>. QED  BY <2>5, <3>2
  <2>6. CASE GcDelete
    <3>1. /\ FewerPenalties
          /\ ip \notin DOMAIN penalty' => collector.phase = "penalty" /\ ip \in collector.keys
      BY <1>1, <2>6, DeletedType
    <3>. QED  BY <2>2, <2>6, <3>1 DEF FewerPenalties
  <2>. QED  BY <1>1, <2>2, <2>3, <2>4, <2>5, <2>6, PenaltySteps
<1>2. TypeInv /\ Clocks /\ [Next]_vars => [\A ip \in DOMAIN penalty : Cut(ip) => By(ip)]_vars
  BY <1>1
<1>. QED  BY <1>2, TypeInvHolds, ClocksInit, ClocksNext, PTL DEF Spec, BanCutOnlyBy

-----------------------------------------------------------------------------
(* A slow stream is reported once.                                         *)

\* The calls about an address that raised its flag or reported it.
Notes(a, ops) == {c \in DOMAIN call : call[c].addr = a /\ call[c].noted /\ call[c].op \in ops}

Flagged(a) == MapHas(slow, a) /\ slow.of[a].flagged

Waiting(a) == IF Flagged(a) THEN 1 ELSE 0

\* A call notes something once: until it has looked at the streams it notes nothing.
NotesInv ==
  /\ IsFiniteSet(DOMAIN call)
  /\ \A c \in DOMAIN call : call[c].pc \in {"begun", "admitted"} => ~call[c].noted

SlowInv ==
  \A a \in Addresses :
    Cardinality(Notes(a, {"check"})) + Waiting(a) <= Cardinality(Notes(a, Chunks))

LEMMA SlowInvReports == SlowInv => SlowReportedOnce
BY DEF SlowInv, SlowReportedOnce, Notes, Waiting, Flagged

\* What a step of a call adds to the notes.
LEMMA NotesStep ==
  ASSUME NotesInv, NEW c, NEW op, NEW from, NEW noted \in BOOLEAN, Steps(c, op, from, noted),
         from \in {"begun", "admitted"} \/ noted = call[c].noted
  PROVE  /\ NotesInv'
         /\ \A a, ops :
              /\ IsFiniteSet(Notes(a, ops)) /\ Cardinality(Notes(a, ops)) \in Nat
              /\ Cardinality(Notes(a, ops)') =
                   IF /\ from \in {"begun", "admitted"} /\ noted
                      /\ a = call[c].addr /\ op \in ops
                   THEN Cardinality(Notes(a, ops)) + 1 ELSE Cardinality(Notes(a, ops))
<1>1. /\ c \in DOMAIN call /\ call[c].op = op /\ call[c].pc = from
      /\ DOMAIN call' = DOMAIN call
      /\ \A d \in DOMAIN call : d # c => call'[d] = call[d]
      /\ call'[c].op = op /\ call'[c].addr = call[c].addr
      /\ call'[c].pc \in Pcs \ {"begun", "admitted"} \/ (from = "begun" /\ ~noted)
      /\ call'[c].noted = noted
      /\ from \in {"begun", "admitted"} => ~call[c].noted
  BY DEF Steps, NotesInv
<1>2. NotesInv'
  BY <1>1 DEF NotesInv, Pcs
<1>3. ASSUME NEW a, NEW ops
      PROVE  /\ IsFiniteSet(Notes(a, ops)) /\ Cardinality(Notes(a, ops)) \in Nat
             /\ Cardinality(Notes(a, ops)') =
                  IF /\ from \in {"begun", "admitted"} /\ noted
                     /\ a = call[c].addr /\ op \in ops
                  THEN Cardinality(Notes(a, ops)) + 1 ELSE Cardinality(Notes(a, ops))
  <2> DEFINE N   == Notes(a, ops)
             new == from \in {"begun", "admitted"} /\ noted /\ a = call[c].addr /\ op \in ops
  <2>1. IsFiniteSet(N) /\ Cardinality(N) \in Nat
    <3>1. N \subseteq DOMAIN call
      BY DEF Notes
    <3>. QED  BY <3>1, FS_Subset, FS_CardinalityType DEF NotesInv
  <2>2. new => c \notin N /\ Notes(a, ops)' = N \cup {c}
    BY <1>1 DEF Notes
  <2>3. ~new => Notes(a, ops)' = N
    BY <1>1 DEF Notes
  <2>. HIDE DEF N
  <2>4. c \notin N => Cardinality(N \cup {c}) = Cardinality(N) + 1
    BY <2>1, FS_AddElement
  <2>. QED  BY <2>1, <2>2, <2>3, <2>4 DEF N
<1>. QED  BY <1>2, <1>3

LEMMA NotesType ==
  ASSUME NotesInv, NEW a, NEW ops
  PROVE  IsFiniteSet(Notes(a, ops)) /\ Cardinality(Notes(a, ops)) \in Nat
<1>1. Notes(a, ops) \subseteq DOMAIN call
  BY DEF Notes
<1>. QED  BY <1>1, FS_Subset, FS_CardinalityType DEF NotesInv

\* When notes stay and flags may only go, nothing is at stake.
LEMMA NotesKept ==
  ASSUME NotesInv, SlowInv, NotesInv',
         \A a \in Addresses : Flagged(a)' => Flagged(a),
         \A a \in Addresses : \A ops \in {{"check"}, Chunks} :
           Cardinality(Notes(a, ops)') = Cardinality(Notes(a, ops))
  PROVE  SlowInv'
<1>. SUFFICES ASSUME NEW a \in Addresses
              PROVE  Cardinality(Notes(a, {"check"})') + Waiting(a)' <= Cardinality(Notes(a, Chunks)')
  BY DEF SlowInv, Chunks
<1>1. Cardinality(Notes(a, {"check"})) + Waiting(a) <= Cardinality(Notes(a, Chunks))
  BY DEF SlowInv
<1>2. Cardinality(Notes(a, {"check"})) \in Nat /\ Cardinality(Notes(a, Chunks)) \in Nat
  BY NotesType
<1>3. Waiting(a) \in {0, 1} /\ Waiting(a)' \in {0, 1} /\ Waiting(a)' <= Waiting(a)
  BY DEF Waiting
<1>. QED  BY <1>1, <1>2, <1>3

LEMMA FewerFlags ==
  ASSUME Fewer(slow, slow'), NEW a, Flagged(a)' PROVE Flagged(a)
BY DEF Fewer, Flagged, MapHas

LEMMA SlowInit == Init => NotesInv /\ SlowInv
<1>. SUFFICES ASSUME Init PROVE NotesInv /\ SlowInv
  OBVIOUS
<1>1. DOMAIN call = {} /\ slow = EmptyMap /\ DOMAIN slow.of = {}
  BY EmptyTracker DEF Init, Empty
<1>2. NotesInv
  BY <1>1, FS_EmptySet DEF NotesInv
<1>3. \A a, ops : Notes(a, ops) = {}
  BY <1>1 DEF Notes
<1>4. \A a : Waiting(a) = 0
  BY <1>1 DEF Waiting, Flagged, MapHas
<1>. QED  BY <1>2, <1>3, <1>4, FS_EmptySet DEF SlowInv

LEMMA SlowNext == TypeInv /\ NotesInv /\ SlowInv /\ [Next]_vars => NotesInv' /\ SlowInv'
<1>. SUFFICES ASSUME TypeInv, NotesInv, SlowInv, [Next]_vars
              PROVE  NotesInv' /\ SlowInv'
  OBVIOUS
\* A step that notes nothing new and lets the streams alone.
<1>1. ASSUME NEW c, NEW op, NEW from, NEW noted \in BOOLEAN, Steps(c, op, from, noted),
             (from \in {"begun", "admitted"} /\ ~noted)
               \/ (from \notin {"begun", "admitted"} /\ noted = call[c].noted),
             slow' = slow
      PROVE  NotesInv' /\ SlowInv'
  <2>1. NotesInv'
    BY <1>1, NotesStep
  <2>2. \A a, ops : Cardinality(Notes(a, ops)') = Cardinality(Notes(a, ops))
    BY <1>1, NotesStep
  <2>3. \A a : Flagged(a)' => Flagged(a)
    BY <1>1 DEF Flagged
  <2>. QED  BY <2>1, <2>2, <2>3, NotesKept
<1>2. ASSUME UNCHANGED call, Fewer(slow, slow')
      PROVE  NotesInv' /\ SlowInv'
  <2>1. NotesInv' /\ \A a, ops : Notes(a, ops)' = Notes(a, ops)
    BY <1>2 DEF NotesInv, Notes
  <2>. QED  BY <1>2, <2>1, FewerFlags, NotesKept
<1>3. ASSUME NEW c \in Calls, NEW op \in Ops, NEW addr \in Addresses, Begin(c, op, addr)
      PROVE  NotesInv' /\ SlowInv'
  <2>1. /\ c \notin DOMAIN call /\ DOMAIN call' = DOMAIN call \cup {c}
        /\ \A d \in DOMAIN call : call'[d] = call[d]
        /\ call'[c].noted = FALSE /\ slow' = slow
    BY <1>3, BegunCall DEF Begin, tables
  <2>2. NotesInv'
    BY <2>1, FS_AddElement DEF NotesInv
  <2>3. \A a, ops : Notes(a, ops)' = Notes(a, ops)
    BY <2>1 DEF Notes
  <2>4. \A a : Flagged(a)' => Flagged(a)
    BY <2>1 DEF Flagged
  <2>. QED  BY <2>2, <2>3, <2>4, NotesKept
<1>4. ASSUME NEW c \in Calls, NEW exempt \in BOOLEAN, Admit(c, exempt)
      PROVE  NotesInv' /\ SlowInv'
  BY <1>1, <1>4, AdmittedCall DEF Admit, tables
<1>5. ASSUME NEW c \in Calls, CheckSlowloris(c)
      PROVE  NotesInv' /\ SlowInv'
  <2>. PICK b : b = call[c].addr
    OBVIOUS
  <2> DEFINE flag == "slowloris" \in features /\ MapHas(slow, b) /\ slow.of[b].flagged
  <2>1. /\ Steps(c, "check", "admitted", flag)
        /\ \A j \in DOMAIN slow'.of : j # b => j \in DOMAIN slow.of /\ slow'.of[j] = slow.of[j]
        /\ "slowloris" \in features => b \in DOMAIN slow'.of /\ ~slow'.of[b].flagged
        /\ "slowloris" \notin features => slow' = slow
    BY <1>5, SlowlorisChecked
  <2>2. /\ flag \in BOOLEAN
        /\ flag => Flagged(b) /\ ~Flagged(b)'
        /\ \A j : Flagged(j)' => Flagged(j)
    <3>1. flag \in BOOLEAN
      <4>1. Flagged(b) \in BOOLEAN
        BY DEF TypeInv, Tracker, Stream, Flagged, MapHas
      <4>. QED  BY <4>1 DEF Flagged
    <3>2. flag => Flagged(b) /\ ~Flagged(b)'
      BY <2>1 DEF Flagged
    <3>3. ASSUME NEW j, Flagged(j)' PROVE Flagged(j)
      BY <2>1, <3>3 DEF Flagged, MapHas
    <3>. QED  BY <3>1, <3>2, <3>3
  <2>. HIDE DEF flag
  <2>3. /\ NotesInv'
        /\ \A a, ops :
             /\ Cardinality(Notes(a, ops)) \in Nat
             /\ Cardinality(Notes(a, ops)') =
                  IF flag /\ a = b /\ "check" \in ops
                  THEN Cardinality(Notes(a, ops)) + 1 ELSE Cardinality(Notes(a, ops))
    BY <2>1, <2>2, NotesStep
  <2>4. ASSUME NEW a \in Addresses
        PROVE  Cardinality(Notes(a, {"check"})') + Waiting(a)' <= Cardinality(Notes(a, Chunks)')
    <3>1. Cardinality(Notes(a, {"check"})) + Waiting(a) <= Cardinality(Notes(a, Chunks))
      BY DEF SlowInv
    <3>2. Cardinality(Notes(a, Chunks)') = Cardinality(Notes(a, Chunks))
      BY <2>3 DEF Chunks
    <3>3. Waiting(a) \in {0, 1} /\ Waiting(a)' \in {0, 1} /\ Waiting(a)' <= Waiting(a)
      BY <2>2 DEF Waiting
    <3>4. flag /\ a = b => Waiting(a) = 1 /\ Waiting(a)' = 0
      BY <2>2 DEF Waiting
    <3>5. Cardinality(Notes(a, {"check"})') =
            IF flag /\ a = b
            THEN Cardinality(Notes(a, {"check"})) + 1 ELSE Cardinality(Notes(a, {"check"}))
      BY <2>3
    <3>. QED  BY <2>3, <3>1, <3>2, <3>3, <3>4, <3>5
  <2>. QED  BY <2>3, <2>4 DEF SlowInv, Chunks
<1>6. ASSUME NEW c \in Calls, NEW limit \in Limits, NEW payload \in BOOLEAN,
             CheckConnFlood(c, limit, payload)
      PROVE  NotesInv' /\ SlowInv'
  <2>1. Steps(c, "check", "streamed", call[c].noted) /\ slow' = slow
    BY <1>6, ConnFlooded
  <2>2. call[c].noted \in BOOLEAN
    BY <2>1, CallType DEF Steps
  <2>. QED  BY <1>1, <2>1, <2>2
<1>7. ASSUME NEW c \in Calls, RecordViolation(c)
      PROVE  NotesInv' /\ SlowInv'
  <2>1. Steps(c, "check", "violating", call[c].noted) /\ slow' = slow
    BY <1>7, ViolationRecorded
  <2>2. call[c].noted \in BOOLEAN
    BY <2>1, CallType DEF Steps
  <2>. QED  BY <1>1, <2>1, <2>2
<1>8. ASSUME NEW c \in Calls, NEW length \in BanLengths, BanIp(c, length)
      PROVE  NotesInv' /\ SlowInv'
  BY <1>1, <1>8, BanPlaced
<1>9. ASSUME NEW c \in Calls, NEW kind \in Chunks, NEW slowly \in BOOLEAN,
             OnChunk(c, kind, slowly)
      PROVE  NotesInv' /\ SlowInv'
  <2>. PICK b : b = call[c].addr
    OBVIOUS
  <2>1. PICK late \in BOOLEAN :
          /\ Steps(c, kind, "begun", late)
          /\ \A j \in DOMAIN slow'.of : j # b => j \in DOMAIN slow.of /\ slow'.of[j] = slow.of[j]
          /\ slow'.of[b].flagged = ((MapHas(slow, b) /\ slow.of[b].flagged) \/ late)
    BY <1>9, ChunkNoted
  <2>2. \A j : Flagged(j)' => Flagged(j) \/ (j = b /\ late)
    BY <2>1 DEF Flagged, MapHas
  <2>3. /\ NotesInv'
        /\ \A a, ops :
             /\ Cardinality(Notes(a, ops)) \in Nat
             /\ Cardinality(Notes(a, ops)') =
                  IF late /\ a = b /\ kind \in ops
                  THEN Cardinality(Notes(a, ops)) + 1 ELSE Cardinality(Notes(a, ops))
    BY <2>1, NotesStep
  <2>4. ASSUME NEW a \in Addresses
        PROVE  Cardinality(Notes(a, {"check"})') + Waiting(a)' <= Cardinality(Notes(a, Chunks)')
    <3>1. Cardinality(Notes(a, {"check"})) + Waiting(a) <= Cardinality(Notes(a, Chunks))
      BY DEF SlowInv
    <3>2. Cardinality(Notes(a, {"check"})') = Cardinality(Notes(a, {"check"}))
      BY <2>3 DEF Chunks
    <3>3. Waiting(a) \in {0, 1} /\ Waiting(a)' \in {0, 1}
      BY DEF Waiting
    <3>4. ~(late /\ a = b) => Waiting(a)' <= Waiting(a)
      BY <2>2 DEF Waiting
    <3>5. Cardinality(Notes(a, Chunks)') =
            IF late /\ a = b
            THEN Cardinality(Notes(a, Chunks)) + 1 ELSE Cardinality(Notes(a, Chunks))
      BY <2>3
    <3>. QED  BY <2>3, <3>1, <3>2, <3>3, <3>4, <3>5
  <2>. QED  BY <2>3, <2>4 DEF SlowInv, Chunks
<1>10. ASSUME NEW c \in Calls, OnStreamReset(c)
       PROVE  NotesInv' /\ SlowInv'
  BY <1>1, <1>10, ResetNoted
<1>11. CASE Dispose \/ GcDelete
  BY <1>2, <1>11, DisposedType, DeletedType
<1>12. CASE UNCHANGED <<call, slow>>
  BY <1>2, <1>12 DEF Fewer
<1>. QED
  BY <1>3, <1>4, <1>5, <1>6, <1>7, <1>8, <1>9, <1>10, <1>11, <1>12
  DEF Next, vars, tables, UnbanIp, GcStart, GcCollect, Tick

\* A slow stream is reported once: for each report, and the flag that waits, a
\* chunk of that address came too late, whichever threads took turns.
THEOREM SlowReported == Spec => []SlowReportedOnce
<1>1. Spec => [](NotesInv /\ SlowInv)
  BY SlowInit, SlowNext, TypeInvHolds, PTL DEF Spec
<1>. QED  BY <1>1, SlowInvReports, PTL

-----------------------------------------------------------------------------
(* The token buckets.                                                      *)

\* A limit, with what is refilled in span ms, makes k requests.
Room(k, span) == \E limit \in Limits : k <= limit + RefillPerMs * span

\* The requests from the i-th on, with the tokens that are left, are no more
\* than a limit and what was refilled since; each stretch that a request ends
\* has kept the promise.
BucketOK(e) ==
  /\ Room(e.tokens, 0)
  /\ \A i \in DOMAIN e.passes :
       Room(e.tokens + (Len(e.passes) - i + 1), e.refilled - e.passes[i])
  /\ \A i, j \in DOMAIN e.passes :
       i <= j => Room(j - i + 1, e.passes[j] - e.passes[i])

RateInv == \A a \in DOMAIN conn.of : BucketOK(conn.of[a])

LEMMA LimitsType == Limits \subseteq Nat /\ RefillPerMs \in Nat
BY ProtectorAssumption DEF ProtectorAssumption

LEMMA LessRoom ==
  ASSUME NEW k \in Int, NEW l \in Int, NEW span \in Int, l <= k, Room(k, span)
  PROVE  Room(l, span)
<1>1. PICK limit \in Limits : k <= limit + RefillPerMs * span
  BY DEF Room
<1> DEFINE more == RefillPerMs * span
<1>2. more \in Int /\ k <= limit + more /\ limit \in Int
  BY <1>1, LimitsType
<1>. HIDE DEF more
<1>3. l <= limit + more
  BY <1>2
<1>. QED  BY <1>3 DEF Room, more

LEMMA MoreRoom ==
  ASSUME NEW k \in Int, NEW span \in Int, NEW d \in Int, Room(k, span)
  PROVE  Room(k + d * RefillPerMs, span + d)
<1>1. PICK limit \in Limits : k <= limit + RefillPerMs * span
  BY DEF Room
<1> DEFINE was  == RefillPerMs * span
           more == d * RefillPerMs
           is   == RefillPerMs * (span + d)
<1>2. was \in Int /\ more \in Int /\ is = was + more /\ k <= limit + was /\ limit \in Int
  BY <1>1, LimitsType
<1>. HIDE DEF was, more, is
<1>3. k + more <= limit + is
  BY <1>2
<1>. QED  BY <1>3 DEF Room, more, is

LEMMA LimitRoom == ASSUME NEW k \in Int, NEW limit \in Limits, k <= limit PROVE Room(k, 0)
<1>1. RefillPerMs * 0 = 0 /\ limit \in Nat
  BY LimitsType
<1>. QED  BY <1>1 DEF Room

LEMMA BucketFields ==
  ASSUME NEW e \in Bucket
  PROVE  /\ e.tokens \in Int /\ e.refilled \in Nat /\ e.passes \in Seq(Nat)
         /\ Len(e.passes) \in Nat /\ DOMAIN e.passes = 1 .. Len(e.passes)
         /\ \A i \in DOMAIN e.passes : e.passes[i] \in Nat
<1>1. e.tokens \in Int /\ e.refilled \in Nat /\ e.passes \in Seq(Nat)
  BY DEF Bucket
<1>. QED  BY <1>1, LenProperties, ElementOfSeq

\* A refill adds as much to what is allowed as to what is left.
LEMMA RefilledBound ==
  ASSUME NEW e \in Bucket, BucketOK(e), NEW t \in Nat, NEW limit \in Limits
  PROVE  BucketOK(Refilled(e, t, limit))
<1>1. CASE ~(t > e.refilled)
  <2>1. Refilled(e, t, limit) = e
    BY <1>1 DEF Refilled
  <2>. QED  BY <2>1
<1>2. CASE t > e.refilled
  <2> DEFINE f    == Refilled(e, t, limit)
             d    == t - e.refilled
             more == d * RefillPerMs
             n    == Len(e.passes)
  <2>1. /\ e.tokens \in Int /\ e.refilled \in Nat /\ limit \in Nat
        /\ n \in Nat /\ DOMAIN e.passes = 1 .. n
        /\ \A i \in DOMAIN e.passes : e.passes[i] \in Nat
    BY BucketFields, LimitsType
  <2>2. d \in Int /\ more \in Int
    BY <2>1, LimitsType
  <2>3. f.passes = e.passes /\ f.refilled = t /\ f.tokens = Least(e.tokens + more, limit)
    BY <1>2 DEF Refilled, Bucket
  <2>. HIDE DEF more, f
  <2>4. f.tokens \in Int /\ f.tokens <= limit /\ f.tokens <= e.tokens + more
    BY <2>1, <2>2, <2>3 DEF Least
  <2>5. Room(f.tokens, 0)
    BY <2>4, LimitRoom
  <2>6. ASSUME NEW i \in DOMAIN e.passes
        PROVE  Room(f.tokens + (n - i + 1), t - e.passes[i])
    <3> DEFINE k    == e.tokens + (n - i + 1)
               span == e.refilled - e.passes[i]
    <3>1. k \in Int /\ span \in Int /\ Room(k, span)
      BY <2>1, <2>6 DEF BucketOK
    <3>2. Room(k + more, span + d)
      <4>. HIDE DEF k, span, d
      <4>. QED  BY <2>2, <3>1, MoreRoom DEF more
    <3>3. span + d = t - e.passes[i] /\ t - e.passes[i] \in Int
      BY <2>1, <2>6
    <3>4. f.tokens + (n - i + 1) \in Int /\ k + more \in Int /\ f.tokens + (n - i + 1) <= k + more
      <4>1. n \in Nat /\ i \in Nat /\ e.tokens \in Int
        BY <2>1, <2>6
      <4>. HIDE DEF n
      <4>. QED  BY <2>2, <2>4, <4>1
    <3>. HIDE DEF k, span, d, n
    <3>. QED  BY <3>2, <3>3, <3>4, LessRoom
  <2>7. BucketOK(f)
    BY <2>3, <2>5, <2>6 DEF BucketOK
  <2>. QED  BY <2>7 DEF f
<1>. QED  BY <1>1, <1>2

\* A token spent on one request more leaves tokens and requests the same number.
LEMMA OneSpent ==
  ASSUME NEW k \in Int, 1 <= k, NEW n \in Nat, NEW i \in Nat, i <= n, NEW l, l = k - 1
  PROVE  /\ l + ((n + 1) - i + 1) = k + (n - i + 1)
         /\ (n + 1) - i + 1 \in Int /\ k + (n - i + 1) \in Int
         /\ (n + 1) - i + 1 <= k + (n - i + 1)
OBVIOUS

\* A request takes a token and, when it is let through, is one more.
LEMMA SpentBound ==
  ASSUME NEW e \in Bucket, BucketOK(e)
  PROVE  BucketOK(Spent(e))
<1> DEFINE f == Spent(e)
           n == Len(e.passes)
<1>0. e.tokens \in Int
  BY BucketFields
<1>1. /\ e.tokens \in Int /\ e.refilled \in Nat /\ e.passes \in Seq(Nat)
      /\ n \in Nat /\ DOMAIN e.passes = 1 .. n
      /\ \A i \in DOMAIN e.passes : e.passes[i] \in Nat
  BY BucketFields
<1>2. /\ f.tokens = e.tokens - 1 /\ f.refilled = e.refilled
      /\ f.passes = IF e.tokens < 1 THEN e.passes ELSE Append(e.passes, e.refilled)
  BY DEF Spent, Bucket
<1>3. Room(e.tokens, 0)
  BY DEF BucketOK
<1>4. \A i \in DOMAIN e.passes :
        Room(e.tokens + (n - i + 1), e.refilled - e.passes[i])
  BY DEF BucketOK
<1>5. \A i, j \in DOMAIN e.passes : i <= j => Room(j - i + 1, e.passes[j] - e.passes[i])
  BY DEF BucketOK
<1>. HIDE DEF f
<1>6. Room(f.tokens, 0)
  BY <1>1, <1>2, <1>3, LessRoom
<1>7. CASE e.tokens < 1
  <2>1. ASSUME NEW i \in DOMAIN e.passes
        PROVE  Room(f.tokens + (n - i + 1), e.refilled - e.passes[i])
    <3>1. /\ e.tokens + (n - i + 1) \in Int /\ f.tokens + (n - i + 1) \in Int
          /\ f.tokens + (n - i + 1) <= e.tokens + (n - i + 1)
      <4>1. n \in Nat /\ i \in Nat
        BY <1>1, <2>1
      <4>. HIDE DEF n
      <4>. QED  BY <1>0, <1>2, <4>1
    <3>2. e.refilled - e.passes[i] \in Int
      BY <1>1, <2>1
    <3>. QED  BY <1>4, <2>1, <3>1, <3>2, LessRoom
  <2>2. f.passes = e.passes
    BY <1>2, <1>7
  <2>. QED  BY <1>2, <1>5, <1>6, <2>1, <2>2 DEF BucketOK, f
<1>8. CASE ~(e.tokens < 1)
  <2>1. /\ f.passes = Append(e.passes, e.refilled) /\ Len(f.passes) = n + 1
        /\ DOMAIN f.passes = 1 .. (n + 1) /\ f.passes[n + 1] = e.refilled
        /\ \A i \in 1 .. n : f.passes[i] = e.passes[i]
    BY <1>1, <1>2, <1>8, AppendProperties
  <2>. HIDE DEF n
  <2>2. ASSUME NEW i \in DOMAIN f.passes
        PROVE  /\ Room(f.tokens + ((n + 1) - i + 1), e.refilled - f.passes[i])
               /\ Room((n + 1) - i + 1, e.refilled - f.passes[i])
    <3>1. CASE i = n + 1
      <4>1. /\ f.tokens + ((n + 1) - i + 1) = e.tokens /\ (n + 1) - i + 1 = 1 /\ 1 <= e.tokens
            /\ e.refilled - f.passes[i] = 0
        BY <1>1, <1>2, <1>8, <2>1, <3>1
      <4>. QED  BY <1>1, <1>3, <4>1, LessRoom
    <3>2. CASE i \in 1 .. n
      <4>1. /\ f.tokens + ((n + 1) - i + 1) = e.tokens + (n - i + 1)
            /\ (n + 1) - i + 1 \in Int /\ e.tokens + (n - i + 1) \in Int
            /\ (n + 1) - i + 1 <= e.tokens + (n - i + 1)
        <5>1. n \in Nat /\ i \in Nat /\ i <= n
          BY <1>1, <3>2
        <5>2. f.tokens = e.tokens - 1
          BY <1>2
        <5>3. 1 <= e.tokens
          BY <1>0, <1>8
        <5>. QED  BY <1>0, <5>1, <5>2, <5>3, OneSpent
      <4>2. /\ Room(e.tokens + (n - i + 1), e.refilled - f.passes[i])
            /\ e.refilled - f.passes[i] \in Int
        <5>1. i \in DOMAIN e.passes /\ f.passes[i] = e.passes[i]
          BY <1>1, <2>1, <3>2
        <5>2. e.refilled \in Nat /\ e.passes[i] \in Nat
          BY <1>1, <5>1
        <5>3. e.refilled - e.passes[i] \in Int
          BY <5>2
        <5>. QED  BY <1>4, <5>1, <5>3
      <4>. QED  BY <4>1, <4>2, LessRoom
    <3>3. i \in 1 .. (n + 1) /\ n \in Nat
      BY <1>1, <2>1, <2>2
    <3>4. i = n + 1 \/ i \in 1 .. n
      BY <3>3
    <3>. QED  BY <3>1, <3>2, <3>4
  <2>3. ASSUME NEW i \in DOMAIN f.passes, NEW j \in DOMAIN f.passes, i <= j
        PROVE  Room(j - i + 1, f.passes[j] - f.passes[i])
    <3>1. CASE j = n + 1
      BY <2>1, <2>2, <2>3, <3>1
    <3>2. CASE j \in 1 .. n
      <4>1. i \in DOMAIN e.passes /\ j \in DOMAIN e.passes
        BY <1>1, <2>1, <2>3, <3>2
      <4>. QED  BY <1>1, <1>5, <2>1, <2>3, <4>1
    <3>. QED  BY <1>1, <2>1, <2>3, <3>1, <3>2
  <2>. QED  BY <1>2, <1>6, <2>1, <2>2, <2>3 DEF BucketOK, f
<1>. QED  BY <1>7, <1>8

LEMMA RateInit == Init => RateInv
BY EmptyTracker DEF Init, RateInv

LEMMA RateNext == TypeInv /\ RateInv /\ [Next]_vars => RateInv'
<1>. SUFFICES ASSUME TypeInv, RateInv, [Next]_vars PROVE RateInv'
  OBVIOUS
<1>1. Fewer(conn, conn') => RateInv'
  BY DEF Fewer, RateInv
<1>2. ASSUME NEW c \in Calls, NEW limit \in Limits, NEW payload \in BOOLEAN,
             CheckConnFlood(c, limit, payload)
      PROVE  RateInv'
  <2>. PICK a, t : a = call[c].addr /\ t = call[c].at
    OBVIOUS
  <2>1. CASE conn' = conn
    BY <1>1, <2>1 DEF Fewer
  <2>2. CASE \E b \in Bucket :
               /\ b = Fresh(limit, t) \/ (a \in DOMAIN conn.of /\ b = conn.of[a])
               /\ conn'.of[a] = Spent(Refilled(b, t, limit))
               /\ \A j \in DOMAIN conn'.of :
                    j # a => j \in DOMAIN conn.of /\ conn'.of[j] = conn.of[j]
    <3>1. PICK b \in Bucket :
               /\ b = Fresh(limit, t) \/ (a \in DOMAIN conn.of /\ b = conn.of[a])
               /\ conn'.of[a] = Spent(Refilled(b, t, limit))
               /\ \A j \in DOMAIN conn'.of :
                    j # a => j \in DOMAIN conn.of /\ conn'.of[j] = conn.of[j]
      BY <2>2
    <3>2. BucketOK(Fresh(limit, t))
      <4>1. DOMAIN Fresh(limit, t).passes = {} /\ Fresh(limit, t).tokens = limit
        BY DEF Fresh
      <4>2. Room(limit, 0)
        BY LimitsType, LimitRoom
      <4>. QED  BY <4>1, <4>2 DEF BucketOK
    <3>3. BucketOK(b)
      BY <3>1, <3>2 DEF RateInv
    <3>4. t \in Nat
      BY <1>2, ConnFlooded
    <3>5. Refilled(b, t, limit) \in Bucket /\ BucketOK(Refilled(b, t, limit))
      BY <3>3, <3>4, RefilledType, RefilledBound
    <3>6. BucketOK(conn'.of[a])
      BY <3>1, <3>5, SpentBound
    <3>. QED  BY <3>1, <3>6 DEF RateInv, BucketOK
  <2>. QED  BY <1>2, <2>1, <2>2, ConnFlooded
<1>3. CASE Dispose \/ GcDelete
  BY <1>1, <1>3, DisposedType, DeletedType
<1>4. CASE conn' = conn
  BY <1>1, <1>4 DEF Fewer
<1>5. ASSUME NEW c, NEW op, NEW addr, Begin(c, op, addr)
      PROVE  conn' = conn
  BY <1>5 DEF Begin, tables
<1>6. ASSUME NEW c, NEW exempt, Admit(c, exempt)
      PROVE  conn' = conn
  BY <1>6 DEF Admit, tables
<1>7. ASSUME NEW c, CheckSlowloris(c)
      PROVE  conn' = conn
  BY <1>7 DEF CheckSlowloris
<1>8. ASSUME NEW c, RecordViolation(c)
      PROVE  conn' = conn
  BY <1>8 DEF RecordViolation
<1>9. ASSUME NEW c, NEW length, BanIp(c, length)
      PROVE  conn' = conn
  BY <1>9 DEF BanIp
<1>10. ASSUME NEW c, NEW kind, NEW slowly, OnChunk(c, kind, slowly)
       PROVE  conn' = conn
  BY <1>10 DEF OnChunk
<1>11. ASSUME NEW c, OnStreamReset(c)
       PROVE  conn' = conn
  BY <1>11 DEF OnStreamReset
<1>12. ASSUME NEW ip, UnbanIp(ip)
       PROVE  conn' = conn
  BY <1>12 DEF UnbanIp
<1>13. GcStart \/ GcCollect \/ Tick \/ UNCHANGED vars => conn' = conn
  BY DEF GcStart, GcCollect, Tick, tables, vars
<1>. QED
  BY <1>2, <1>3, <1>4, <1>5, <1>6, <1>7, <1>8, <1>9, <1>10, <1>11, <1>12, <1>13 DEF Next

\* As long as an address keeps its bucket, the requests let through in any
\* stretch are no more than the largest limit and what that stretch refilled,
\* though threads bring clocks out of order.
THEOREM RateHolds == Spec => []RateBound
<1>1. RateInv => RateBound
  BY DEF RateInv, BucketOK, Room, RateBound
<1>. QED  BY <1>1, RateInit, RateNext, TypeInvHolds, PTL DEF Spec

-----------------------------------------------------------------------------
(* The JavaScript protection, beside this one.                             *)

Script == INSTANCE DdosProtectionProofs WITH MaxTime <- SingleMaxTime, now <- clock

LEMMA ScriptLimits == Script!DdosAssumption
BY SingleAssumption DEF Single!DdosAssumption, Script!DdosAssumption

LEMMA ScriptInit == Single!Init => Script!Init
BY DEF Single!Init, Script!Init, Single!Empty, Script!Empty, Single!EmptyMap, Script!EmptyMap

LEMMA ScriptStarts ==
  ASSUME NEW r \in Requests, NEW ip \in IPs, NEW kind \in Single!Kinds
  PROVE  kind \in Script!Kinds /\ (Single!Start(r, ip, kind) <=> Script!Start(r, ip, kind))
BY DEF Single!Kinds, Script!Kinds, Single!Start, Script!Start, Single!Put, Script!Put,
   Single!Cardinality, Script!Cardinality

LEMMA ScriptChecks ==
  ASSUME NEW r \in Requests
  PROVE  /\ Single!CheckSlowloris(r) <=> Script!CheckSlowloris(r)
         /\ Single!CheckConnectionFlood(r) <=> Script!CheckConnectionFlood(r)
BY DEF Single!CheckSlowloris, Script!CheckSlowloris,
   Single!CheckConnectionFlood, Script!CheckConnectionFlood,
   Single!Stage, Script!Stage, Single!WithRoom, Script!WithRoom, Single!Recent, Script!Recent,
   Single!Woken, Script!Woken, Single!Released, Script!Released, Single!Lost, Script!Lost,
   Single!Put, Script!Put, Single!Drop, Script!Drop, Single!MapHas, Script!MapHas,
   Single!MapSize, Script!MapSize, Single!MapSet, Script!MapSet, Single!MapDelete,
   Script!MapDelete, Single!MapDeleteFirst, Script!MapDeleteFirst, Single!Without,
   Script!Without, Single!Cardinality, Script!Cardinality

LEMMA ScriptCollects == Single!Collect <=> Script!Collect
BY DEF Single!Collect, Script!Collect, Single!Swept, Script!Swept, Single!Recent, Script!Recent,
   Single!MapDelete, Script!MapDelete, Single!Without, Script!Without, Single!Drop, Script!Drop,
   Single!Cardinality, Script!Cardinality

\* A behaviour of the two is one of the JavaScript protection.
LEMMA ScriptOfBoth == BothSpec => Script!Spec
<1>1. BothInit => Script!Init
  BY ScriptInit DEF BothInit
<1>2. SingleNext => Script!Next
  BY ScriptStarts, ScriptChecks, ScriptCollects
     DEF SingleNext, InSingle, Script!Next, Single!AddToWhitelist, Script!AddToWhitelist,
         Single!RemoveFromWhitelist, Script!RemoveFromWhitelist, Single!Tick, Script!Tick
<1>3. ThreadedNext => UNCHANGED OfSingle
  BY DEF ThreadedNext, InThreaded
<1>4. UNCHANGED OfSingle \/ UNCHANGED bothVars => UNCHANGED Script!vars
  BY DEF OfSingle, bothVars, Script!vars
<1>5. [ThreadedNext \/ SingleNext]_bothVars => [Script!Next]_(Script!vars)
  BY <1>2, <1>3, <1>4
<1>. QED  BY <1>1, <1>5, PTL DEF BothSpec, Script!Spec

\* The JavaScript trackers, locks, queue and calls keep their types, and no tracker ever
\* holds more than MAX_TRACKER_SIZE addresses, beside the other protection too.
THEOREM ScriptTypes == BothSpec => []SingleTypes
<1>1. Script!Spec => []Script!TrackerTypes
  BY Script!TypeCorrect, ScriptLimits
<1>2. Script!TrackerTypes => SingleTypes
  BY DEF SingleTypes, Single!TrackerTypes, Script!TrackerTypes, Single!TypeOK, Script!TypeOK,
     Single!TrackersBounded, Script!TrackersBounded, Single!Stamp, Script!Stamp,
     Single!Call, Script!Call, Single!Kinds, Script!Kinds, Single!MapOrdered, Script!MapOrdered,
     Single!MapSize, Script!MapSize, Single!Cardinality, Script!Cardinality
<1>. QED  BY <1>1, <1>2, ScriptOfBoth, PTL

\* The promises that serialize an address's calls serve them in the order they came, each
\* caller wakes one, and the last takes the lock away, for any number of callers.
THEOREM ScriptLocks == BothSpec => []LocksServeInOrder
<1>1. Script!Spec => []Script!LocksServeInOrder
  BY Script!LocksHold, ScriptLimits
<1>2. Script!LocksServeInOrder => LocksServeInOrder
  BY DEF LocksServeInOrder, Single!LocksServeInOrder, Script!LocksServeInOrder,
     Single!LocksReleased, Script!LocksReleased, Single!FirstRuns, Script!FirstRuns,
     Single!Waiting, Script!Waiting
<1>. QED  BY <1>1, <1>2, ScriptOfBoth, PTL

\* The JavaScript tracker of an address knows exactly its calls counted within the window
\* since it was last evicted, for any number of addresses and requests.
THEOREM ScriptFloods == BothSpec => []FloodExact
<1>1. Script!Spec => []Script!FloodExact
  BY Script!FloodIsExact, ScriptLimits
<1>2. Script!FloodExact => FloodExact
  BY DEF FloodExact, Single!FloodExact, Script!FloodExact, Single!Recent, Script!Recent,
     Single!MapHas, Script!MapHas
<1>. QED  BY <1>1, <1>2, ScriptOfBoth, PTL
=============================================================================
