----------------------- MODULE ThreadedDdosProtector -----------------------
(***************************************************************************)
(* The C++ flood protection, src/modules/DdosProtector.cpp, under threads. *)
(*                                                                         *)
(* One mutex guards all tables, but a call takes it several times, and     *)
(* reads the clock once, before the first: check passes whitelist, penalty *)
(* box, slowloris flag, token bucket and violation record one after the    *)
(* other, and gc collects keys under the shared lock that it deletes under *)
(* the exclusive one.  Each time the mutex is held is an action.           *)
(*                                                                         *)
(* The trackers are kept by the address as spelled, penalties by its       *)
(* normal spelling.  The options, which features are on among them, do not *)
(* change.  A bucket's tokens are whole; whether the client or the path is *)
(* exempt, and what the header, query and body limits find, are choices.   *)
(***************************************************************************)
EXTENDS Integers, Sequences, Maps

CONSTANTS
  Addresses,            \* spellings that pass isValidIP
  Normal,               \* normalizeIp, spelling -> spelling
  Calls,                \* calls, each made once
  FeatureSets,          \* which of Features the options may turn on
  Limits,               \* maxConnectionsPerIp, and its values in the path rules
  RefillPerMs, connectionWindowMs,
  slowChunkIntervalMs,
  SlowTimeoutMs,        \* slowlorisBodyTimeoutMs + 5000
  rapidResetWindowMs,
  penaltyViolationsThreshold, penaltyBaseBanMs, penaltyBackoffMultiplier,
  penaltyMaxBanMs,
  BanLengths,           \* lengths of an operator's ban
  maxTrackerSize, gcChunkSize,
  MaxTime               \* bound of the clock

\* featureSlowloris, featureConnFlood, featureRapidReset, penaltyBoxEnabled
Features == {"slowloris", "flood", "rapidReset", "penalty"}

Chunks == {"header", "body"}
Ops == Chunks \cup {"check", "reset", "ban"}

ASSUME ProtectorAssumption ==
  /\ Normal \in [Addresses -> Addresses]
  /\ \A a \in Addresses : Normal[Normal[a]] = Normal[a]
  /\ FeatureSets \subseteq SUBSET Features
  /\ Limits \cup BanLengths \subseteq Nat \ {0}
  /\ {penaltyViolationsThreshold, penaltyBaseBanMs, penaltyBackoffMultiplier,
      penaltyMaxBanMs, maxTrackerSize, gcChunkSize} \subseteq Nat \ {0}
  /\ {RefillPerMs, connectionWindowMs, slowChunkIntervalMs, SlowTimeoutMs,
      rapidResetWindowMs, MaxTime} \subseteq Nat

VARIABLES
  features,    \* the features opts_ turns on
  now,         \* the system clock; 0 is no time
  conn, slow, resets,   \* connTracker_, slowTracker_, rapidResetTracker_ in LRU order
  penalty,     \* penaltyBox_
  disposed,
  call,        \* call -> where its thread is
  collector    \* the thread in gc

vars == <<features, now, conn, slow, resets, penalty, disposed, call, collector>>
tables == <<features, conn, slow, resets, penalty, disposed>>

\* passes is the history of the requests the bucket let through.
Bucket == [tokens : Int, refilled : Nat, passes : Seq(Nat)]

\* The times of the last chunks; bodyStartTs and bodyBytesReceived only serve the
\* rate, whose verdict is a choice.
Stream == [last : [Chunks -> Nat], flagged : BOOLEAN]

\* by is the history of the violations that were counted, manual says that an
\* operator banned the client.
Offender == [until : Nat, count : Nat, length : Nat, by : SUBSET Calls, manual : BOOLEAN]

\* begun: has read the clock; admitted: past the penalty box; streamed: past
\* checkSlowloris_; violating: past checkConnFlood_ with something found.
\* noted: a chunk call raised the slowloris flag, a check reported it.
Thread == [op : Ops, addr : Addresses, at : Nat, noted : BOOLEAN,
           pc : {"begun", "admitted", "streamed", "violating", "done"}]

Phases == {"conn", "slow", "reset", "penalty"}

Least(i, j)    == IF i < j THEN i ELSE j
Greatest(i, j) == IF i < j THEN j ELSE i

At(c, op, pc) == c \in DOMAIN call /\ call[c].op = op /\ call[c].pc = pc

Moved(c, pc, noted) ==
  call' = [call EXCEPT ![c].pc = pc, ![c].noted = noted,
                       ![c].at = IF pc = "done" THEN 0 ELSE @]

\* Mutant: room is made one entry too late.
WithRoomLate(table) == IF MapSize(table) > maxTrackerSize THEN MapDeleteFirst(table) ELSE table

WithRoom(table) == IF MapSize(table) >= maxTrackerSize THEN MapDeleteFirst(table) ELSE table

\* The table with addr at the back, its entry new if it had none.
Touched(table, addr, new) ==
  IF MapHas(table, addr)
  THEN MapSet(MapDelete(table, {addr}), addr, table.of[addr])
  ELSE MapSet(WithRoom(table), addr, new)

-----------------------------------------------------------------------------
Init ==
  /\ features \in FeatureSets
  /\ now = 1
  /\ conn = EmptyMap /\ slow = EmptyMap /\ resets = EmptyMap
  /\ penalty = Empty
  /\ disposed = FALSE
  /\ call = Empty
  /\ collector = [phase |-> "idle", at |-> 0, keys |-> {}]

\* What a feature that is off is told it does not look at.
Heard(op) ==
  /\ op \in Chunks => "slowloris" \in features
  /\ op = "reset" => "rapidReset" \in features

\* A call that does something reads the clock first; only check looks at disposed_.
Begin(c, op, addr) ==
  /\ c \notin DOMAIN call /\ Heard(op)
  /\ op = "check" => ~disposed
  /\ call' = Put(call, c, [op |-> op, addr |-> addr, at |-> now, noted |-> FALSE, pc |-> "begun"])
  /\ UNCHANGED <<now, collector, tables>>

Banned(ip, t) == ip \in DOMAIN penalty /\ penalty[ip].until > t

\* Past whitelist, health-check paths and penalty box; exempt: by one of the
\* first two, which nothing else reads.
Admit(c, exempt) ==
  /\ At(c, "check", "begun")
  /\ Moved(c, IF exempt \/ Banned(Normal[call[c].addr], call[c].at)
              THEN "done" ELSE "admitted", FALSE)
  /\ UNCHANGED <<now, collector, tables>>

NoChunks == [last |-> [k \in Chunks |-> 0], flagged |-> FALSE]

\* Mutant: the flag is not consumed.
CheckSlowlorisKeeps(c) ==
  /\ At(c, "check", "admitted")
  /\ LET a     == call[c].addr
         table == Touched(slow, a, NoChunks)
     IN  IF "slowloris" \in features
         THEN slow' = table /\ Moved(c, "streamed", table.of[a].flagged)
         ELSE UNCHANGED slow /\ Moved(c, "streamed", FALSE)
  /\ UNCHANGED <<features, now, collector, conn, resets, penalty, disposed>>

CheckSlowloris(c) ==
  /\ At(c, "check", "admitted")
  /\ LET a     == call[c].addr
         table == Touched(slow, a, NoChunks)
     IN  IF "slowloris" \in features
         THEN /\ slow' = [table EXCEPT !.of[a].flagged = FALSE]
              /\ Moved(c, "streamed", table.of[a].flagged)
         ELSE UNCHANGED slow /\ Moved(c, "streamed", FALSE)
  /\ UNCHANGED <<features, now, collector, conn, resets, penalty, disposed>>

\* Mutant: an older clock refills, too.
RefilledBackwards(e, t, limit) ==
  [e EXCEPT !.tokens = Least(@ + Greatest(t - e.refilled, 0) * RefillPerMs, limit), !.refilled = t]

Refilled(e, t, limit) ==
  IF t > e.refilled
  THEN [e EXCEPT !.tokens = Least(@ + (t - e.refilled) * RefillPerMs, limit), !.refilled = t]
  ELSE e

\* Every path draws on the one bucket of the address, up to its own limit.
CheckConnFlood(c, limit, payload) ==
  /\ At(c, "check", "streamed")
  /\ LET a     == call[c].addr
         table == Touched(conn, a, [tokens |-> limit, refilled |-> call[c].at, passes |-> <<>>])
         e     == Refilled(table.of[a], call[c].at, limit)
         over  == "flood" \in features /\ e.tokens < 1
     IN  /\ IF "flood" \in features
            THEN conn' = [table EXCEPT !.of[a] =
                   [e EXCEPT !.tokens = @ - 1,
                             !.passes = IF over THEN @ ELSE Append(@, e.refilled)]]
            ELSE UNCHANGED conn
         /\ Moved(c, IF call[c].noted \/ over \/ payload THEN "violating" ELSE "done", call[c].noted)
  /\ UNCHANGED <<features, now, collector, slow, resets, penalty, disposed>>

NoOffence == [until |-> 0, count |-> 0, length |-> 0, by |-> {}, manual |-> FALSE]

OffenceOf(ip) == IF ip \in DOMAIN penalty THEN penalty[ip] ELSE NoOffence

\* Mutant: a ban comes one violation early.
AfterViolationEarly(e, c, t) ==
  LET length == Least(IF e.length = 0 THEN penaltyBaseBanMs
                      ELSE e.length * penaltyBackoffMultiplier, penaltyMaxBanMs)
  IN  IF e.until > t THEN e
      ELSE IF e.count + 2 >= penaltyViolationsThreshold
      THEN [e EXCEPT !.count = @ + 1, !.by = @ \cup {c}, !.length = length, !.until = t + length]
      ELSE [e EXCEPT !.count = @ + 1, !.by = @ \cup {c}]

\* Mutant: a violation under a ban counts and starts the ban anew.
AfterViolationAnew(e, c, t) ==
  LET length == Least(IF e.length = 0 THEN penaltyBaseBanMs
                      ELSE e.length * penaltyBackoffMultiplier, penaltyMaxBanMs)
  IN  IF e.count + 1 >= penaltyViolationsThreshold
      THEN [e EXCEPT !.count = @ + 1, !.by = @ \cup {c}, !.length = length, !.until = t + length]
      ELSE [e EXCEPT !.count = @ + 1, !.by = @ \cup {c}]

\* Under a ban nothing is counted; from the threshold on every violation bans,
\* each time for longer.
AfterViolation(e, c, t) ==
  LET counted == [e EXCEPT !.count = @ + 1, !.by = @ \cup {c}]
      length  == Least(IF e.length = 0 THEN penaltyBaseBanMs
                       ELSE e.length * penaltyBackoffMultiplier, penaltyMaxBanMs)
  IN  IF e.until > t THEN e
      ELSE IF counted.count >= penaltyViolationsThreshold
      THEN [counted EXCEPT !.length = length, !.until = t + length]
      ELSE counted

RecordViolation(c) ==
  /\ At(c, "check", "violating")
  /\ LET ip == Normal[call[c].addr]
     IN  penalty' = IF "penalty" \in features
                    THEN Put(penalty, ip, AfterViolation(OffenceOf(ip), c, call[c].at))
                    ELSE penalty
  /\ Moved(c, "done", call[c].noted)
  /\ UNCHANGED <<features, now, collector, conn, slow, resets, disposed>>

BanIp(c, length) ==
  /\ At(c, "ban", "begun")
  /\ LET ip == Normal[call[c].addr]
         e  == OffenceOf(ip)
     IN  penalty' = Put(penalty, ip,
           [e EXCEPT !.until = call[c].at + length, !.length = length,
                     !.count = Greatest(@, 1), !.manual = TRUE])
  /\ Moved(c, "done", FALSE)
  /\ UNCHANGED <<features, now, collector, conn, slow, resets, disposed>>

\* The ban is over; what it was for is kept.
UnbanIp(ip) ==
  /\ ip \in DOMAIN penalty
  /\ penalty' = [penalty EXCEPT ![ip].until = 0]
  /\ UNCHANGED <<features, now, collector, call, conn, slow, resets, disposed>>

\* onHeaderChunk and onBodyChunk: a chunk comes too long after the last one of
\* its kind, or the body, slowly, below the rate.
OnChunk(c, kind, slowly) ==
  /\ At(c, kind, "begun") /\ (slowly => kind = "body")
  /\ LET a     == call[c].addr
         t     == call[c].at
         table == Touched(slow, a, NoChunks)
         last  == table.of[a].last[kind]
         late  == MapHas(slow, a) /\ (slowly \/ (last > 0 /\ t - last > slowChunkIntervalMs))
     IN  /\ slow' = [table EXCEPT !.of[a] = [last    |-> [@.last EXCEPT ![kind] = t],
                                            flagged |-> @.flagged \/ late]]
         /\ Moved(c, "done", late)
  /\ UNCHANGED <<features, now, collector, conn, resets, penalty, disposed>>

\* Of the resets only the last one is ever looked at, by gc.
OnStreamReset(c) ==
  /\ At(c, "reset", "begun")
  /\ LET a == call[c].addr
     IN  resets' = MapSet(Touched(resets, a, 0), a, call[c].at)
  /\ Moved(c, "done", FALSE)
  /\ UNCHANGED <<features, now, collector, conn, slow, penalty, disposed>>

\* Calls under way go on.
Dispose ==
  /\ ~disposed
  /\ disposed' = TRUE
  /\ conn' = EmptyMap /\ slow' = EmptyMap /\ resets' = EmptyMap
  /\ penalty' = Empty
  /\ UNCHANGED <<features, now, collector, call>>

GcStart ==
  /\ collector.phase = "idle" /\ ~disposed
  /\ collector' = [phase |-> "conn", at |-> now, keys |-> {}]
  /\ UNCHANGED <<now, call, tables>>

\* What a phase finds expired at its clock.
Expired(phase, t) ==
  CASE phase = "conn"    -> {a \in DOMAIN conn.of : conn.of[a].refilled < t - connectionWindowMs}
    [] phase = "slow"    -> {a \in DOMAIN slow.of :
                               LET last == slow.of[a].last
                                   seen == IF last["body"] > 0 THEN last["body"] ELSE last["header"]
                               IN  seen > 0 /\ seen < t - SlowTimeoutMs}
    [] phase = "reset"   -> {a \in DOMAIN resets.of : resets.of[a] < t - rapidResetWindowMs}
    [] phase = "penalty" -> {ip \in DOMAIN penalty : penalty[ip].until < t}

NextPhase ==
  CASE collector.phase = "conn"    -> [collector EXCEPT !.phase = "slow", !.keys = {}]
    [] collector.phase = "slow"    -> [collector EXCEPT !.phase = "reset", !.keys = {}]
    [] collector.phase = "reset"   -> [collector EXCEPT !.phase = "penalty", !.keys = {}]
    [] collector.phase = "penalty" -> [phase |-> "idle", at |-> 0, keys |-> {}]

\* Under the shared lock; a tracker yields gcChunkSize keys at most.
GcCollect ==
  /\ collector.phase # "idle" /\ collector.keys = {}
  /\ LET expired == Expired(collector.phase, collector.at)
         most    == IF collector.phase = "penalty" THEN Cardinality(expired)
                    ELSE Least(Cardinality(expired), gcChunkSize)
     IN  IF expired = {} THEN collector' = NextPhase
         ELSE \E keys \in SUBSET expired :
                /\ Cardinality(keys) = most
                /\ collector' = [collector EXCEPT !.keys = keys]
  /\ UNCHANGED <<now, call, tables>>

\* Under the exclusive lock, whatever became of the entries since.
GcDelete ==
  /\ collector.keys # {}
  /\ LET keys == collector.keys
     IN  CASE collector.phase = "conn"    -> conn' = MapDelete(conn, keys)
                                            /\ UNCHANGED <<slow, resets, penalty>>
           [] collector.phase = "slow"    -> slow' = MapDelete(slow, keys)
                                            /\ UNCHANGED <<conn, resets, penalty>>
           [] collector.phase = "reset"   -> resets' = MapDelete(resets, keys)
                                            /\ UNCHANGED <<conn, slow, penalty>>
           [] collector.phase = "penalty" -> penalty' = Drop(penalty, keys)
                                            /\ UNCHANGED <<conn, slow, resets>>
  /\ collector' = NextPhase
  /\ UNCHANGED <<features, now, call, disposed>>

Tick ==
  /\ now < MaxTime
  /\ now' = now + 1
  /\ UNCHANGED <<call, collector, tables>>

Next ==
  \/ \E c \in Calls :
       \/ \E op \in Ops, addr \in Addresses : Begin(c, op, addr)
       \/ \E exempt \in BOOLEAN : Admit(c, exempt)
       \/ CheckSlowloris(c)
       \/ \E limit \in Limits, payload \in BOOLEAN : CheckConnFlood(c, limit, payload)
       \/ RecordViolation(c)
       \/ \E length \in BanLengths : BanIp(c, length)
       \/ \E kind \in Chunks, slowly \in BOOLEAN : OnChunk(c, kind, slowly)
       \/ OnStreamReset(c)
  \/ \E ip \in Addresses : UnbanIp(ip)
  \/ Dispose
  \/ GcStart \/ GcCollect \/ GcDelete
  \/ Tick

Spec == Init /\ [][Next]_vars
-----------------------------------------------------------------------------
(* Properties.                                                             *)

TypeOK ==
  /\ features \in FeatureSets /\ now \in Nat
  /\ DOMAIN conn.of \subseteq Addresses /\ \A a \in DOMAIN conn.of : conn.of[a] \in Bucket
  /\ DOMAIN slow.of \subseteq Addresses /\ \A a \in DOMAIN slow.of : slow.of[a] \in Stream
  /\ DOMAIN resets.of \subseteq Addresses /\ \A a \in DOMAIN resets.of : resets.of[a] \in Nat
  /\ DOMAIN penalty \subseteq {Normal[a] : a \in Addresses}
  /\ \A ip \in DOMAIN penalty : penalty[ip] \in Offender
  /\ disposed \in BOOLEAN
  /\ DOMAIN call \subseteq Calls /\ \A c \in DOMAIN call : call[c] \in Thread
  /\ collector \in [phase : Phases \cup {"idle"}, at : Nat, keys : SUBSET Addresses]

\* However calls, collections and disposal interleave, no tracker outgrows its
\* limit, and its eviction order lists each address it holds once: an iterator
\* into the list never dangles.
TrackersBounded ==
  /\ MapSize(conn) <= maxTrackerSize /\ MapSize(slow) <= maxTrackerSize
  /\ MapSize(resets) <= maxTrackerSize
  /\ MapOrdered(conn) /\ MapOrdered(slow) /\ MapOrdered(resets)

\* The types of all of it, with the limit and order of the trackers.
TrackerTypes == TypeOK /\ TrackersBounded

\* What a token bucket promises: as long as an address keeps its bucket, the
\* requests let through in any stretch of it are no more than the largest limit
\* and what that stretch refilled, though threads bring clocks out of order.
RateBound ==
  \A a \in DOMAIN conn.of :
    LET passes == conn.of[a].passes
    IN  \A i, j \in DOMAIN passes :
          i <= j => \E limit \in Limits :
            j - i + 1 <= limit + RefillPerMs * (passes[j] - passes[i])

\* A slow stream is reported once: the checks of an address that reported one,
\* with the flag that still waits, are no more than the chunks that raised it.
SlowReportedOnce ==
  \A a \in Addresses :
    LET noted(ops) == Cardinality({c \in DOMAIN call :
                        call[c].addr = a /\ call[c].noted /\ call[c].op \in ops})
        waiting    == IF MapHas(slow, a) /\ slow.of[a].flagged THEN 1 ELSE 0
    IN  noted({"check"}) + waiting <= noted(Chunks)

\* A client is banned only by an operator or for as many violations as the
\* threshold asks, by requests that were not refused for an earlier ban.
BanEarned ==
  \A ip \in DOMAIN penalty :
    penalty[ip].until > 0 =>
      penalty[ip].manual \/ Cardinality(penalty[ip].by) >= penaltyViolationsThreshold

\* A ban in force is cut short only by an operator or disposal, or by a collector
\* that found the client's entry expired before the ban was placed: never by
\* the violations of requests that run beside it, whatever clocks they bring.
BanCutOnlyBy ==
  [][\A ip \in DOMAIN penalty :
       /\ penalty[ip].until > now
       /\ ip \notin DOMAIN penalty' \/ penalty'[ip].until < penalty[ip].until
       => \/ UnbanIp(ip) \/ Dispose
          \/ \E c \in Calls, length \in BanLengths : BanIp(c, length) /\ Normal[call[c].addr] = ip
          \/ GcDelete /\ collector.phase = "penalty" /\ ip \in collector.keys]_vars
=============================================================================
