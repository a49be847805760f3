---------------------------- MODULE EngineProofs ----------------------------
(***************************************************************************)
(* What holds of the engine for any number of clients, peers and requests. *)
(***************************************************************************)
EXTENDS Engine, MapsProofs

-----------------------------------------------------------------------------
(* The history.                                                            *)

LEMMA Room ==
  ASSUME NEW h, NEW ip
  PROVE  /\ DOMAIN WithRoom(h, ip).of \subseteq DOMAIN h.of
         /\ \A j \in DOMAIN WithRoom(h, ip).of : WithRoom(h, ip).of[j] = h.of[j]
         /\ ip \in DOMAIN h.of => ip \in DOMAIN WithRoom(h, ip).of
BY DeletedFirst DEF WithRoom, MapHas

\* What one more event leaves of a history: the record of ip has grown by it,
\* the others are as they were or evicted.
LEMMA Recording ==
  ASSUME NEW h, NEW ip, NEW event, NEW path, NEW status, NEW t
  PROVE  LET g   == RecordReconAttempt(h, ip, event, path, status, t)
             old == IF ip \in DOMAIN h.of THEN h.of[ip] ELSE NoRecord(t)
         IN  /\ ip \in DOMAIN g.of
             /\ DOMAIN g.of \subseteq DOMAIN h.of \cup {ip}
             /\ g.of[ip] = Recorded(old, event, path, status, t)
             /\ \A j \in DOMAIN g.of : j # ip => g.of[j] = h.of[j]
<1> DEFINE w == WithRoom(h, ip)
           rec == IF MapHas(w, ip) THEN w.of[ip] ELSE NoRecord(t)
<1>1. RecordReconAttempt(h, ip, event, path, status, t)
        = MapSet(w, ip, Recorded(rec, event, path, status, t))
  BY DEF RecordReconAttempt
<1>2. rec = IF ip \in DOMAIN h.of THEN h.of[ip] ELSE NoRecord(t)
  BY Room DEF MapHas
<1> HIDE DEF w, rec
<1>3. /\ DOMAIN w.of \subseteq DOMAIN h.of
      /\ \A j \in DOMAIN w.of : w.of[j] = h.of[j]
  BY Room DEF w
<1>. QED  BY <1>1, <1>2, <1>3, SetValue

\* A grown record is a record.
LEMMA RecordedType ==
  ASSUME NEW rec \in Record, NEW event \in Event, NEW path, NEW status, NEW t \in Nat
  PROVE  Recorded(rec, event, path, status, t) \in Record
BY DEF Recorded, Record

LEMMA NoRecordType ==
  ASSUME NEW t \in Nat
  PROVE  NoRecord(t) \in Record
BY DEF NoRecord, Record

-----------------------------------------------------------------------------
(* Type correctness.                                                       *)

\* A score is a number only as long as the events it adds up are finite.
FiniteRecords ==
  \A ip \in DOMAIN recon.of : /\ IsFiniteSet(recon.of[ip].scans)
                              /\ IsFiniteSet(recon.of[ip].errors)

History(h) ==
  /\ DOMAIN h.of \subseteq IPs
  /\ \A ip \in DOMAIN h.of : /\ h.of[ip] \in Record
                             /\ IsFiniteSet(h.of[ip].scans)
                             /\ IsFiniteSet(h.of[ip].errors)

\* Clients that fit in the history are not evicted.
LEMMA RecordingKeeps ==
  ASSUME NEW h, NEW ip \in IPs, NEW event, NEW path, NEW status, NEW t,
         Roomy, History(h)
  PROVE  DOMAIN RecordReconAttempt(h, ip, event, path, status, t).of
           = DOMAIN h.of \cup {ip}
<1> DEFINE D == DOMAIN h.of
<1>0. D \subseteq IPs
  BY DEF History
<1>1. CASE ip \in D
  <2>1. WithRoom(h, ip) = h
    BY <1>1 DEF WithRoom, MapHas
  <2>. QED  BY <2>1, SetValue DEF RecordReconAttempt
<1>2. CASE ip \notin D
  <2>1. IsFiniteSet(IPs) /\ Cardinality(IPs) <= MaxReconEntries
    BY DEF Roomy
  <2>2. IsFiniteSet(D) /\ Cardinality(D) <= Cardinality(IPs \ {ip})
    <3>1. IsFiniteSet(IPs \ {ip}) /\ D \subseteq IPs \ {ip}
      BY <1>0, <2>1, <1>2, FS_Subset
    <3>. HIDE DEF D
    <3>. QED  BY <3>1, FS_Subset
  <2>3. Cardinality(IPs \ {ip}) = Cardinality(IPs) - 1 /\ Cardinality(IPs) \in Nat
    BY <2>1, FS_RemoveElement, FS_CardinalityType
  <2>4. Cardinality(D) \in Nat
    BY <2>2, FS_CardinalityType
  <2>5. MapSize(h) < MaxReconEntries
    BY <2>1, <2>2, <2>3, <2>4, EngineAssumption DEF MapSize
  <2>6. WithRoom(h, ip) = h
    BY <2>5, EngineAssumption, <2>4 DEF WithRoom, MapSize
  <2>. QED  BY <2>6, SetValue DEF RecordReconAttempt
<1>. QED  BY <1>1, <1>2

LEMMA HistoryRecorded ==
  ASSUME NEW h, History(h), NEW ip \in IPs, NEW event \in Event, NEW path, NEW status,
         NEW t \in Nat
  PROVE  History(RecordReconAttempt(h, ip, event, path, status, t))
<1> DEFINE g   == RecordReconAttempt(h, ip, event, path, status, t)
           old == IF ip \in DOMAIN h.of THEN h.of[ip] ELSE NoRecord(t)
<1>1. /\ ip \in DOMAIN g.of
      /\ DOMAIN g.of \subseteq DOMAIN h.of \cup {ip}
      /\ g.of[ip] = Recorded(old, event, path, status, t)
      /\ \A j \in DOMAIN g.of : j # ip => g.of[j] = h.of[j]
  BY Recording
<1>2. old \in Record /\ IsFiniteSet(old.scans) /\ IsFiniteSet(old.errors)
  BY NoRecordType, FS_EmptySet DEF History, NoRecord
<1>. HIDE DEF g, old
<1>3. g.of[ip] \in Record
  BY <1>1, <1>2, RecordedType
<1>4. IsFiniteSet(g.of[ip].scans) /\ IsFiniteSet(g.of[ip].errors)
  <2>1. IsFiniteSet(old.scans \cup {event}) /\ IsFiniteSet(old.errors \cup {event})
    BY <1>2, FS_AddElement
  <2>2. /\ g.of[ip].scans \in {old.scans, old.scans \cup {event}}
        /\ g.of[ip].errors \in {old.errors, old.errors \cup {event}}
    BY <1>1 DEF Recorded
  <2>. QED  BY <1>2, <2>1, <2>2
<1>5. History(g)
  BY <1>1, <1>3, <1>4 DEF History
<1>. QED  BY <1>5 DEF g

LEMMA HistoryDeleted ==
  ASSUME NEW h, History(h), NEW S
  PROVE  History(MapDelete(h, S))
BY DeletedKeys DEF History

LEMMA ScoreType ==
  ASSUME NEW rec, IsFiniteSet(rec.scans), IsFiniteSet(rec.errors)
  PROVE  Score(rec) \in Nat
BY FS_CardinalityType DEF Score

LEMMA RiskScoreType ==
  ASSUME TypeOK, History(recon), NEW r \in DOMAIN request, NEW risk \in Risks
  PROVE  RiskScore(r, risk) \in Nat
<1>1. Taint(recon, request[r].ip, now) \in Nat
  BY ScoreType DEF Taint, History, MapHas
<1>. QED  BY <1>1, EngineAssumption DEF RiskScore

LEMMA SessionsType ==
  ASSUME NEW ss, DOMAIN ss \subseteq Peers, \A p \in DOMAIN ss : ss[p] \in Session,
         NEW peer \in Peers, NEW score, NEW solution, NEW url, NEW t \in Nat
  PROVE  LET after == AfterMitigation(ss, peer, score, solution, url, t)
         IN  DOMAIN after \subseteq Peers /\ \A p \in DOMAIN after : after[p] \in Session
<1>1. /\ DOMAIN Live(ss, peer, t) \subseteq Peers
      /\ \A p \in DOMAIN Live(ss, peer, t) : Live(ss, peer, t)[p] \in Session
  BY DEF Live, Drop
<1>2. /\ [expires |-> t + ChallengeMs, expected |-> TRUE] \in Session
      /\ [expires |-> t + PassMs, expected |-> FALSE] \in Session
  BY EngineAssumption DEF Session
<1>. QED  BY <1>1, <1>2 DEF AfterMitigation, Put

TypeInv == TypeOK /\ FiniteRecords

RequestOK == DOMAIN request \subseteq Requests /\ \A r \in DOMAIN request : request[r] \in Exchange

LEMMA TypeParts ==
  TypeInv <=> /\ now \in Nat
              /\ History(recon)
              /\ DOMAIN sessions \subseteq Peers /\ \A p \in DOMAIN sessions : sessions[p] \in Session
              /\ DOMAIN errors.of \subseteq IPs /\ \A ip \in DOMAIN errors.of : errors.of[ip] \in Nat
              /\ stats \in [total : Nat, blocked : Nat]
              /\ RequestOK
BY DEF TypeInv, TypeOK, FiniteRecords, History, RequestOK

LEMMA TypeInit == Init => TypeInv
BY FS_EmptySet DEF Init, TypeInv, TypeOK, FiniteRecords, EmptyMap, Empty

LEMMA ArrivedType ==
  ASSUME TypeInv, NEW r \in Requests, NEW ip \in IPs, NEW peer \in Peers,
         NEW path \in Paths, NEW solution \in Solutions, NEW url \in Urls,
         NEW stage \in {"analyzing", "analyzed", "failed"},
         Arrived(r, ip, peer, path, solution, url, stage)
  PROVE  RequestOK' /\ stats' \in [total : Nat, blocked : Nat]
BY DEF TypeInv, TypeOK, Arrived, RequestOK, Put, Exchange, Actions

LEMMA WriteHeadType ==
  ASSUME TypeInv, NEW r \in DOMAIN request, NEW status \in Statuses,
         NEW stage \in {"finishing", "done"}, WriteHead(r, status, stage)
  PROVE  TypeInv'
<1>1. RequestOK'
  BY DEF TypeInv, TypeOK, WriteHead, RequestOK, Exchange
<1>2. AnswerOf(r) \in Event /\ request[r].ip \in IPs /\ now \in Nat
  BY DEF TypeInv, TypeOK, AnswerOf, Event, Exchange
<1>3. History(recon)
  BY TypeParts
<1>4. History(recon')
  BY <1>2, <1>3, HistoryRecorded DEF WriteHead
<1>. QED  BY <1>1, <1>4, TypeParts DEF WriteHead, TypeInv, TypeOK, FiniteRecords, History, RequestOK

LEMMA TypeNext == TypeInv /\ [Next]_vars => TypeInv'
<1> SUFFICES ASSUME TypeInv, [Next]_vars PROVE TypeInv'
  OBVIOUS
<1>t. /\ now \in Nat /\ History(recon) /\ RequestOK
      /\ DOMAIN sessions \subseteq Peers /\ \A p \in DOMAIN sessions : sessions[p] \in Session
      /\ DOMAIN errors.of \subseteq IPs /\ \A ip \in DOMAIN errors.of : errors.of[ip] \in Nat
      /\ stats \in [total : Nat, blocked : Nat]
  BY TypeParts
<1>i. EngineAssumption
  BY EngineAssumption
<1> DEFINE Others == /\ now' \in Nat
                     /\ DOMAIN sessions' \subseteq Peers
                     /\ \A p \in DOMAIN sessions' : sessions'[p] \in Session
                     /\ DOMAIN errors'.of \subseteq IPs
                     /\ \A ip \in DOMAIN errors'.of : errors'.of[ip] \in Nat
<1>p. TypeInv' <=> Others /\ History(recon') /\ stats' \in [total : Nat, blocked : Nat] /\ RequestOK'
  BY DEF TypeInv, TypeOK, FiniteRecords, History, RequestOK
<1>1. ASSUME NEW r \in Requests, NEW ip \in IPs, NEW peer \in Peers,
             EnterExcluded(r, ip, peer) \/ EnterUndecodable(r, ip, peer)
      PROVE  TypeInv'
  <2>1. RequestOK' /\ stats' \in [total : Nat, blocked : Nat]
    BY <1>1, ArrivedType DEF EnterExcluded, EnterUndecodable, Paths, Solutions, Urls
  <2>. QED  BY <2>1, <1>p, <1>t, <1>1 DEF EnterExcluded, EnterUndecodable
<1>2. ASSUME NEW r \in Requests, NEW ip \in IPs, NEW peer \in Peers,
             NEW path \in PathsSent, NEW solution \in SolutionsSent, NEW url \in UrlsSent,
             Enter(r, ip, peer, path, solution, url)
      PROVE  TypeInv'
  <2>1. RequestOK' /\ stats' \in [total : Nat, blocked : Nat]
    <3>1. path \in Paths /\ solution \in Solutions /\ url \in Urls
      BY <1>i DEF EngineAssumption
    <3>. QED  BY <3>1, <1>2, ArrivedType DEF Enter
  <2>2. Arrival(r) \in Event
    BY DEF Arrival, Event
  <2>3. History(recon')
    BY <2>2, <1>2, <1>t, HistoryRecorded DEF Enter
  <2>. QED  BY <2>1, <2>3, <1>p, <1>t, <1>2 DEF Enter
<1>3. ASSUME NEW r \in Requests, Clean(r) \/ Wake(r) \/ Pass(r)
      PROVE  TypeInv'
  <2>1. RequestOK'
    BY <1>3, <1>t DEF Clean, Wake, Pass, RequestOK, Stage, Exchange
  <2>. QED  BY <2>1, <1>p, <1>t, <1>3 DEF Clean, Wake, Pass
<1>4. ASSUME NEW r \in Requests, NEW risk \in Risks, Judge(r, risk)
      PROVE  TypeInv'
  <2> DEFINE q       == request[r]
             score   == RiskScore(r, risk)
             action  == MitigationAction(sessions, q.peer, score, q.solution, q.url, now)
             blocked == /\ action # "error"
                        /\ \/ mode = "block" /\ score >= blockThreshold
                           \/ action = "block"
  <2>1. r \in DOMAIN request /\ q \in Exchange
    BY <1>4, <1>t DEF Judge, Stage, RequestOK
  <2>2. score \in Nat
    BY <2>1, <1>t, RiskScoreType DEF TypeInv
  <2>3. action \in Actions
    BY DEF MitigationAction, Actions
  <2>4. request' = [request EXCEPT ![r] =
              [q EXCEPT !.stage = IF action = "error" THEN "failed"
                                  ELSE IF action = "throttle" /\ ~blocked
                                  THEN "sleeping" ELSE "analyzed",
                        !.score = score, !.scored = now,
                        !.action = action, !.blocked = blocked]]
    BY <1>4 DEF Judge
  <2>5. q.peer \in Peers /\ blocked \in BOOLEAN
    BY <2>1 DEF Exchange
  <2>. HIDE DEF score, action, blocked
  <2>6. RequestOK'
    <3> DEFINE stage  == IF action = "error" THEN "failed"
            ELSE IF action = "throttle" /\ ~blocked THEN "sleeping" ELSE "analyzed"
               judged == [q EXCEPT !.stage = stage, !.score = score, !.scored = now,
                                   !.action = action, !.blocked = blocked]
    <3>1. stage \in {"sleeping", "analyzed", "failed"} /\ now \in Nat
      BY <1>t
    <3>2. request' = [request EXCEPT ![r] = judged]
      BY <2>4
    <3>3. judged \in Exchange
      <4>. HIDE DEF stage, q
      <4>. QED  BY <2>1, <2>2, <2>3, <2>5, <3>1 DEF Exchange
    <3>. HIDE DEF judged, q
    <3>. QED  BY <2>1, <3>2, <3>3, <1>t DEF RequestOK
  <2>7. History(recon')
    BY <1>4, <1>t, HistoryDeleted DEF Judge, AfterTaint
  <2>8. stats' \in [total : Nat, blocked : Nat]
    <3>1. stats' = stats \/ stats' = [stats EXCEPT !.blocked = @ + 1]
      BY <1>4 DEF Judge
    <3>. QED  BY <3>1, <1>t
  <2>9. /\ DOMAIN sessions' \subseteq Peers
        /\ \A p \in DOMAIN sessions' : sessions'[p] \in Session
    <3>1. sessions' = AfterMitigation(sessions, q.peer, score, q.solution, q.url, now)
      BY <1>4 DEF Judge, score
    <3>. QED  BY <3>1, <2>5, <1>t, SessionsType
  <2>. QED  BY <2>6, <2>7, <2>8, <2>9, <1>p, <1>t, <1>4 DEF Judge
<1>5. ASSUME NEW r \in Requests, Challenge(r) \/ Block(r)
      PROVE  TypeInv'
  BY <1>5, WriteHeadType DEF Challenge, Block, Stage, Statuses
<1>6. ASSUME NEW r \in Requests, NEW status \in AppStatuses, Answer(r, status)
      PROVE  TypeInv'
  <2>1. status \in Statuses
    BY <1>i DEF EngineAssumption, Statuses
  <2>. QED  BY <2>1, <1>6, WriteHeadType DEF Answer, Stage
<1>7. ASSUME NEW r \in Requests, Finish(r)
      PROVE  TypeInv'
  <2>1. RequestOK'
    BY <1>7, <1>t DEF Finish, RequestOK, Stage, Exchange
  <2>2. request[r].ip \in IPs
    BY <1>7, <1>t DEF Finish, RequestOK, Stage, Exchange
  <2>3. /\ DOMAIN errors'.of \subseteq IPs
        /\ \A ip \in DOMAIN errors'.of : errors'.of[ip] \in Nat
    <3> DEFINE ip    == request[r].ip
               count == IF MapHas(errors, ip) THEN errors.of[ip] ELSE 0
               added == MapSet(errors, ip, count + 1)
    <3>1. count + 1 \in Nat
      BY <1>t DEF MapHas
    <3>2. DOMAIN added.of \subseteq IPs /\ \A j \in DOMAIN added.of : added.of[j] \in Nat
      BY <3>1, <2>2, <1>t, SetValue
    <3>3. errors' = added \/ errors' = MapDeleteFirst(added)
      BY <1>7 DEF Finish, CountedError
    <3>. HIDE DEF added
    <3>. QED  BY <3>2, <3>3, DeletedFirst
  <2>. QED  BY <2>1, <2>3, <1>p, <1>t, <1>7 DEF Finish
<1>8. CASE Cleanup
  BY <1>8, <1>p, <1>t, HistoryDeleted DEF Cleanup, Cleaned, RequestOK
<1>9. CASE Tick
  BY <1>9, <1>p, <1>t DEF Tick, RequestOK
<1>10. CASE UNCHANGED vars
  BY <1>10, <1>p, <1>t DEF vars, RequestOK
<1>. QED  BY <1>1, <1>2, <1>3, <1>4, <1>5, <1>6, <1>7, <1>8, <1>9, <1>10 DEF Next

\* Every table, session and request keeps its type, for any number of clients,
\* peers and requests.
THEOREM TypeCorrect == Spec => []TypeOK
<1>1. TypeInv => TypeOK
  BY DEF TypeInv
<1>. QED  BY <1>1, TypeInit, TypeNext, PTL DEF Spec

-----------------------------------------------------------------------------
(* What a record remembers.  RecordsTrue and RecentKept say, event by      *)
(* event, what ReconRemembers says of sets; Times and Unanswered are what  *)
(* makes them inductive: no event lies ahead of the clock, so the record   *)
(* of a recent event is itself too recent to be dropped.                   *)

Times == \A r \in DOMAIN request : request[r].start <= now /\ request[r].end <= now

Unanswered ==
  \A r \in DOMAIN request :
    request[r].stage \notin {"finishing", "done"} => request[r].status = 0

RecordsTrue ==
  \A ip \in DOMAIN recon.of : /\ recon.of[ip].scans \subseteq ScansSince(ip, 0)
                              /\ recon.of[ip].errors \subseteq ErrorsSince(ip, 0)

\* The record of ip in h holds an event of time t.
Holds(h, ip, event, scan, t) ==
  /\ ip \in DOMAIN h.of
  /\ event \in h.of[ip].errors
  /\ scan => event \in h.of[ip].scans
  /\ h.of[ip].seen >= t

RecentKept ==
  \A r \in DOMAIN request :
    LET q == request[r]
    IN  q.hooked =>
          /\ q.path = "probe" /\ q.start >= now - ReconTTL
               => Holds(recon, q.ip, Arrival(r), TRUE, q.start)
          /\ Refusal(q.status) /\ q.end >= now - ReconTTL
               => Holds(recon, q.ip, AnswerOf(r), ScannerPath(q.path), q.end)

MemoryInv == Times /\ Unanswered /\ RecordsTrue /\ (Roomy => RecentKept)

LEMMA HoldsRecorded ==
  ASSUME Roomy, NEW h, History(h), NEW ip \in IPs, NEW event \in Event, NEW path, NEW status,
         NEW t \in Nat,
         NEW j, NEW e, NEW scan \in BOOLEAN, NEW u \in Nat, u <= t, Holds(h, j, e, scan, u)
  PROVE  Holds(RecordReconAttempt(h, ip, event, path, status, t), j, e, scan, u)
<1> DEFINE g   == RecordReconAttempt(h, ip, event, path, status, t)
           old == IF ip \in DOMAIN h.of THEN h.of[ip] ELSE NoRecord(t)
<1>1. /\ g.of[ip] = Recorded(old, event, path, status, t)
      /\ \A k \in DOMAIN g.of : k # ip => g.of[k] = h.of[k]
  BY Recording
<1>2. DOMAIN g.of = DOMAIN h.of \cup {ip}
  BY RecordingKeeps
<1>3. j \in DOMAIN h.of
  BY DEF Holds
<1>. HIDE DEF g
<1>4. CASE j = ip
  <2>1. g.of[j] = Recorded(h.of[j], event, path, status, t)
    BY <1>1, <1>3, <1>4
  <2>. QED  BY <2>1, <1>2, <1>3 DEF Holds, Recorded, g
<1>5. CASE j # ip
  BY <1>1, <1>2, <1>3, <1>5 DEF Holds, g
<1>. QED  BY <1>4, <1>5

LEMMA NewEventHolds ==
  ASSUME NEW h, NEW ip \in IPs, NEW event, NEW path, NEW status, NEW t \in Nat,
         Refusal(status)
  PROVE  Holds(RecordReconAttempt(h, ip, event, path, status, t), ip, event,
               ScannerPath(path), t)
<1> DEFINE g   == RecordReconAttempt(h, ip, event, path, status, t)
           old == IF ip \in DOMAIN h.of THEN h.of[ip] ELSE NoRecord(t)
<1>1. ip \in DOMAIN g.of /\ g.of[ip] = Recorded(old, event, path, status, t)
  BY Recording
<1>. QED  BY <1>1 DEF Holds, Recorded

LEMMA HoldsDeleted ==
  ASSUME NEW h, NEW S, NEW j, NEW e, NEW scan, NEW u, Holds(h, j, e, scan, u), j \notin S
  PROVE  Holds(MapDelete(h, S), j, e, scan, u)
BY DeletedKeys DEF Holds

\* Events, once done, stay done.
LEMMA EventsStay ==
  ASSUME TypeInv, DOMAIN request \subseteq DOMAIN request',
         \A q \in DOMAIN request :
           /\ request'[q].ip = request[q].ip /\ request'[q].hooked = request[q].hooked
           /\ request'[q].path = request[q].path /\ request'[q].start = request[q].start
           /\ Refusal(request[q].status) => /\ request'[q].status = request[q].status
                                            /\ request'[q].end = request[q].end,
         NEW ip
  PROVE  /\ ScansSince(ip, 0) \subseteq ScansSince(ip, 0)'
         /\ ErrorsSince(ip, 0) \subseteq ErrorsSince(ip, 0)'
<1>1. ProbesSince(ip, 0) \subseteq ProbesSince(ip, 0)'
  BY DEF ProbesSince, Arrival
<1>2. RefusalsSince(ip, 0) \subseteq RefusalsSince(ip, 0)'
  BY DEF RefusalsSince, AnswerOf
<1>3. \A e \in RefusalsSince(ip, 0) : e[1] \in DOMAIN request
  BY DEF RefusalsSince, AnswerOf
<1>. QED  BY <1>1, <1>2, <1>3 DEF ScansSince, ErrorsSince

\* One more event of ip, recorded, is done by ip.
LEMMA TrueRecorded ==
  ASSUME TypeInv, RecordsTrue, NEW ip \in IPs, NEW event, NEW path, NEW status,
         recon' = RecordReconAttempt(recon, ip, event, path, status, now),
         \A j : /\ ScansSince(j, 0) \subseteq ScansSince(j, 0)'
                /\ ErrorsSince(j, 0) \subseteq ErrorsSince(j, 0)',
         event \in ErrorsSince(ip, 0)',
         ScannerPath(path) => event \in ScansSince(ip, 0)'
  PROVE  RecordsTrue'
<1> DEFINE old == IF ip \in DOMAIN recon.of THEN recon.of[ip] ELSE NoRecord(now)
<1>1. /\ DOMAIN recon'.of \subseteq DOMAIN recon.of \cup {ip}
      /\ recon'.of[ip] = Recorded(old, event, path, status, now)
      /\ \A j \in DOMAIN recon'.of : j # ip => recon'.of[j] = recon.of[j]
  BY Recording
<1>2. /\ old.scans \subseteq ScansSince(ip, 0)
      /\ old.errors \subseteq ErrorsSince(ip, 0)
  BY DEF RecordsTrue, NoRecord
<1>3. /\ recon'.of[ip].scans \subseteq ScansSince(ip, 0)'
      /\ recon'.of[ip].errors \subseteq ErrorsSince(ip, 0)'
  BY <1>1, <1>2 DEF Recorded
<1>4. ASSUME NEW j \in DOMAIN recon'.of, j # ip
      PROVE  /\ recon'.of[j].scans \subseteq ScansSince(j, 0)'
             /\ recon'.of[j].errors \subseteq ErrorsSince(j, 0)'
  BY <1>1, <1>4 DEF RecordsTrue
<1>. QED  BY <1>3, <1>4 DEF RecordsTrue

LEMMA TrueDeleted ==
  ASSUME RecordsTrue, NEW S, recon' = MapDelete(recon, S),
         \A j : /\ ScansSince(j, 0) \subseteq ScansSince(j, 0)'
                /\ ErrorsSince(j, 0) \subseteq ErrorsSince(j, 0)'
  PROVE  RecordsTrue'
BY DeletedKeys DEF RecordsTrue

LEMMA MemoryInit == Init => MemoryInv
BY DEF Init, MemoryInv, Times, Unanswered, RecordsTrue, RecentKept, Empty, EmptyMap

SameTraces ==
  /\ DOMAIN request' = DOMAIN request
  /\ \A q \in DOMAIN request :
       /\ request'[q].ip = request[q].ip /\ request'[q].hooked = request[q].hooked
       /\ request'[q].path = request[q].path /\ request'[q].start = request[q].start
       /\ request'[q].status = request[q].status /\ request'[q].end = request[q].end

\* A step that at most drops stale records.
LEMMA Undisturbed ==
  ASSUME TypeInv, MemoryInv, SameTraces, now' = now \/ now' = now + 1,
         NEW S, recon' = recon \/ recon' = MapDelete(recon, S),
         \A ip \in S : ip \in DOMAIN recon.of => recon.of[ip].seen < now' - ReconTTL
  PROVE  Times' /\ RecordsTrue' /\ (Roomy => RecentKept')
<1>0. /\ now \in Nat /\ ReconTTL \in Nat
      /\ \A q \in DOMAIN request : /\ request[q].start \in Nat /\ request[q].end \in Nat
                                   /\ request[q].hooked \in BOOLEAN
      /\ \A ip \in DOMAIN recon.of : recon.of[ip].seen \in Nat
  BY EngineAssumption DEF TypeInv, TypeOK, Exchange, Record
<1>1. Times'
  BY <1>0 DEF MemoryInv, Times, SameTraces
<1>2. \A j : /\ ScansSince(j, 0) \subseteq ScansSince(j, 0)'
             /\ ErrorsSince(j, 0) \subseteq ErrorsSince(j, 0)'
  <2>1. DOMAIN request \subseteq DOMAIN request'
    BY DEF SameTraces
  <2>. QED  BY <2>1, EventsStay DEF SameTraces
<1>3. RecordsTrue'
  <2>1. CASE recon' = recon
    BY <2>1, <1>2 DEF MemoryInv, RecordsTrue
  <2>2. CASE recon' = MapDelete(recon, S)
    BY <2>2, <1>2, TrueDeleted DEF MemoryInv
  <2>. QED  BY <2>1, <2>2
<1>4. ASSUME NEW j, NEW e, NEW scan \in BOOLEAN, NEW u \in Nat, u >= now' - ReconTTL,
             Holds(recon, j, e, scan, u)
      PROVE  Holds(recon', j, e, scan, u)
  <2>1. j \notin S
    BY <1>0, <1>4 DEF Holds
  <2>. QED  BY <2>1, <1>4, HoldsDeleted
<1>5. ASSUME Roomy, NEW r \in DOMAIN request', request'[r].hooked
      PROVE  LET q == request'[r]
             IN  /\ q.path = "probe" /\ q.start >= now' - ReconTTL
                      => Holds(recon', q.ip, Arrival(r), TRUE, q.start)
                 /\ Refusal(q.status) /\ q.end >= now' - ReconTTL
                      => Holds(recon', q.ip, AnswerOf(r), ScannerPath(q.path), q.end)
  <2> DEFINE q == request[r]
  <2>1. /\ r \in DOMAIN request
        /\ request'[r].ip = q.ip /\ q.hooked
        /\ request'[r].path = q.path /\ request'[r].start = q.start
        /\ request'[r].status = q.status /\ request'[r].end = q.end
    BY <1>5 DEF SameTraces
  <2>2. q.start \in Nat /\ q.end \in Nat /\ ScannerPath(q.path) \in BOOLEAN
    BY <2>1, <1>0 DEF ScannerPath
  <2>3. now' - ReconTTL >= now - ReconTTL
    BY <1>0
  <2>4. q.path = "probe" /\ q.start >= now - ReconTTL
          => Holds(recon, q.ip, Arrival(r), TRUE, q.start)
    BY <1>5, <2>1 DEF MemoryInv, RecentKept
  <2>5. Refusal(q.status) /\ q.end >= now - ReconTTL
          => Holds(recon, q.ip, AnswerOf(r), ScannerPath(q.path), q.end)
    BY <1>5, <2>1 DEF MemoryInv, RecentKept
  <2>. HIDE DEF q
  <2>6. q.path = "probe" /\ q.start >= now' - ReconTTL
          => Holds(recon', q.ip, Arrival(r), TRUE, q.start)
    <3>1. SUFFICES ASSUME q.path = "probe", q.start >= now' - ReconTTL
                   PROVE  Holds(recon', q.ip, Arrival(r), TRUE, q.start)
      OBVIOUS
    <3>2. q.start >= now - ReconTTL
      BY <3>1, <2>2, <2>3, <1>0
    <3>3. Holds(recon, q.ip, Arrival(r), TRUE, q.start)
      BY <3>1, <3>2, <2>4
    <3>. QED  BY <3>1, <3>3, <2>2, <1>4
  <2>7. Refusal(q.status) /\ q.end >= now' - ReconTTL
          => Holds(recon', q.ip, AnswerOf(r), ScannerPath(q.path), q.end)
    <3>1. SUFFICES ASSUME Refusal(q.status), q.end >= now' - ReconTTL
                   PROVE  Holds(recon', q.ip, AnswerOf(r), ScannerPath(q.path), q.end)
      OBVIOUS
    <3>2. q.end >= now - ReconTTL
      BY <3>1, <2>2, <2>3, <1>0
    <3>3. Holds(recon, q.ip, AnswerOf(r), ScannerPath(q.path), q.end)
      BY <3>1, <3>2, <2>5
    <3>. QED  BY <3>1, <3>3, <2>2, <1>4
  <2>. QED  BY <2>1, <2>6, <2>7
<1>6. Roomy => RecentKept'
  BY <1>5 DEF RecentKept
<1>. QED  BY <1>1, <1>3, <1>6

\* A step that leaves the history alone.
LEMMA HistoryUnchanged ==
  ASSUME TypeInv, MemoryInv, SameTraces, now' = now \/ now' = now + 1, recon' = recon
  PROVE  Times' /\ RecordsTrue' /\ (Roomy => RecentKept')
<1>1. PICK S : S = {}
  OBVIOUS
<1>2. \A ip \in S : ip \in DOMAIN recon.of => recon.of[ip].seen < now' - ReconTTL
  BY <1>1
<1>. QED  BY <1>2, Undisturbed

\* What arrives leaves the requests before it as they were.
LEMMA ArrivedTraces ==
  ASSUME TypeInv, MemoryInv, now' = now, NEW r, NEW ip, NEW peer, NEW path, NEW solution,
         NEW url, NEW stage,
         Arrived(r, ip, peer, path, solution, url, stage)
  PROVE  /\ r \notin DOMAIN request /\ DOMAIN request' = DOMAIN request \cup {r}
         /\ \A q \in DOMAIN request : request'[q] = request[q]
         /\ request'[r].ip = ip /\ request'[r].hooked = (stage = "analyzing") /\ request'[r].path = path
         /\ request'[r].start = now /\ request'[r].status = 0 /\ request'[r].end = 0
         /\ Times' /\ Unanswered'
         /\ \A j : /\ ScansSince(j, 0) \subseteq ScansSince(j, 0)'
                   /\ ErrorsSince(j, 0) \subseteq ErrorsSince(j, 0)'
<1>0. now \in Nat
  BY DEF TypeInv, TypeOK
<1>1. /\ r \notin DOMAIN request /\ DOMAIN request' = DOMAIN request \cup {r}
      /\ \A q \in DOMAIN request : request'[q] = request[q]
      /\ request'[r].ip = ip /\ request'[r].hooked = (stage = "analyzing") /\ request'[r].path = path
      /\ request'[r].start = now /\ request'[r].status = 0 /\ request'[r].end = 0
  BY DEF Arrived, Put
<1>2. \A j : /\ ScansSince(j, 0) \subseteq ScansSince(j, 0)'
             /\ ErrorsSince(j, 0) \subseteq ErrorsSince(j, 0)'
  <2>1. DOMAIN request \subseteq DOMAIN request'
    BY <1>1
  <2>. QED  BY <2>1, <1>1, EventsStay
<1>3. Times' /\ Unanswered'
  BY <1>0, <1>1 DEF MemoryInv, Times, Unanswered
<1>. QED  BY <1>1, <1>2, <1>3

LEMMA MemoryArrived ==
  ASSUME TypeInv, MemoryInv, NEW r \in Requests, NEW ip \in IPs, NEW peer, NEW path,
         NEW solution, NEW url, NEW stage,
         Arrived(r, ip, peer, path, solution, url, stage), now' = now,
         recon' = IF stage = "analyzing" /\ path = "probe"
                  THEN RecordReconAttempt(recon, ip, Arrival(r), path, 404, now)
                  ELSE recon
  PROVE  MemoryInv'
<1>0. /\ now \in Nat /\ ReconTTL \in Nat /\ History(recon) /\ Arrival(r) \in Event
      /\ \A q \in DOMAIN request : /\ request[q].start \in Nat /\ request[q].end \in Nat
                                   /\ request[q].hooked \in BOOLEAN
  BY EngineAssumption, TypeParts DEF RequestOK, Exchange, Arrival, Event
<1>1. /\ r \notin DOMAIN request /\ DOMAIN request' = DOMAIN request \cup {r}
      /\ \A q \in DOMAIN request : request'[q] = request[q]
      /\ request'[r].ip = ip /\ request'[r].hooked = (stage = "analyzing") /\ request'[r].path = path
      /\ request'[r].start = now /\ request'[r].status = 0 /\ request'[r].end = 0
      /\ Times' /\ Unanswered'
      /\ \A j : /\ ScansSince(j, 0) \subseteq ScansSince(j, 0)'
                /\ ErrorsSince(j, 0) \subseteq ErrorsSince(j, 0)'
  BY ArrivedTraces
<1>2. RecordsTrue'
  <2>1. CASE stage = "analyzing" /\ path = "probe"
    <3>0. /\ r \in DOMAIN request' /\ request'[r].hooked /\ request'[r].ip = ip
          /\ request'[r].path = "probe" /\ request'[r].start >= 0
      <4>1. (stage = "analyzing") = TRUE
        BY <2>1
      <4>2. request'[r].hooked
        BY <4>1, <1>1
      <4>. QED  BY <4>2, <1>0, <1>1, <2>1
    <3>1. Arrival(r) \in ProbesSince(ip, 0)'
      BY <3>0 DEF ProbesSince, Arrival
    <3>2. Arrival(r) \in ErrorsSince(ip, 0)' /\ Arrival(r) \in ScansSince(ip, 0)'
      BY <3>1 DEF ErrorsSince, ScansSince
    <3>. QED  BY <2>1, <3>2, <1>1, TrueRecorded DEF MemoryInv
  <2>2. CASE ~(stage = "analyzing" /\ path = "probe")
    BY <2>2, <1>1 DEF MemoryInv, RecordsTrue
  <2>. QED  BY <2>1, <2>2
<1>3. ASSUME Roomy, NEW j, NEW e, NEW scan \in BOOLEAN, NEW u \in Nat, u <= now,
             Holds(recon, j, e, scan, u)
      PROVE  Holds(recon', j, e, scan, u)
  <2>1. CASE stage = "analyzing" /\ path = "probe"
    BY <2>1, <1>0, <1>3, HoldsRecorded
  <2>2. CASE ~(stage = "analyzing" /\ path = "probe")
    BY <2>2, <1>3
  <2>. QED  BY <2>1, <2>2
<1>4. ASSUME Roomy, NEW s \in DOMAIN request', request'[s].hooked
      PROVE  LET q == request'[s]
             IN  /\ q.path = "probe" /\ q.start >= now' - ReconTTL
                      => Holds(recon', q.ip, Arrival(s), TRUE, q.start)
                 /\ Refusal(q.status) /\ q.end >= now' - ReconTTL
                      => Holds(recon', q.ip, AnswerOf(s), ScannerPath(q.path), q.end)
  <2>1. CASE s = r
    <3>1. ~Refusal(request'[s].status)
      BY <2>1, <1>1 DEF Refusal
    <3>2. path = "probe" => Holds(recon', ip, Arrival(r), TRUE, now)
      <4>1. SUFFICES ASSUME path = "probe" PROVE Holds(recon', ip, Arrival(r), TRUE, now)
        OBVIOUS
      <4>2. recon' = RecordReconAttempt(recon, ip, Arrival(r), path, 404, now)
        BY <4>1, <2>1, <1>1, <1>4
      <4>3. Refusal(404)
        BY DEF Refusal
      <4>4. Holds(recon', ip, Arrival(r), ScannerPath(path), now)
        BY <4>2, <4>3, <1>0, NewEventHolds
      <4>. QED  BY <4>1, <4>4 DEF ScannerPath, Holds
    <3>. QED  BY <3>1, <3>2, <2>1, <1>1
  <2>2. CASE s # r
    <3> DEFINE q == request[s]
    <3>1. s \in DOMAIN request /\ request'[s] = q
      BY <2>2, <1>1
    <3>2. /\ q.start \in Nat /\ q.start <= now /\ q.end \in Nat /\ q.end <= now
          /\ ScannerPath(q.path) \in BOOLEAN
      BY <3>1, <1>0 DEF MemoryInv, Times, ScannerPath
    <3>3. /\ q.path = "probe" /\ q.start >= now - ReconTTL
               => Holds(recon, q.ip, Arrival(s), TRUE, q.start)
          /\ Refusal(q.status) /\ q.end >= now - ReconTTL
               => Holds(recon, q.ip, AnswerOf(s), ScannerPath(q.path), q.end)
      BY <3>1, <1>4 DEF MemoryInv, RecentKept
    <3>. HIDE DEF q
    <3>4. q.path = "probe" /\ q.start >= now - ReconTTL
            => Holds(recon', q.ip, Arrival(s), TRUE, q.start)
      <4>1. SUFFICES ASSUME q.path = "probe", q.start >= now - ReconTTL
                     PROVE  Holds(recon', q.ip, Arrival(s), TRUE, q.start)
        OBVIOUS
      <4>2. Holds(recon, q.ip, Arrival(s), TRUE, q.start)
        BY <4>1, <3>3
      <4>. QED  BY <4>2, <3>2, <1>3, <1>4
    <3>5. Refusal(q.status) /\ q.end >= now - ReconTTL
            => Holds(recon', q.ip, AnswerOf(s), ScannerPath(q.path), q.end)
      BY <3>2, <3>3, <1>3, <1>4
    <3>. QED  BY <3>1, <3>4, <3>5
  <2>. QED  BY <2>1, <2>2
<1>5. Roomy => RecentKept'
  BY <1>4 DEF RecentKept
<1>. QED  BY <1>1, <1>2, <1>5 DEF MemoryInv

LEMMA MemoryAnswered ==
  ASSUME TypeInv, MemoryInv, NEW r \in DOMAIN request, NEW status, NEW stage,
         NEW ip, ip = request[r].ip, NEW path, path = request[r].path,
         NEW hooked, hooked = request[r].hooked,
         request[r].stage \notin {"finishing", "done"}, stage \in {"finishing", "done"},
         WriteHead(r, status, stage)
  PROVE  MemoryInv'
<1>0. /\ now \in Nat /\ ReconTTL \in Nat /\ History(recon)
      /\ \A q \in DOMAIN request : /\ request[q].start \in Nat /\ request[q].end \in Nat
                                   /\ request[q].hooked \in BOOLEAN
      /\ r \in Requests /\ ip \in IPs /\ AnswerOf(r) \in Event
      /\ request[r].status = 0 /\ now' = now
  BY EngineAssumption, TypeParts
  DEF RequestOK, Exchange, AnswerOf, Event, MemoryInv, Unanswered, WriteHead
<1>1. /\ DOMAIN request' = DOMAIN request
      /\ \A q \in DOMAIN request : q # r => request'[q] = request[q]
      /\ request'[r].ip = ip /\ request'[r].hooked = hooked /\ request'[r].path = path
      /\ request'[r].start = request[r].start /\ request'[r].status = status
      /\ request'[r].end = now /\ request'[r].stage = stage
  BY TypeParts DEF WriteHead, RequestOK, Exchange
<1>2. \A j : /\ ScansSince(j, 0) \subseteq ScansSince(j, 0)'
             /\ ErrorsSince(j, 0) \subseteq ErrorsSince(j, 0)'
  <2>1. ~Refusal(request[r].status)
    BY <1>0 DEF Refusal
  <2>2. DOMAIN request \subseteq DOMAIN request'
    BY <1>1
  <2>. QED  BY <2>1, <2>2, <1>1, EventsStay
<1>3. Times' /\ Unanswered'
  BY <1>0, <1>1 DEF MemoryInv, Times, Unanswered
<1>4. CASE hooked /\ Refusal(status)
  <2>1. recon' = RecordReconAttempt(recon, ip, AnswerOf(r), path, status, now)
    BY <1>4 DEF WriteHead
  <2>2. RecordsTrue'
    <3>0. /\ r \in DOMAIN request' /\ request'[r].hooked /\ request'[r].ip = ip
          /\ Refusal(request'[r].status) /\ request'[r].end >= 0
      BY <1>0, <1>1, <1>4
    <3>1. AnswerOf(r) \in RefusalsSince(ip, 0)'
      BY <3>0 DEF RefusalsSince, AnswerOf
    <3>2. AnswerOf(r)[1] = r
      BY DEF AnswerOf
    <3>3. AnswerOf(r) \in ErrorsSince(ip, 0)'
      BY <3>1 DEF ErrorsSince
    <3>4. ScannerPath(path) => AnswerOf(r) \in ScansSince(ip, 0)'
      BY <3>1, <3>2, <1>1 DEF ScansSince
    <3>. QED  BY <2>1, <3>3, <3>4, <1>0, <1>2, TrueRecorded DEF MemoryInv
  <2>3. ASSUME Roomy, NEW j, NEW e, NEW scan \in BOOLEAN, NEW u \in Nat, u <= now,
               Holds(recon, j, e, scan, u)
        PROVE  Holds(recon', j, e, scan, u)
    <3>. QED  BY <2>1, <2>3, <1>0, HoldsRecorded
  <2>4. Holds(recon', ip, AnswerOf(r), ScannerPath(path), now)
    <3>. QED  BY <2>1, <1>0, <1>4, NewEventHolds
  <2>5. ASSUME Roomy, NEW s \in DOMAIN request', request'[s].hooked
        PROVE  LET q == request'[s]
               IN  /\ q.path = "probe" /\ q.start >= now' - ReconTTL
                        => Holds(recon', q.ip, Arrival(s), TRUE, q.start)
                   /\ Refusal(q.status) /\ q.end >= now' - ReconTTL
                        => Holds(recon', q.ip, AnswerOf(s), ScannerPath(q.path), q.end)
    <3> DEFINE q == request[s]
    <3>1. /\ s \in DOMAIN request /\ q.hooked
          /\ request'[s].ip = q.ip /\ request'[s].path = q.path /\ request'[s].start = q.start
      BY <2>5, <1>1
    <3>2. /\ q.start \in Nat /\ q.start <= now /\ q.end \in Nat /\ q.end <= now
          /\ ScannerPath(q.path) \in BOOLEAN
      BY <3>1, <1>0 DEF MemoryInv, Times, ScannerPath
    <3>3. /\ q.path = "probe" /\ q.start >= now - ReconTTL
               => Holds(recon, q.ip, Arrival(s), TRUE, q.start)
          /\ Refusal(q.status) /\ q.end >= now - ReconTTL
               => Holds(recon, q.ip, AnswerOf(s), ScannerPath(q.path), q.end)
      BY <3>1, <2>5 DEF MemoryInv, RecentKept
    <3>4. s # r => request'[s].status = q.status /\ request'[s].end = q.end
      BY <3>1, <1>1
    <3>. HIDE DEF q
    <3>5. q.path = "probe" /\ q.start >= now - ReconTTL
            => Holds(recon', q.ip, Arrival(s), TRUE, q.start)
      BY <3>2, <3>3, <2>3, <2>5
    <3>6. Refusal(q.status) /\ q.end >= now - ReconTTL
            => Holds(recon', q.ip, AnswerOf(s), ScannerPath(q.path), q.end)
      BY <3>2, <3>3, <2>3, <2>5
    <3>7. CASE s # r
      BY <3>1, <3>4, <3>5, <3>6, <3>7, <1>0
    <3>8. CASE s = r
      BY <3>1, <3>5, <3>8, <2>4, <1>0, <1>1
    <3>. QED  BY <3>7, <3>8
  <2>6. Roomy => RecentKept'
    BY <2>5 DEF RecentKept
  <2>. QED  BY <1>3, <2>2, <2>6 DEF MemoryInv
<1>5. CASE ~(hooked /\ Refusal(status))
  <2>1. recon' = recon
    BY <1>5 DEF WriteHead
  <2>2. RecordsTrue'
    BY <2>1, <1>2 DEF MemoryInv, RecordsTrue
  <2>3. ASSUME Roomy, NEW s \in DOMAIN request', request'[s].hooked
        PROVE  LET q == request'[s]
               IN  /\ q.path = "probe" /\ q.start >= now' - ReconTTL
                        => Holds(recon', q.ip, Arrival(s), TRUE, q.start)
                   /\ Refusal(q.status) /\ q.end >= now' - ReconTTL
                        => Holds(recon', q.ip, AnswerOf(s), ScannerPath(q.path), q.end)
    <3>1. s \in DOMAIN request /\ request[s].hooked
      BY <2>3, <1>1
    <3>2. LET q == request[s]
          IN  /\ q.path = "probe" /\ q.start >= now - ReconTTL
                   => Holds(recon, q.ip, Arrival(s), TRUE, q.start)
              /\ Refusal(q.status) /\ q.end >= now - ReconTTL
                   => Holds(recon, q.ip, AnswerOf(s), ScannerPath(q.path), q.end)
      BY <3>1, <2>3 DEF MemoryInv, RecentKept
    <3>3. CASE s # r
      BY <3>1, <3>2, <3>3, <2>1, <1>0, <1>1
    <3>4. CASE s = r
      BY <3>1, <3>2, <3>4, <2>1, <1>0, <1>1, <1>5
    <3>. QED  BY <3>3, <3>4
  <2>4. Roomy => RecentKept'
    BY <2>3 DEF RecentKept
  <2>. QED  BY <1>3, <2>2, <2>4 DEF MemoryInv
<1>. QED  BY <1>4, <1>5

LEMMA MemoryNext == TypeInv /\ MemoryInv /\ [Next]_vars => MemoryInv'
<1> SUFFICES ASSUME TypeInv, MemoryInv, [Next]_vars PROVE MemoryInv'
  OBVIOUS
<1>t. now \in Nat /\ RequestOK
  BY TypeParts
<1>1. ASSUME NEW r \in Requests, NEW ip \in IPs, NEW peer \in Peers,
             EnterExcluded(r, ip, peer) \/ EnterUndecodable(r, ip, peer)
      PROVE  MemoryInv'
  BY <1>1, MemoryArrived DEF EnterExcluded, EnterUndecodable
<1>2. ASSUME NEW r \in Requests, NEW ip \in IPs, NEW peer \in Peers,
             NEW path \in PathsSent, NEW solution \in SolutionsSent, NEW url \in UrlsSent,
             Enter(r, ip, peer, path, solution, url)
      PROVE  MemoryInv'
  BY <1>2, MemoryArrived DEF Enter
<1>3. ASSUME NEW r \in Requests, Clean(r) \/ Wake(r) \/ Pass(r)
      PROVE  MemoryInv'
  <2>1. SameTraces /\ Unanswered'
    BY <1>3, <1>t DEF Clean, Wake, Pass, SameTraces, RequestOK, Exchange, Stage,
                      MemoryInv, Unanswered
  <2>2. now' = now /\ recon' = recon
    BY <1>3 DEF Clean, Wake, Pass
  <2>. QED  BY <2>1, <2>2, HistoryUnchanged DEF MemoryInv
<1>4. ASSUME NEW r \in Requests, NEW risk \in Risks, Judge(r, risk)
      PROVE  MemoryInv'
  <2>1. SameTraces /\ Unanswered'
    <3>1. r \in DOMAIN request /\ request[r].stage = "analyzing" /\ request[r] \in Exchange
      BY <1>4, <1>t DEF Judge, Stage, RequestOK
    <3> DEFINE score   == RiskScore(r, risk)
               action  == MitigationAction(sessions, request[r].peer, score, request[r].solution,
                                          request[r].url, now)
               blocked == /\ action # "error"
                        /\ \/ mode = "block" /\ score >= blockThreshold
                           \/ action = "block"
               stage   == IF action = "error" THEN "failed"
                          ELSE IF action = "throttle" /\ ~blocked THEN "sleeping" ELSE "analyzed"
    <3>2. request' = [request EXCEPT ![r] =
              [request[r] EXCEPT !.stage = stage, !.score = score, !.scored = now,
                                 !.action = action, !.blocked = blocked]]
      BY <1>4 DEF Judge
    <3>3. stage \in {"sleeping", "analyzed", "failed"}
      OBVIOUS
    <3>. HIDE DEF score, action, blocked, stage
    <3>. QED  BY <3>1, <3>2, <3>3 DEF SameTraces, Exchange, MemoryInv, Unanswered
  <2>2. now' = now
    BY <1>4 DEF Judge
  <2> DEFINE S == {ip \in {request[r].ip} : Stale(recon, ip, now)}
  <2>3. recon' = recon \/ recon' = MapDelete(recon, S)
    <3>1. Stale(recon, request[r].ip, now) => S = {request[r].ip}
      OBVIOUS
    <3>. HIDE DEF S
    <3>. QED  BY <3>1, <1>4 DEF Judge, AfterTaint
  <2>4. \A ip \in S : ip \in DOMAIN recon.of => recon.of[ip].seen < now' - ReconTTL
    <3>1. \A ip \in DOMAIN recon.of : recon.of[ip].seen \in Nat
      BY DEF TypeInv, TypeOK, Record
    <3>. QED  BY <3>1, <2>2, <1>t, EngineAssumption DEF Stale
  <2>. HIDE DEF S
  <2>. QED  BY <2>1, <2>2, <2>3, <2>4, Undisturbed DEF MemoryInv
<1>5. ASSUME NEW r \in Requests, Challenge(r) \/ Block(r)
      PROVE  MemoryInv'
  BY <1>5, MemoryAnswered DEF Challenge, Block, Stage
<1>6. ASSUME NEW r \in Requests, NEW status \in AppStatuses, Answer(r, status)
      PROVE  MemoryInv'
  BY <1>6, MemoryAnswered DEF Answer, Stage
<1>7. ASSUME NEW r \in Requests, Finish(r)
      PROVE  MemoryInv'
  <2>1. SameTraces /\ Unanswered'
    BY <1>7, <1>t DEF Finish, SameTraces, RequestOK, Exchange, Stage, MemoryInv, Unanswered
  <2>2. now' = now /\ recon' = recon
    BY <1>7 DEF Finish
  <2>. QED  BY <2>1, <2>2, HistoryUnchanged DEF MemoryInv
<1>8. CASE Cleanup
  <2> DEFINE S == {ip \in DOMAIN recon.of : recon.of[ip].seen < now - ReconTTL}
  <2>1. SameTraces /\ Unanswered'
    BY <1>8 DEF Cleanup, SameTraces, MemoryInv, Unanswered
  <2>2. now' = now /\ recon' = MapDelete(recon, S)
    BY <1>8 DEF Cleanup, Cleaned
  <2>3. \A ip \in S : ip \in DOMAIN recon.of => recon.of[ip].seen < now' - ReconTTL
    BY <2>2
  <2>. HIDE DEF S
  <2>. QED  BY <2>1, <2>2, <2>3, Undisturbed DEF MemoryInv
<1>9. CASE Tick
  <2>1. SameTraces /\ Unanswered'
    BY <1>9 DEF Tick, SameTraces, MemoryInv, Unanswered
  <2>2. now' = now + 1 /\ recon' = recon
    BY <1>9 DEF Tick
  <2>. QED  BY <2>1, <2>2, HistoryUnchanged DEF MemoryInv
<1>10. CASE UNCHANGED vars
  <2>1. SameTraces /\ Unanswered' /\ now' = now /\ recon' = recon
    BY <1>10 DEF vars, SameTraces, MemoryInv, Unanswered
  <2>. QED  BY <2>1, HistoryUnchanged DEF MemoryInv
<1>. QED  BY <1>1, <1>2, <1>3, <1>4, <1>5, <1>6, <1>7, <1>8, <1>9, <1>10 DEF Next

\* From events to sets of events.
LEMMA MemoryRemembers == TypeInv /\ MemoryInv => ReconRemembers
<1> SUFFICES ASSUME TypeInv, MemoryInv PROVE ReconRemembers
  OBVIOUS
<1> DEFINE t == now - ReconTTL
<1>0. /\ now \in Nat /\ ReconTTL \in Nat
      /\ \A ip \in DOMAIN recon.of : recon.of[ip].seen \in Nat
      /\ \A r \in DOMAIN request : request[r].start \in Nat /\ request[r].end \in Nat
  BY EngineAssumption DEF TypeInv, TypeOK, Record, Exchange
<1>1. ASSUME Roomy, NEW ip, NEW e \in ErrorsSince(ip, t)
      PROVE  \E u \in Nat : u >= t /\ Holds(recon, ip, e, e \in ScansSince(ip, t), u)
  <2>1. CASE e \in ProbesSince(ip, t)
    <3>1. PICK r \in DOMAIN request :
            /\ e = Arrival(r) /\ request[r].hooked /\ request[r].ip = ip
            /\ request[r].path = "probe" /\ request[r].start >= t
      BY <2>1 DEF ProbesSince
    <3>2. Holds(recon, ip, e, TRUE, request[r].start)
      BY <3>1, <1>1 DEF MemoryInv, RecentKept
    <3>. QED  BY <3>1, <3>2, <1>0 DEF Holds
  <2>2. CASE e \in RefusalsSince(ip, t) /\ e \notin ProbesSince(ip, t)
    <3>1. PICK r \in DOMAIN request :
            /\ e = AnswerOf(r) /\ request[r].hooked /\ request[r].ip = ip
            /\ Refusal(request[r].status) /\ request[r].end >= t
      BY <2>2 DEF RefusalsSince
    <3>2. Holds(recon, ip, e, ScannerPath(request[r].path), request[r].end)
      BY <3>1, <1>1 DEF MemoryInv, RecentKept
    <3>3. e[1] = r
      BY <3>1 DEF AnswerOf
    <3>4. e \in ScansSince(ip, t) => ScannerPath(request[r].path)
      BY <3>3, <2>2 DEF ScansSince
    <3>. QED  BY <3>1, <3>2, <3>4, <1>0 DEF Holds
  <2>. QED  BY <2>1, <2>2 DEF ErrorsSince
<1>2. ASSUME Roomy, NEW ip \in IPs, ErrorsSince(ip, t) # {}
      PROVE  /\ MapHas(recon, ip) /\ ~Stale(recon, ip, now)
             /\ ScansSince(ip, t) \subseteq recon.of[ip].scans
             /\ ErrorsSince(ip, t) \subseteq recon.of[ip].errors
  <2>1. ScansSince(ip, t) \subseteq ErrorsSince(ip, t)
    BY DEF ScansSince, ErrorsSince
  <2>2. \A e \in ErrorsSince(ip, t) :
          /\ ip \in DOMAIN recon.of /\ e \in recon.of[ip].errors
          /\ e \in ScansSince(ip, t) => e \in recon.of[ip].scans
          /\ recon.of[ip].seen >= t
    <3>1. SUFFICES ASSUME NEW e \in ErrorsSince(ip, t)
                   PROVE  /\ ip \in DOMAIN recon.of /\ e \in recon.of[ip].errors
                          /\ e \in ScansSince(ip, t) => e \in recon.of[ip].scans
                          /\ recon.of[ip].seen >= t
      OBVIOUS
    <3>2. PICK u \in Nat : u >= t /\ Holds(recon, ip, e, e \in ScansSince(ip, t), u)
      BY <1>1, <1>2
    <3>. QED  BY <3>2, <1>0 DEF Holds
  <2>3. ip \in DOMAIN recon.of /\ recon.of[ip].seen >= t
    BY <2>2, <1>2
  <2>4. MapHas(recon, ip) /\ ~Stale(recon, ip, now)
    BY <2>3, <1>0 DEF MapHas, Stale
  <2>. QED  BY <2>1, <2>2, <2>4
<1>. QED  BY <1>2 DEF ReconRemembers, MemoryInv, RecordsTrue

\* Whatever the order in which requests are answered, judged and cleaned up
\* after, a client's record is what it did: nothing else is in it and, with room
\* for every client, nothing of the last ReconTTL is missing.
THEOREM Remembers == Spec => []ReconRemembers
<1>1. Init => TypeInv /\ MemoryInv
  BY TypeInit, MemoryInit
<1>2. (TypeInv /\ MemoryInv) /\ [Next]_vars => (TypeInv /\ MemoryInv)'
  BY TypeNext, MemoryNext
<1>. QED  BY <1>1, <1>2, MemoryRemembers, PTL DEF Spec

-----------------------------------------------------------------------------
(* What reconnaissance costs.                                              *)

\* More events, more taint.
LEMMA ScoreGrows ==
  ASSUME NEW rec, IsFiniteSet(rec.scans), IsFiniteSet(rec.errors),
         NEW scans, scans \subseteq rec.scans, NEW errs, errs \subseteq rec.errors
  PROVE  Score([scans |-> scans, errors |-> errs]) <= Score(rec)
<1>1. /\ Cardinality(scans) <= Cardinality(rec.scans)
      /\ Cardinality(errs) <= Cardinality(rec.errors)
      /\ IsFiniteSet(scans) /\ IsFiniteSet(errs)
  BY FS_Subset
<1>2. /\ Cardinality(scans) \in Nat /\ Cardinality(rec.scans) \in Nat
      /\ Cardinality(errs) \in Nat /\ Cardinality(rec.errors) \in Nat
  BY <1>1, FS_CardinalityType
<1>. QED  BY <1>1, <1>2 DEF Score

\* What the last ReconTTL is worth is a lower bound of the taint.
LEMMA TaintCounts ==
  ASSUME TypeInv, ReconRemembers, Roomy, NEW ip \in IPs,
         Score([scans  |-> ScansSince(ip, now - ReconTTL),
                errors |-> ErrorsSince(ip, now - ReconTTL)]) > 15
  PROVE  Taint(recon, ip, now) \in Nat /\ Taint(recon, ip, now) > 15
<1> DEFINE scans == ScansSince(ip, now - ReconTTL)
           errs  == ErrorsSince(ip, now - ReconTTL)
<1>1. CASE errs = {}
  <2>1. scans = {}
    BY <1>1 DEF ScansSince, ErrorsSince
  <2>2. Score([scans |-> scans, errors |-> errs]) = 0
    BY <1>1, <2>1, FS_EmptySet DEF Score
  <2>. QED  BY <2>2
<1>2. CASE errs # {}
  <2>1. /\ MapHas(recon, ip) /\ ~Stale(recon, ip, now)
        /\ scans \subseteq recon.of[ip].scans /\ errs \subseteq recon.of[ip].errors
    BY <1>2 DEF ReconRemembers
  <2>2. IsFiniteSet(recon.of[ip].scans) /\ IsFiniteSet(recon.of[ip].errors)
    BY <2>1 DEF TypeInv, FiniteRecords, MapHas
  <2>. HIDE DEF scans, errs
  <2>3. Score([scans |-> scans, errors |-> errs]) <= Score(recon.of[ip])
    BY <2>1, <2>2, ScoreGrows
  <2>4. Score(recon.of[ip]) \in Nat
    BY <2>2, ScoreType
  <2>5. Score([scans |-> scans, errors |-> errs]) \in Int
    <3>1. IsFiniteSet(scans) /\ IsFiniteSet(errs)
      BY <2>1, <2>2, FS_Subset
    <3>2. Cardinality(scans) \in Nat /\ Cardinality(errs) \in Nat
      BY <3>1, FS_CardinalityType
    <3>. QED  BY <3>2 DEF Score
  <2>6. Score([scans |-> scans, errors |-> errs]) > 15
    BY DEF scans, errs
  <2>. QED  BY <2>1, <2>3, <2>4, <2>5, <2>6 DEF Taint
<1>. QED  BY <1>1, <1>2

\* A score of 15 or more is let through by a session in force alone.
LEMMA RiskyAction ==
  ASSUME NEW ss, NEW peer, NEW score \in Nat, score >= 15, NEW solution, NEW url, NEW t
  PROVE  LET action == MitigationAction(ss, peer, score, solution, url, t)
         IN  /\ InForce(ss, peer, t) => action = "none"
             /\ ~InForce(ss, peer, t) => action \in {"block", "challenge", "redirect", "error"}
BY DEF MitigationAction

LEMMA KillChainStep ==
  ASSUME TypeInv, ReconRemembers, Roomy, NEW r \in Requests, NEW risk \in Risks, Judge(r, risk),
         IsSensitiveTarget(request[r].path),
         Score([scans  |-> ScansSince(request[r].ip, now - ReconTTL),
                errors |-> ErrorsSince(request[r].ip, now - ReconTTL)]) > 15,
         ~InForce(sessions, request[r].peer, now)
  PROVE  request'[r].blocked \/ request'[r].action \in {"challenge", "redirect", "error"}
<1> DEFINE q       == request[r]
           score   == RiskScore(r, risk)
           action  == MitigationAction(sessions, q.peer, score, q.solution, q.url, now)
           blocked == /\ action # "error"
                        /\ \/ mode = "block" /\ score >= blockThreshold
                           \/ action = "block"
<1>1. r \in DOMAIN request /\ q \in Exchange
  BY DEF Judge, Stage, TypeInv, TypeOK
<1>2. Taint(recon, q.ip, now) \in Nat /\ Taint(recon, q.ip, now) > 15
  BY <1>1, TaintCounts DEF Exchange
<1>3. score \in Nat /\ score >= 15
  BY <1>2, EngineAssumption DEF RiskScore
<1>4. action \in {"block", "challenge", "redirect", "error"}
  BY <1>3, RiskyAction
<1>5. request'[r].action = action /\ request'[r].blocked = blocked
  <2>1. request' = [request EXCEPT ![r] =
              [q EXCEPT !.stage = IF action = "error" THEN "failed"
                                  ELSE IF action = "throttle" /\ ~blocked
                                  THEN "sleeping" ELSE "analyzed",
                        !.score = score, !.scored = now,
                        !.action = action, !.blocked = blocked]]
    BY DEF Judge
  <2>. HIDE DEF score, action, blocked
  <2>. QED  BY <2>1, <1>1 DEF Exchange
<1>6. CASE action = "block"
  <2>1. blocked = TRUE
    BY <1>6
  <2>. HIDE DEF blocked, action
  <2>. QED  BY <2>1, <1>5
<1>7. CASE action # "block"
  <2>. HIDE DEF blocked, action
  <2>. QED  BY <1>4, <1>5, <1>7
<1>. QED  BY <1>6, <1>7

\* With room for every client, reconnaissance worth more than 15 within the last
\* ReconTTL stops every match on a sensitive endpoint: the request is blocked,
\* challenged or stopped by an error unless its peer's session is in force.
THEOREM KillChainHolds == Spec => KillChain
<1>1. Init => TypeInv /\ MemoryInv
  BY TypeInit, MemoryInit
<1>2. (TypeInv /\ MemoryInv) /\ [Next]_vars => (TypeInv /\ MemoryInv)'
  BY TypeNext, MemoryNext
<1>3. TypeInv /\ MemoryInv =>
        \A r \in Requests, risk \in Risks :
          /\ Judge(r, risk) /\ Roomy
          /\ IsSensitiveTarget(request[r].path)
          /\ Score([scans  |-> ScansSince(request[r].ip, now - ReconTTL),
                    errors |-> ErrorsSince(request[r].ip, now - ReconTTL)]) > 15
          /\ ~InForce(sessions, request[r].peer, now)
          => \/ request'[r].blocked
             \/ request'[r].action \in {"challenge", "redirect", "error"}
  BY KillChainStep, MemoryRemembers
<1>. QED  BY <1>1, <1>2, <1>3, PTL DEF Spec, KillChain

-----------------------------------------------------------------------------
(* Who is let through.  A session is always one that a challenge left: its *)
(* peer's challenge is never found again once it has expired, so no        *)
(* solution is ever verified and no pass is given.                         *)

Judged ==
  \A r \in DOMAIN request :
    /\ request[r].scored <= now
    /\ request[r].stage = "analyzing"
         => request[r].action = "none" /\ request[r].score = 0

Challenged(r, peer) ==
  r \in DOMAIN request /\ request[r].action = "challenge" /\ request[r].peer = peer

SessionsChallenged ==
  \A p \in DOMAIN sessions :
    \E r \in Requests : Challenged(r, p) /\ sessions[p].expires = request[r].scored + ChallengeMs

AdmissionInv == Judged /\ SessionsChallenged /\ AdmittedByChallenge

\* Requests that have been judged stay so.
LEMMA VerdictsStay ==
  ASSUME TypeInv, AdmissionInv,
         now' = now \/ now' = now + 1, UNCHANGED sessions,
         DOMAIN request \subseteq DOMAIN request',
         \A q \in DOMAIN request :
           /\ request'[q].peer = request[q].peer /\ request'[q].score = request[q].score
           /\ request'[q].scored = request[q].scored /\ request'[q].action = request[q].action
           /\ request'[q].blocked = request[q].blocked
           /\ request'[q].stage = "analyzing" => request[q].stage = "analyzing",
         \A q \in DOMAIN request' \ DOMAIN request :
           request'[q].scored = 0 /\ request'[q].score = 0 /\ request'[q].action = "none"
  PROVE  AdmissionInv'
<1>0. now \in Nat /\ \A q \in DOMAIN request : request[q].scored \in Nat
  BY DEF TypeInv, TypeOK, Exchange
<1>1. Judged'
  BY <1>0 DEF AdmissionInv, Judged
<1>2. SessionsChallenged'
  BY DEF AdmissionInv, SessionsChallenged, Challenged
<1>3. AdmittedByChallenge'
  BY DEF AdmissionInv, AdmittedByChallenge
<1>. QED  BY <1>1, <1>2, <1>3 DEF AdmissionInv

\* What process leaves of the sessions.
LEMMA MitigationSessions ==
  ASSUME NEW ss, NEW peer, NEW score, NEW solution, NEW url, NEW t,
         NEW p \in DOMAIN AfterMitigation(ss, peer, score, solution, url, t)
  PROVE  LET after == AfterMitigation(ss, peer, score, solution, url, t)
         IN  \/ p \in DOMAIN ss /\ after[p] = ss[p]
             \/ /\ p = peer /\ MitigationAction(ss, peer, score, solution, url, t) = "challenge"
                /\ after[p].expires = t + ChallengeMs
<1>1. \/ Live(ss, peer, t) = ss
      \/ Live(ss, peer, t) = Drop(ss, {peer})
  BY DEF Live
<1>2. MitigationAction(ss, peer, score, solution, url, t) # "redirect"
  <2>1. CASE InForce(ss, peer, t)
    BY <2>1 DEF MitigationAction
  <2>2. CASE ~InForce(ss, peer, t)
    <3>1. peer \notin DOMAIN Live(ss, peer, t)
      BY <2>2 DEF Live, Drop
    <3>2. ~VerifySolution(Live(ss, peer, t), peer, solution)
      BY <3>1 DEF VerifySolution
    <3>. QED  BY <3>2 DEF MitigationAction
  <2>. QED  BY <2>1, <2>2
<1>3. CASE MitigationAction(ss, peer, score, solution, url, t) = "challenge"
  BY <1>1, <1>3 DEF AfterMitigation, Put, Drop
<1>4. CASE MitigationAction(ss, peer, score, solution, url, t) # "challenge"
  BY <1>1, <1>2, <1>4 DEF AfterMitigation, Drop
<1>. QED  BY <1>3, <1>4

LEMMA AdmissionJudge ==
  ASSUME TypeInv, AdmissionInv, NEW r \in Requests, NEW risk \in Risks, Judge(r, risk),
         NEW peer, peer = request[r].peer, NEW solution, solution = request[r].solution,
         NEW url, url = request[r].url,
         NEW score, score = RiskScore(r, risk),
         NEW action, action = MitigationAction(sessions, peer, score, solution, url, now)
  PROVE  AdmissionInv'
<1> DEFINE blocked == /\ action # "error"
                        /\ \/ mode = "block" /\ score >= blockThreshold
                           \/ action = "block"
           stage   == IF action = "error" THEN "failed"
                      ELSE IF action = "throttle" /\ ~blocked THEN "sleeping" ELSE "analyzed"
<1>0. /\ now \in Nat /\ \A q \in DOMAIN request : request[q].scored \in Nat
      /\ DOMAIN request \subseteq Requests
  BY DEF TypeInv, TypeOK, Exchange
<1>1. r \in DOMAIN request /\ request[r] \in Exchange /\ request[r].stage = "analyzing"
  BY DEF Judge, Stage, TypeInv, TypeOK
<1>2. score \in Nat
  BY <1>1, TypeParts, RiskScoreType DEF TypeInv
<1>3. /\ DOMAIN request' = DOMAIN request
      /\ \A q \in DOMAIN request : q # r => request'[q] = request[q]
      /\ request'[r].stage = stage /\ request'[r].score = score
      /\ request'[r].scored = now /\ request'[r].action = action
      /\ request'[r].blocked = blocked /\ request'[r].peer = peer
  <2>1. request' = [request EXCEPT ![r] =
              [request[r] EXCEPT !.stage = stage, !.score = score, !.scored = now,
                                 !.action = action, !.blocked = blocked]]
    BY DEF Judge
  <2>. HIDE DEF blocked, stage
  <2>. QED  BY <2>1, <1>1 DEF Exchange
<1>4. /\ now' = now
      /\ sessions' = AfterMitigation(sessions, peer, score, solution, url, now)
  BY DEF Judge
<1>5. stage \in {"sleeping", "analyzed", "failed"}
  OBVIOUS
<1>. HIDE DEF blocked, stage
<1>6. Judged'
  BY <1>0, <1>3, <1>4, <1>5 DEF AdmissionInv, Judged
<1>7. \A q, p : Challenged(q, p) => q # r /\ Challenged(q, p)'
  BY <1>1, <1>3 DEF Challenged, AdmissionInv, Judged
<1>8. SessionsChallenged'
  <2>1. SUFFICES ASSUME NEW p \in DOMAIN sessions'
                 PROVE  \E q \in Requests : /\ Challenged(q, p)'
                                            /\ sessions'[p].expires = request'[q].scored + ChallengeMs
    BY DEF SessionsChallenged
  <2>2. CASE p \in DOMAIN sessions /\ sessions'[p] = sessions[p]
    <3>1. PICK q \in Requests : /\ Challenged(q, p)
                                /\ sessions[p].expires = request[q].scored + ChallengeMs
      BY <2>2 DEF AdmissionInv, SessionsChallenged
    <3>2. q # r /\ Challenged(q, p)' /\ q \in DOMAIN request
      BY <3>1, <1>7 DEF Challenged
    <3>. QED  BY <3>1, <3>2, <2>2, <1>3
  <2>3. CASE p = peer /\ action = "challenge" /\ sessions'[p].expires = now + ChallengeMs
    <3>1. Challenged(r, p)'
      BY <2>3, <1>1, <1>3 DEF Challenged
    <3>. QED  BY <3>1, <2>3, <1>3
  <2>4. \/ p \in DOMAIN sessions /\ sessions'[p] = sessions[p]
        \/ p = peer /\ action = "challenge" /\ sessions'[p].expires = now + ChallengeMs
    BY <2>1, <1>4, MitigationSessions
  <2>. QED  BY <2>2, <2>3, <2>4
<1>9. AdmittedByChallenge'
  <2>1. SUFFICES ASSUME NEW s \in DOMAIN request', request'[s].score >= 15,
                        ~request'[s].blocked, request'[s].action \in {"none", "throttle"}
                 PROVE  \E q \in DOMAIN request' :
                          /\ q # s
                          /\ request'[q].action = "challenge" /\ request'[q].peer = request'[s].peer
                          /\ request'[q].scored <= request'[s].scored
                          /\ request'[s].scored < request'[q].scored + ChallengeMs
    BY DEF AdmittedByChallenge
  <2>2. CASE s # r
    <3>1. s \in DOMAIN request /\ request'[s] = request[s]
      BY <2>2, <1>3
    <3>2. PICK q \in DOMAIN request :
            /\ q # s
            /\ request[q].action = "challenge" /\ request[q].peer = request[s].peer
            /\ request[q].scored <= request[s].scored
            /\ request[s].scored < request[q].scored + ChallengeMs
      BY <3>1, <2>1 DEF AdmissionInv, AdmittedByChallenge
    <3>3. q # r
      BY <3>2, <1>1 DEF AdmissionInv, Judged
    <3>. QED  BY <3>1, <3>2, <3>3, <1>3
  <2>3. CASE s = r
    <3>1. InForce(sessions, peer, now)
      BY <2>1, <2>3, <1>2, <1>3, RiskyAction
    <3>2. PICK q \in Requests : /\ Challenged(q, peer)
                                /\ sessions[peer].expires = request[q].scored + ChallengeMs
      BY <3>1 DEF InForce, AdmissionInv, SessionsChallenged
    <3>3. q # r /\ q \in DOMAIN request /\ request[q].action = "challenge"
          /\ request[q].peer = peer
      BY <3>2, <1>7 DEF Challenged
    <3>4. request[q].scored <= now /\ now < request[q].scored + ChallengeMs
      BY <3>1, <3>2, <3>3 DEF AdmissionInv, Judged, InForce
    <3>. QED  BY <2>3, <3>3, <3>4, <1>3
  <2>. QED  BY <2>2, <2>3
<1>. QED  BY <1>6, <1>8, <1>9 DEF AdmissionInv

LEMMA AdmissionInit == Init => AdmissionInv
BY DEF Init, AdmissionInv, Judged, SessionsChallenged, AdmittedByChallenge, Empty

LEMMA AdmissionArrived ==
  ASSUME TypeInv, AdmissionInv, NEW r, NEW ip, NEW peer, NEW path, NEW solution, NEW url, NEW stage,
         Arrived(r, ip, peer, path, solution, url, stage), UNCHANGED <<now, sessions>>
  PROVE  AdmissionInv'
<1>1. /\ r \notin DOMAIN request /\ DOMAIN request' = DOMAIN request \cup {r}
      /\ \A q \in DOMAIN request : request'[q] = request[q]
      /\ request'[r].scored = 0 /\ request'[r].score = 0 /\ request'[r].action = "none"
  BY DEF Arrived, Put
<1>2. DOMAIN request \subseteq DOMAIN request'
  BY <1>1
<1>. QED  BY <1>1, <1>2, VerdictsStay

LEMMA AdmissionWriteHead ==
  ASSUME TypeInv, AdmissionInv, NEW r \in DOMAIN request, NEW status,
         NEW stage \in {"finishing", "done"}, WriteHead(r, status, stage)
  PROVE  AdmissionInv'
<1>1. request[r] \in Exchange
  BY DEF TypeInv, TypeOK
<1>2. /\ DOMAIN request' = DOMAIN request
      /\ \A q \in DOMAIN request : q # r => request'[q] = request[q]
      /\ request'[r].peer = request[r].peer /\ request'[r].score = request[r].score
      /\ request'[r].scored = request[r].scored /\ request'[r].action = request[r].action
      /\ request'[r].blocked = request[r].blocked /\ request'[r].stage = stage
  BY <1>1 DEF WriteHead, Exchange
<1>3. DOMAIN request \subseteq DOMAIN request' /\ UNCHANGED <<now, sessions>>
  BY <1>2 DEF WriteHead
<1>. QED  BY <1>2, <1>3, VerdictsStay

\* Only the stage of a request changes, to one past analysis.
LEMMA AdmissionStage ==
  ASSUME TypeInv, AdmissionInv, NEW r \in DOMAIN request, NEW stage, stage # "analyzing",
         request' = [request EXCEPT ![r].stage = stage], UNCHANGED <<now, sessions>>
  PROVE  AdmissionInv'
<1>1. request[r] \in Exchange
  BY DEF TypeInv, TypeOK
<1>2. /\ DOMAIN request' = DOMAIN request
      /\ \A q \in DOMAIN request : q # r => request'[q] = request[q]
      /\ request'[r].peer = request[r].peer /\ request'[r].score = request[r].score
      /\ request'[r].scored = request[r].scored /\ request'[r].action = request[r].action
      /\ request'[r].blocked = request[r].blocked /\ request'[r].stage = stage
  BY <1>1 DEF Exchange
<1>3. DOMAIN request \subseteq DOMAIN request'
  BY <1>2
<1>. QED  BY <1>2, <1>3, VerdictsStay

LEMMA AdmissionNext == TypeInv /\ AdmissionInv /\ [Next]_vars => AdmissionInv'
<1> SUFFICES ASSUME TypeInv, AdmissionInv, [Next]_vars PROVE AdmissionInv'
  OBVIOUS
<1>1. ASSUME NEW r \in Requests, NEW ip \in IPs, NEW peer \in Peers,
             EnterExcluded(r, ip, peer) \/ EnterUndecodable(r, ip, peer)
      PROVE  AdmissionInv'
  BY <1>1, AdmissionArrived DEF EnterExcluded, EnterUndecodable
<1>2. ASSUME NEW r \in Requests, NEW ip \in IPs, NEW peer \in Peers,
             NEW path \in PathsSent, NEW solution \in SolutionsSent, NEW url \in UrlsSent,
             Enter(r, ip, peer, path, solution, url)
      PROVE  AdmissionInv'
  BY <1>2, AdmissionArrived DEF Enter
<1>3. ASSUME NEW r \in Requests, Clean(r) \/ Wake(r) \/ Pass(r)
      PROVE  AdmissionInv'
  <2>1. CASE Clean(r)
    BY <2>1, AdmissionStage DEF Clean, Stage
  <2>2. CASE Wake(r)
    BY <2>2, AdmissionStage DEF Wake, Stage
  <2>3. CASE Pass(r)
    BY <2>3, AdmissionStage DEF Pass, Stage
  <2>. QED  BY <1>3, <2>1, <2>2, <2>3
<1>4. ASSUME NEW r \in Requests, NEW risk \in Risks, Judge(r, risk)
      PROVE  AdmissionInv'
  BY <1>4, AdmissionJudge
<1>5. ASSUME NEW r \in Requests, Challenge(r) \/ Block(r)
      PROVE  AdmissionInv'
  BY <1>5, AdmissionWriteHead DEF Challenge, Block, Stage
<1>6. ASSUME NEW r \in Requests, NEW status \in AppStatuses, Answer(r, status)
      PROVE  AdmissionInv'
  BY <1>6, AdmissionWriteHead DEF Answer, Stage
<1>7. ASSUME NEW r \in Requests, Finish(r)
      PROVE  AdmissionInv'
  BY <1>7, AdmissionStage DEF Finish, Stage
<1>8. CASE Cleanup \/ Tick \/ UNCHANGED vars
  <2>1. /\ request' = request /\ sessions' = sessions
        /\ now' = now \/ now' = now + 1
    BY <1>8 DEF Cleanup, Tick, vars
  <2>. QED  BY <2>1, VerdictsStay
<1>. QED  BY <1>1, <1>2, <1>3, <1>4, <1>5, <1>6, <1>7, <1>8 DEF Next

\* A request that scores 15 or more is let through only if another request of
\* its peer was challenged less than ChallengeMs before it was judged, solved or not.
THEOREM AdmissionHolds == Spec => []AdmittedByChallenge
<1>1. Init => TypeInv /\ AdmissionInv
  BY TypeInit, AdmissionInit
<1>2. (TypeInv /\ AdmissionInv) /\ [Next]_vars => (TypeInv /\ AdmissionInv)'
  BY TypeNext, AdmissionNext
<1>3. TypeInv /\ AdmissionInv => AdmittedByChallenge
  BY DEF AdmissionInv
<1>. QED  BY <1>1, <1>2, <1>3, PTL DEF Spec

-----------------------------------------------------------------------------
(* The limits of the tables.  A full one makes room by deleting the key it *)
(* lists first: that leaves a place only as long as what it lists are its  *)
(* keys, each once, whatever the cleanups have dropped in between.         *)

\* The strengthening: finitely many keys, in a sequence of them.
TablesInv == Within(recon, MaxReconEntries) /\ Within(errors, ErrorCacheMax)

\* Recording makes room before it adds.
LEMMA RecordingWithin ==
  ASSUME NEW h, Within(h, MaxReconEntries), NEW ip, NEW event, NEW path, NEW status, NEW t
  PROVE  Within(RecordReconAttempt(h, ip, event, path, status, t), MaxReconEntries)
<1> DEFINE w   == WithRoom(h, ip)
           rec == IF MapHas(w, ip) THEN w.of[ip] ELSE NoRecord(t)
           new == Recorded(rec, event, path, status, t)
<1>1. MaxReconEntries \in Nat \ {0}
  BY EngineAssumption DEF EngineAssumption
<1>2. Within(w, MaxReconEntries) /\ (MapHas(w, ip) \/ MapSize(w) < MaxReconEntries)
  BY <1>1, RoomWithin DEF WithRoom
<1>3. RecordReconAttempt(h, ip, event, path, status, t) = MapSet(w, ip, new)
  BY DEF RecordReconAttempt
<1>. HIDE DEF w, new
<1>. QED  BY <1>1, <1>2, <1>3, SetWithin

\* The error cache adds first and makes room after it.
LEMMA CountingWithin ==
  ASSUME NEW cache, Within(cache, ErrorCacheMax), NEW ip
  PROVE  Within(CountedError(cache, ip), ErrorCacheMax)
<1> DEFINE count == IF MapHas(cache, ip) THEN cache.of[ip] ELSE 0
           added == MapSet(cache, ip, count + 1)
<1>1. ErrorCacheMax \in Nat \ {0} /\ MapSize(cache) \in Nat
  BY EngineAssumption, SizeType DEF EngineAssumption, Within
<1>2. Ordered(added) /\ MapSize(added) \in {MapSize(cache), MapSize(cache) + 1}
  BY SetOrdered DEF Within
<1>3. CountedError(cache, ip)
        = IF MapSize(added) > ErrorCacheMax THEN MapDeleteFirst(added) ELSE added
  BY DEF CountedError
<1>. HIDE DEF added
<1>4. CASE MapSize(added) > ErrorCacheMax
  <2>1. MapSize(added) = ErrorCacheMax + 1 /\ MapSize(added) # 0
    BY <1>1, <1>2, <1>4 DEF Within
  <2>2. Ordered(MapDeleteFirst(added)) /\ MapSize(MapDeleteFirst(added)) = MapSize(added) - 1
    BY <1>2, <2>1, DeleteFirstOrdered
  <2>. QED  BY <1>1, <1>3, <1>4, <2>1, <2>2 DEF Within
<1>5. CASE ~(MapSize(added) > ErrorCacheMax)
  BY <1>1, <1>2, <1>3, <1>5 DEF Within
<1>. QED  BY <1>4, <1>5

LEMMA TablesInit == Init => TablesInv
BY EmptyOrdered, EngineAssumption DEF Init, TablesInv, Within, EngineAssumption

LEMMA TablesNext == TablesInv /\ [Next]_vars => TablesInv'
<1> SUFFICES ASSUME TablesInv, [Next]_vars PROVE TablesInv'
  OBVIOUS
<1>0. Within(recon, MaxReconEntries) /\ Within(errors, ErrorCacheMax) /\ MaxReconEntries \in Nat
  BY EngineAssumption DEF TablesInv, EngineAssumption
<1>1. CASE UNCHANGED <<recon, errors>>
  BY <1>1 DEF TablesInv
<1>2. ASSUME NEW r \in Requests, NEW ip, NEW peer, NEW path, NEW solution, NEW url,
             Enter(r, ip, peer, path, solution, url)
      PROVE  TablesInv'
  BY <1>0, <1>2, RecordingWithin DEF Enter, TablesInv
<1>3. ASSUME NEW r \in Requests, NEW risk, Judge(r, risk)
      PROVE  TablesInv'
  BY <1>0, <1>3, DeleteWithin DEF Judge, AfterTaint, TablesInv
<1>4. ASSUME NEW r \in Requests, NEW status, NEW stage, WriteHead(r, status, stage)
      PROVE  TablesInv'
  BY <1>0, <1>4, RecordingWithin DEF WriteHead, TablesInv
<1>5. ASSUME NEW r \in Requests, Finish(r)
      PROVE  TablesInv'
  BY <1>0, <1>5, CountingWithin DEF Finish, TablesInv
<1>6. CASE Cleanup
  BY <1>0, <1>6, DeleteWithin DEF Cleanup, Cleaned, TablesInv
<1>7. ASSUME NEW r \in Requests,
             \/ \E ip \in IPs, peer \in Peers : EnterExcluded(r, ip, peer) \/ EnterUndecodable(r, ip, peer)
             \/ Clean(r) \/ Wake(r) \/ Pass(r)
      PROVE  TablesInv'
  BY <1>1, <1>7 DEF EnterExcluded, EnterUndecodable, Clean, Wake, Pass
<1>8. ASSUME NEW r \in Requests,
             Challenge(r) \/ Block(r) \/ \E status \in AppStatuses : Answer(r, status)
      PROVE  TablesInv'
  BY <1>4, <1>8 DEF Challenge, Block, Answer
<1>9. CASE Tick \/ UNCHANGED vars
  BY <1>1, <1>9 DEF Tick, vars
<1>. QED  BY <1>2, <1>3, <1>5, <1>6, <1>7, <1>8, <1>9 DEF Next

\* History and error cache never hold more than their limits, and list each
\* address once, whatever the interleaving of requests, verdicts and cleanups.
THEOREM TablesStayBounded == Spec => []TablesBounded
<1>1. TablesInv => TablesBounded
  BY DEF TablesInv, Within, Ordered, TablesBounded
<1>. QED  BY <1>1, TablesInit, TablesNext, PTL DEF Spec
=============================================================================
