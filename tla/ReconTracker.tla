---------------------------- MODULE ReconTracker ----------------------------
(***************************************************************************)
(* The memory of reconnaissance, src/core/recon-tracker.js: RECON_HISTORY  *)
(* is an ordered map from a client's address to its record.                *)
(*                                                                         *)
(* A score is a sum of weights, one per recorded event, so a record keeps  *)
(* its events and their weights are added where the score is read.  The    *)
(* ten paths of a record are never read and are left out.                  *)
(***************************************************************************)
EXTENDS Maps

CONSTANTS
  MaxReconEntries,   \* MAX_RECON_ENTRIES
  ReconTTL           \* RECON_TTL

\* The classes of paths the tracker and the engine tell apart: probe is a
\* scanner path the engine records on arrival, scanner one it does not.
Paths == {"plain", "probe", "scanner", "sensitive"}

ScannerPath(path) == path \in {"probe", "scanner"}

IsSensitiveTarget(path) == path = "sensitive"

\* Statuses that count as reconnaissance.
Refusal(status) == status \in {403, 404}

NoRecord(t) == [scans |-> {}, errors |-> {}, seen |-> t]

\* A record after one more event.
Recorded(rec, event, path, status, t) ==
  [scans  |-> rec.scans \cup (IF ScannerPath(path) THEN {event} ELSE {}),
   errors |-> rec.errors \cup (IF Refusal(status) THEN {event} ELSE {}),
   seen   |-> t]

\* Mutant: room is made one record too late.
WithRoomLate(history, ip) ==
  IF ~MapHas(history, ip) /\ MapSize(history) > MaxReconEntries
  THEN MapDeleteFirst(history) ELSE history

\* Room for a record of ip, at the expense of the first one added.
WithRoom(history, ip) ==
  IF ~MapHas(history, ip) /\ MapSize(history) >= MaxReconEntries
  THEN MapDeleteFirst(history) ELSE history

RecordReconAttempt(history, ip, event, path, status, t) ==
  LET h   == WithRoom(history, ip)
      rec == IF MapHas(h, ip) THEN h.of[ip] ELSE NoRecord(t)
  IN  MapSet(h, ip, Recorded(rec, event, path, status, t))

Stale(history, ip, t) == MapHas(history, ip) /\ t - history.of[ip].seen > ReconTTL

Score(rec) == 10 * Cardinality(rec.scans) + 2 * Cardinality(rec.errors)

\* getReputationTaint, its result and what it leaves of the history.
Taint(history, ip, t) ==
  IF MapHas(history, ip) /\ ~Stale(history, ip, t) THEN Score(history.of[ip]) ELSE 0

AfterTaint(history, ip, t) ==
  IF Stale(history, ip, t) THEN MapDelete(history, {ip}) ELSE history

\* Mutant: records are dropped a tick early.
CleanedEarly(history, t) ==
  MapDelete(history, {ip \in DOMAIN history.of : history.of[ip].seen <= t - ReconTTL})

\* The background cleanup.
Cleaned(history, t) ==
  MapDelete(history, {ip \in DOMAIN history.of : history.of[ip].seen < t - ReconTTL})
=============================================================================
