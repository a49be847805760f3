------------------------------ MODULE Reporting ------------------------------
(***************************************************************************)
(* src/core/logger.js: the history of events, in memory, the last          *)
(* maxHistory of any kind.  src/core/reporting.js: the timers that turn it *)
(* into reports, what a report says, and the reports kept on disk, which   *)
(* later reports are compared with.  A timer's callback is one step.       *)
(***************************************************************************)
EXTENDS Integers, SequencesExt, Maps

CONSTANTS
  Events,            \* attacks as the guards of index.js report them
  None,
  DAY,               \* units of the clock in a day
  Days, Interval,    \* kind of report -> days it covers, time between two
  quiet,             \* the logger is silent, or its level is above info
  maxHistory, maxStoredReports,
  many,              \* the counts recommendations start at
  Starts,            \* when the first process may start
  MaxEpochs, MaxEntries, MaxTime   \* bounds of restarts, events and the clock

VARIABLES
  now,
  history,     \* logger.history
  timers,      \* pending, each with its kind, whether it comes back, and when
  files,       \* the reports directory, last written last
  epoch,       \* how often the history has begun: history variable
  starts,      \* when each process started: history variable
  entries,     \* all that was stored, with its epoch: history variable
  log          \* all reports made: history variable

vars == <<now, history, timers, files, epoch, starts, entries, log>>

Kinds == DOMAIN Days

LastOf(list, n) == SubSeq(list, IF Len(list) > n THEN Len(list) - n + 1 ELSE 1, Len(list))
Flag(f, test)   == IF test THEN {f} ELSE {}
Members(list)   == {list[i] : i \in DOMAIN list}

-----------------------------------------------------------------------------
(* The logger.                                                             *)

\* attack: what the engine passes holds address, method and matches one level down,
\* where they are not looked for.
EngineEvent(blocked) ==
  [rule |-> "unknown", ip |-> "unknown", url |-> "/", severity |-> "medium",
   category |-> "unknown", blocked |-> blocked]

AttackEntry(e) == [type |-> "attack", at |-> now, event |-> e]

Message == [type |-> "message", at |-> now, event |-> None]

\* _store
Stored(list, e) ==
  IF Len(list) + 1 > maxHistory THEN Tail(Append(list, e)) ELSE Append(list, e)

\* _log, at the level of a report's message.
Logged(list) == IF quiet THEN list ELSE Stored(list, Message)

-----------------------------------------------------------------------------
(* What a report says of a list of events.                                 *)

Attacks(list) == SelectSeq(list, LAMBDA e : e.type = "attack")

Since(list, at) == SelectSeq(list, LAMBDA e : e.at > at)

Tally(attacks, field) ==
  [v \in {a.event[field] : a \in Members(attacks)} |->
     Len(SelectSeq(attacks, LAMBDA a : a.event[field] = v))]

\* The n most frequent, the first seen first among equals.
Top(attacks, field, n) ==
  LET tally    == Tally(attacks, field)
      first(v) == CHOOSE i \in DOMAIN attacks :
                    /\ attacks[i].event[field] = v
                    /\ \A j \in 1 .. i - 1 : attacks[j].event[field] # v
      ahead(v, w) == tally[v] > tally[w] \/ (tally[v] = tally[w] /\ first(v) < first(w))
  IN  [v \in {v \in DOMAIN tally : Cardinality({w \in DOMAIN tally : ahead(w, v)}) < n} |-> tally[v]]

Blocked(attacks) == Len(SelectSeq(attacks, LAMBDA a : a.event.blocked))

\* _generateSummary.  Entries have an action and no field blocked, so that every
\* response is counted as one that was only logged.
Summary(attacks) ==
  [total      |-> Len(attacks),
   attackers  |-> Cardinality(DOMAIN Tally(attacks, "ip")),
   blocked    |-> Blocked(attacks),
   detected   |-> Len(attacks) - Blocked(attacks),
   bySeverity |-> Tally(attacks, "severity"),
   byCategory |-> Tally(attacks, "category"),
   byResponse |-> [r \in {r \in {"detected"} : attacks # <<>>} |-> Len(attacks)]]

\* _analyzeEndpoints, of the ten most attacked: attacks, attackers and severity.
Endpoints(attacks) ==
  LET at(u)       == SelectSeq(attacks, LAMBDA a : a.event.url = u)
      severest(u) == LET known == DOMAIN Tally(at(u), "severity")
                     IN  CASE "critical" \in known -> "critical"
                           [] "high" \in known /\ "critical" \notin known -> "high"
                           [] "medium" \in known /\ {"critical", "high"} \cap known = {} -> "medium"
                           [] OTHER -> "low"
  IN  [u \in DOMAIN Top(attacks, "url", 10) |->
         [attacks |-> Len(at(u)), attackers |-> Cardinality(DOMAIN Tally(at(u), "ip")),
          severity |-> severest(u)]]

\* _generateTimeline: by date, today the last.
Timeline(attacks, days) ==
  LET today == now \div DAY
      of(d) == SelectSeq(attacks, LAMBDA a : a.at \div DAY = d)
  IN  [d \in today - days + 1 .. today |->
         [attacks |-> Len(of(d)), blocked |-> Blocked(of(d)),
          ips |-> Cardinality(DOMAIN Tally(of(d), "ip"))]]

\* _generateRecommendations, by their area.
Recommendations(summary, endpoints, topAttackers, shift, persistent) ==
  LET count(c) == IF c \in DOMAIN summary.byCategory THEN summary.byCategory[c] ELSE 0
  IN  Flag("endpoint_protection", \E u \in DOMAIN endpoints : endpoints[u].severity = "critical")
      \cup Flag("rate_limiting", \E u \in DOMAIN endpoints : endpoints[u].attacks > many.volume)
      \cup Flag("rule_tuning",
             summary.total > many.attacks /\ 10 * summary.blocked < 8 * summary.total)
      \cup Flag("ip_blocking", \E ip \in DOMAIN topAttackers : topAttackers[ip] > many.repeats)
      \cup Flag("input_validation", 10 * count("injection") > 3 * summary.total)
      \cup Flag("file_access", count("path-traversal") > many.traversals)
      \cup Flag("strategy", shift)
      \cup Flag("firewall", persistent # {})

-----------------------------------------------------------------------------
(* The reports on disk.                                                    *)

\* _compareWithPrevious: the newest report of the kind is taken for the current one,
\* which is not saved yet.
Comparison(total, kind) ==
  LET same == SelectSeq(files, LAMBDA r : r.period = kind)
      prev == same[Len(same) - 1]
  IN  IF Len(same) < 2 THEN None
      ELSE [with  |-> prev.at,
            trend |-> IF 5 * total > 6 * prev.summary.total THEN "increasing"
                      ELSE IF 5 * total < 4 * prev.summary.total THEN "decreasing"
                      ELSE "stable"]

\* _loadStoredReports, in the order of their names: by kind, then by date.
ByName ==
  SetToSortSeq(Members(files), LAMBDA r, s :
    \/ r.period = "14d" /\ s.period # "14d"
    \/ r.period = s.period /\ r.at < s.at)

\* _analyzeVectorShift: the first two by name, the oldest taken for the current one.
ShiftedToApi ==
  LET curr == ByName[1].summary.byCategory
      prev == ByName[2].summary.byCategory
      before(c) == IF c \in DOMAIN prev THEN prev[c] ELSE 0
  IN  /\ Len(ByName) >= 2
      /\ \E c \in DOMAIN curr \cap {"api", "injection"} :
           \/ 2 * curr[c] > 3 * before(c)
           \/ 2 * curr[c] < before(c) /\ before(c) > many.shift

\* _findPersistentAttackers, in the first three by name.
PersistentAttackers ==
  LET three      == LastOf(Reverse(ByName), 3)
      naming(ip) == {i \in DOMAIN three : ip \in DOMAIN three[i].topAttackers}
  IN  IF Len(files) < 2 THEN {}
      ELSE {ip \in UNION {DOMAIN three[i].topAttackers : i \in DOMAIN three} :
              /\ Cardinality(naming(ip)) >= 2
              /\ Cardinality(UNION {DOMAIN three[i].summary.byCategory : i \in naming(ip)}) >= 2}

\* _analyzeEvolution: attacks by half of the period; the trend counts all events.
Evolution(list, days) ==
  LET half   == now - (days * DAY) \div 2
      first  == SelectSeq(Since(list, now - days * DAY), LAMBDA e : e.at < half)
      second == Since(list, half)
  IN  [firstHalf |-> Len(Attacks(first)), secondHalf |-> Len(Attacks(second)),
       trend |-> IF 10 * Len(second) > 13 * Len(first) THEN "accelerating"
                 ELSE IF 10 * Len(second) < 7 * Len(first) THEN "decelerating" ELSE "stable"]

\* _detectNewPatterns
NewPatterns(list, days) ==
  LET cut   == now - days * DAY
      older == SelectSeq(Since(list, cut - days * DAY), LAMBDA e : e.at < cut)
  IN  DOMAIN Tally(Attacks(Since(list, cut)), "rule") \ DOMAIN Tally(Attacks(older), "rule")

\* What only a monthly report has; _calculateROI counts what was blocked.
Extended(list, days) ==
  [evolution  |-> Evolution(list, days),
   newPatterns |-> NewPatterns(list, days),
   shift      |-> ShiftedToApi,
   persistent |-> PersistentAttackers,
   saved      |-> Blocked(Attacks(list))]

\* generateReport, with what _generateMonthlyReport adds.
Report(list, kind) ==
  LET days     == Days[kind]
      attacks  == Attacks(Since(list, now - days * DAY))
      summary  == Summary(attacks)
      ends     == Endpoints(attacks)
      ips      == Top(attacks, "ip", 5)
      extended == IF kind = "monthly" THEN Extended(list, days) ELSE None
  IN  [period |-> kind, at |-> now, summary |-> summary, endpoints |-> ends,
       topRules |-> Top(attacks, "rule", 5), topAttackers |-> ips,
       timeline |-> Timeline(attacks, days),
       recommendations |-> Recommendations(summary, ends, ips,
          kind = "monthly" /\ ShiftedToApi, IF kind = "monthly" THEN PersistentAttackers ELSE {}),
       comparison |-> Comparison(summary.total, kind), extended |-> extended]

\* _saveReport: one file for a kind and a date; then all but the last written go.
Saved(r) ==
  LastOf(Append(SelectSeq(files, LAMBDA s :
                  ~(s.period = r.period /\ s.at \div DAY = r.at \div DAY)), r),
         maxStoredReports)

-----------------------------------------------------------------------------
\* _getNextReportTime
NextReportTime(k) == ((now + Interval[k] - 1) \div Interval[k]) * Interval[k]

\* Mutant: the repetitions start with the first report.
TimersAligned ==
  {[kind |-> k, once |-> TRUE, due |-> NextReportTime(k)] : k \in Kinds}
  \cup {[kind |-> k, once |-> FALSE, due |-> NextReportTime(k) + Interval[k]] : k \in Kinds}

\* _scheduleReports: once at the next multiple of the interval, and every interval from
\* now on.
Timers ==
  {[kind |-> k, once |-> TRUE, due |-> NextReportTime(k)] : k \in Kinds}
  \cup {[kind |-> k, once |-> FALSE, due |-> now + Interval[k]] : k \in Kinds}

Init ==
  /\ now \in Starts /\ starts = <<now>>
  /\ history = <<>> /\ files = <<>> /\ epoch = 1
  /\ timers = Timers
  /\ entries = <<>> /\ log = <<>>

Noted(e) == [at |-> e.at, type |-> e.type, event |-> e.event, epoch |-> epoch]

\* attack, whatever the level.
Attack(e) ==
  /\ Len(entries) < MaxEntries
  /\ history' = Stored(history, AttackEntry(e))
  /\ entries' = Append(entries, Noted(AttackEntry(e)))
  /\ UNCHANGED <<now, timers, files, epoch, starts, log>>

\* A timer's callback: _generate14DayReport or _generateMonthlyReport.  Its own
\* message may push the oldest event out of what it reports on.
Generate(t) ==
  /\ t \in timers /\ t.due <= now
  /\ timers' = (timers \ {t}) \cup
       (IF t.once THEN {} ELSE {[t EXCEPT !.due = @ + Interval[t.kind]]})
  /\ history' = Logged(history)
  /\ entries' = IF quiet THEN entries ELSE Append(entries, Noted(Message))
  /\ LET r == Report(Logged(history), t.kind)
     IN  /\ files' = Saved(r)
         /\ log' = Append(log, [report |-> r, epoch |-> epoch, upto |-> Len(entries')])
  /\ UNCHANGED <<now, epoch, starts>>

\* clearHistory
ClearHistory ==
  /\ epoch < MaxEpochs /\ history # <<>>
  /\ history' = <<>> /\ epoch' = epoch + 1
  /\ UNCHANGED <<now, timers, files, starts, entries, log>>

\* The process ends and another starts: the files stay.
Restart ==
  /\ epoch < MaxEpochs
  /\ history' = <<>> /\ epoch' = epoch + 1
  /\ timers' = Timers /\ starts' = Append(starts, now)
  /\ UNCHANGED <<now, files, entries, log>>

\* Timers are not late.
Tick ==
  /\ now < MaxTime /\ \A t \in timers : t.due > now
  /\ now' = now + 1
  /\ UNCHANGED <<history, timers, files, epoch, starts, entries, log>>

Next ==
  \/ \E e \in Events : Attack(e)
  \/ \E blocked \in BOOLEAN : Attack(EngineEvent(blocked))
  \/ \E t \in timers : Generate(t)
  \/ ClearHistory
  \/ Restart
  \/ Tick

Spec == Init /\ [][Next]_vars

-----------------------------------------------------------------------------
\* Type correctness and the two limits.
TypeOK ==
  /\ now \in 0 .. MaxTime /\ epoch \in 1 .. MaxEpochs /\ Len(starts) <= epoch
  /\ Len(history) <= maxHistory /\ Len(files) <= maxStoredReports
  /\ \A t \in timers : t.kind \in Kinds /\ t.due >= now
  /\ \A r \in Members(files) : r.period \in Kinds /\ r.at <= now

\* The moments from its start on at which a process makes reports of kind k: the first
\* multiple of the interval, and from then on not the multiples but whole intervals
\* after the start.
Due(start, k, at) ==
  \/ at >= start /\ at < start + Interval[k] /\ at % Interval[k] = 0
  \/ at > start /\ (at - start) % Interval[k] = 0

\* When the n-th process ended, or the time if it runs.
EndOf(n) == IF n < Len(starts) THEN starts[n + 1] ELSE now

\* A report is true of what the process can know: it counts the attacks of its period
\* that are among the last maxHistory events since the process, or the history,
\* began, its own message included; its tables add up to that count, the
\* timeline but for the part of a day before its first.  Reports of each kind are made
\* when a process that runs has one due and at no other time; and on disk is the last of
\* each kind and date, of the latest maxStoredReports of them, whichever timers fired, were
\* set anew by a restart, or hit the same day.  Of what a report says of earlier ones
\* (comparison, shift, persistent attackers) and of the recommendations nothing is stated.
ReportsTrue ==
  /\ log # <<>> =>
       LET n     == Len(log)
           r     == log[n].report
           known == {i \in log[n].upto - maxHistory + 1 .. log[n].upto :
                       /\ i \in DOMAIN entries /\ entries[i].epoch = log[n].epoch
                       /\ entries[i].type = "attack"
                       /\ entries[i].at > r.at - Days[r.period] * DAY}
           today == r.at \div DAY
       IN  /\ r.summary.total = Cardinality(known)
           /\ r.summary.blocked = Cardinality({i \in known : entries[i].event.blocked})
           /\ SumFunction(r.summary.byCategory) = r.summary.total
           /\ SumFunction([u \in DOMAIN r.endpoints |-> r.endpoints[u].attacks]) = r.summary.total
           /\ SumFunction([d \in DOMAIN r.timeline |-> r.timeline[d].attacks])
                = Cardinality({i \in known : entries[i].at \div DAY > today - Days[r.period]})
           /\ r.extended # None =>
                /\ r.extended.evolution.firstHalf + r.extended.evolution.secondHalf <= r.summary.total
                /\ r.extended.newPatterns \subseteq {entries[i].event.rule : i \in known}
  /\ \A k \in Kinds, n \in DOMAIN starts : \A at \in starts[n] .. EndOf(n) - 1 :
       Due(starts[n], k, at) =>
         \E i \in DOMAIN log : log[i].report.period = k /\ log[i].report.at = at
  /\ \A i \in DOMAIN log : \E n \in DOMAIN starts :
       log[i].report.at <= EndOf(n) /\ Due(starts[n], log[i].report.period, log[i].report.at)
  /\ LET name(n) == <<log[n].report.period, log[n].report.at \div DAY>>
         latest  == {n \in DOMAIN log : \A m \in n + 1 .. Len(log) : name(m) # name(n)}
     IN  files = LastOf([i \in 1 .. Cardinality(latest) |->
                    log[CHOOSE n \in latest :
                          Cardinality({m \in latest : m < n}) = i - 1].report], maxStoredReports)

=============================================================================
