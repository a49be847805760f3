----------------------------- MODULE SmartAnomaly -----------------------------
(***************************************************************************)
(* src/modules/smart-anomaly.js: scores by signal, weighted by feedback,   *)
(* and by category of rules; what an address scored before.  No await.     *)
(*                                                                         *)
(* What the text of a request shows is the request: its signals, and which *)
(* of its fields match or resemble which pattern (as no pattern of rules/  *)
(* has the flag g, none remembers where it matched last).  Scores are in   *)
(* units of 1 / unit, so that every share of true positives up to          *)
(* MaxFeedback verdicts is whole.                                          *)
(***************************************************************************)
EXTENDS Integers, SequencesExt, Maps

CONSTANTS
  Requests,            \* what may be sent
  RuleSets,            \* what the rules directory may hold: lists of rules
  Signals, BaseWeight, \* the signals, and their weights
  Verdicts,            \* feedback: sets of signals
  KnownCategories,     \* those an unknown binary payload belongs to none of
  VectorOf,            \* SIGNAL_TO_VECTOR
  safeMode, unit,
  minSamples,          \* 5 verdicts before a weight adapts
  HISTORY_WINDOW, MAX_HISTORY,
  LastActivity,        \* bound: when clients fall silent
  MaxFeedback, MaxLoads, MaxCalls, MaxTime   \* bounds of the counters and the clock

\* Of the constants.  Nothing that a text shows is what happened earlier.
SmartAssumption ==
  /\ {unit, minSamples, MAX_HISTORY, MaxLoads} \subseteq Nat \ {0} /\ unit % 10 = 0
  /\ {HISTORY_WINDOW, MaxFeedback, MaxTime} \subseteq Nat
  /\ BaseWeight \in [Signals -> Nat]
  /\ \A q \in Requests : "behavioral_shift" \notin q.signals

VARIABLES
  now,
  feedbackStore,     \* signal -> true and false positives
  loads,             \* how often the rules were loaded
  categoryProfiles,  \* category -> patterns and severities of its rules
  history,           \* ANOMALY_HISTORY: address -> scores with their time
  log                \* the calls made, each with its result

vars == <<now, feedbackStore, loads, categoryProfiles, history, log>>

Least(a, b) == IF a < b THEN a ELSE b
Flag(f, test) == IF test THEN {f} ELSE {}
LastOf(list, n) == SubSeq(list, IF Len(list) > n THEN Len(list) - n + 1 ELSE 1, Len(list))

-----------------------------------------------------------------------------
(* Weights.                                                                *)

NoFeedback == [tp |-> 0, fp |-> 0]

FeedbackOf(s) == IF s \in DOMAIN feedbackStore THEN feedbackStore[s] ELSE NoFeedback

\* Mutant: a signal that was never right loses all of its weight.
EffectiveWeightMuted(s) ==
  LET fb    == FeedbackOf(s)
      total == fb.tp + fb.fp
  IN  IF total < minSamples THEN BaseWeight[s] * unit
      ELSE BaseWeight[s] * ((unit * fb.tp) \div total)

\* _getEffectiveWeight: the share of true positives, a tenth at least.
EffectiveWeight(s) ==
  LET fb    == FeedbackOf(s)
      total == fb.tp + fb.fp
      share == (unit * fb.tp) \div total
  IN  IF total < minSamples THEN BaseWeight[s] * unit
      ELSE BaseWeight[s] * (IF 10 * share < unit THEN unit \div 10 ELSE share)

WeightOf(signals) == FoldSet(LAMBDA s, sum : sum + EffectiveWeight(s), 0, signals)

\* _scoreToSeverity
ScoreToSeverity(score) ==
  CASE score >= 25 * unit -> "critical"
    [] score >= 15 * unit /\ score < 25 * unit -> "high"
    [] score >=  8 * unit /\ score < 15 * unit -> "medium"
    [] score >=  3 * unit /\ score <  8 * unit -> "low"
    [] OTHER -> "info"

-----------------------------------------------------------------------------
(* Rules: a load adds to the profiles, and nothing is ever taken from them.*)

\* _buildProfiles, for the rules in their order.
WithRules(profiles, rules) ==
  FoldLeft(LAMBDA known, rule :
      LET old == IF rule.category \in DOMAIN known THEN known[rule.category]
                 ELSE [patterns |-> <<>>, severities |-> <<>>]
      IN  Put(known, rule.category, [patterns   |-> old.patterns \o rule.patterns,
                                     severities |-> Append(old.severities, rule.severity)]),
    profiles, rules)

Fields == <<"url", "body", "query", "headers", "cookies", "userAgent">>

\* What a category tries: each pattern on each field, in this order.
Tried(profile) ==
  FoldLeft(LAMBDA tried, p : tried \o [i \in DOMAIN Fields |-> <<p, Fields[i]>>],
           <<>>, profile.patterns)

\* Of a pattern and a field.  A profile has no severity of its own, so a direct match
\* always adds 10, and a likeness above 0.7, of 0.75 or 0.8 then, 5 times itself.
MatchScore(q, t) ==
  IF t \in q.direct THEN 10 * unit
  ELSE IF t \in DOMAIN q.likeness /\ q.likeness[t] > 70 /\ ~safeMode
  THEN (5 * unit * q.likeness[t]) \div 100 ELSE 0

\* _calculateCategoryAnomaly: a pattern adds once for every field it matches; and every
\* critical and high rule adds, up to two of each, matched or not.
CategoryScore(q, profile) ==
  LET number(sev) == Least(2, Len(SelectSeq(profile.severities, LAMBDA s : s = sev)))
  IN  FoldLeft(LAMBDA sum, t : sum + MatchScore(q, t), 0, Tried(profile))
        + unit * number("critical") + (unit * number("high")) \div 2

CategoryScores(q) ==
  LET score(c) == CategoryScore(q, categoryProfiles[c])
  IN  [c \in {c \in DOMAIN categoryProfiles : score(c) > 0} |-> score(c)]

\* Only the first five matches of a category are kept.
Resembles(q, c) ==
  LET matched == SelectSeq(Tried(categoryProfiles[c]), LAMBDA t : MatchScore(q, t) > 0)
  IN  \E i \in 1 .. Least(5, Len(matched)) : matched[i] \notin q.direct

\* _detectNovelAnomalies
NovelSignals(q, scores) ==
  LET total == SumFunction(scores)
  IN  Flag("fragmented_attack", 0 < total /\ total < 5 * unit)
      \cup Flag("encoded_attack", q.layers > 1 /\ total > 10 * unit)
      \cup Flag("multi_vector_fuzzy",
             Cardinality({c \in DOMAIN scores : Resembles(q, c)}) >= 2)
      \cup Flag("unknown_binary_payload",
             q.binary /\ DOMAIN scores \cap KnownCategories = {})

-----------------------------------------------------------------------------
(* What an address scored before.                                          *)

HistoryOf(ip) == IF ip \in DOMAIN history THEN history[ip] ELSE <<>>

\* _calculateTemporalAnomaly.  No indicators are ever kept (line 532 looks for them
\* where they are not), so attacks split over requests are never found.
Shift(ip, score) ==
  LET recent == LastOf(HistoryOf(ip), 5)
      sum    == FoldLeft(LAMBDA a, h : a + h.score, 0, recent)
  IN  /\ Len(HistoryOf(ip)) >= 2
      /\ score * Len(recent) > 2 * sum /\ score > 10 * unit

\* _updateHistory at the time t: the front is shifted out while it is too old, then
\* once more beyond MAX_HISTORY.
Updated(list, score, t) ==
  LET new   == Append(list, [at |-> t, score |-> score])
      fresh == {i \in DOMAIN new : new[i].at >= t - HISTORY_WINDOW}
      first == CHOOSE i \in fresh : \A j \in fresh : i <= j
  IN  LastOf(SubSeq(new, first, Len(new)), MAX_HISTORY)

-----------------------------------------------------------------------------
Init ==
  /\ now = 0 /\ feedbackStore = Empty /\ history = Empty /\ log = <<>>
  /\ loads = 1
  /\ \E rules \in RuleSets : categoryProfiles = WithRules(Empty, rules)

\* analyze, and check, which returns nothing where the score is zero.  The severity
\* is that of the score before what happened earlier is added.
Analyze(q) ==
  LET scores  == CategoryScores(q)
      signals == q.signals \cup NovelSignals(q, scores)
      base    == WeightOf(signals) + SumFunction(scores)
      shift   == Shift(q.ip, base)
      score   == base + (IF shift THEN EffectiveWeight("behavioral_shift") ELSE 0)
      all     == signals \cup Flag("behavioral_shift", shift)
  IN  /\ Len(log) < MaxCalls /\ now <= LastActivity
      /\ history' = Put(history, q.ip, Updated(HistoryOf(q.ip), score, now))
      /\ log' = Append(log, [ip |-> q.ip, at |-> now, score |-> score, base |-> base,
                             signals |-> all, categories |-> DOMAIN scores,
                             severity |-> ScoreToSeverity(base),
                             vectors |-> {VectorOf[s] : s \in all \cap DOMAIN VectorOf}])
      /\ UNCHANGED <<now, feedbackStore, loads, categoryProfiles>>

Feedback(signals, field) ==
  /\ signals # {}
  /\ \A s \in signals : FeedbackOf(s).tp + FeedbackOf(s).fp < MaxFeedback
  /\ feedbackStore' = [s \in DOMAIN feedbackStore \cup signals |->
       IF s \in signals THEN [FeedbackOf(s) EXCEPT ![field] = @ + 1] ELSE feedbackStore[s]]
  /\ UNCHANGED <<now, loads, categoryProfiles, history, log>>

\* reload: the rules may have changed since.
Reload(rules) ==
  /\ loads < MaxLoads
  /\ loads' = loads + 1
  /\ categoryProfiles' = WithRules(categoryProfiles, rules)
  /\ UNCHANGED <<now, feedbackStore, history, log>>

\* The collector.
Collect ==
  /\ history' = Drop(history,
       {ip \in DOMAIN history : now - history[ip][Len(history[ip])].at > HISTORY_WINDOW})
  /\ UNCHANGED <<now, feedbackStore, loads, categoryProfiles, log>>

Tick ==
  /\ now < MaxTime /\ now' = now + 1
  /\ UNCHANGED <<feedbackStore, loads, categoryProfiles, history, log>>

Next ==
  \/ \E q \in Requests : Analyze(q)
  \/ \E signals \in Verdicts, field \in {"tp", "fp"} : Feedback(signals, field)
  \/ \E rules \in RuleSets : Reload(rules)
  \/ Collect
  \/ Tick

Spec == Init /\ [][Next]_vars

\* Time passes and the collector's interval fires.
FairSpec == Spec /\ WF_vars(Collect) /\ WF_vars(Tick)

-----------------------------------------------------------------------------
\* Type correctness, and the bounds of the history.
TypeOK ==
  /\ now \in 0 .. MaxTime /\ loads \in 1 .. MaxLoads
  /\ feedbackStore \in [DOMAIN feedbackStore -> [tp : 0 .. MaxFeedback, fp : 0 .. MaxFeedback]]
  /\ \A ip \in DOMAIN history : Len(history[ip]) \in 1 .. MAX_HISTORY
  /\ \A n \in DOMAIN log : log[n].severity \in {"info", "low", "medium", "high", "critical"}

\* Feedback, however it comes and whatever is reloaded in between, neither silences a
\* signal nor lifts it above its own weight ("Never drops below 10% base weight",
\* README.md:84).
WeightsKept ==
  \A s \in Signals : /\ 10 * EffectiveWeight(s) >= BaseWeight[s] * unit
                     /\ EffectiveWeight(s) <= BaseWeight[s] * unit

\* So every signal reported contributes: a request that shows one scores at least a
\* tenth of its weight, and more for a shift than it has alone.
NeverMuted ==
  \A n \in DOMAIN log :
    /\ 10 * log[n].score >= unit * FoldSet(LAMBDA s, sum : sum + BaseWeight[s], 0, log[n].signals)
    /\ "behavioral_shift" \in log[n].signals => log[n].score > log[n].base

\* What is known of an address is what it scored last: each of these scores is within the
\* window of its last request, and a call that is missing is not, or is before the last
\* MAX_HISTORY.
HistoriesExact ==
  \A ip \in DOMAIN history :
    LET list     == history[ip]
        own      == {n \in DOMAIN log : log[n].ip = ip}
        after(n) == Cardinality({m \in own : m > n})
    IN  /\ \A i \in DOMAIN list : \E n \in own : after(n) = Len(list) - i
        /\ \A n \in own :
             IF after(n) < Len(list)
             THEN /\ list[Len(list) - after(n)] = [at |-> log[n].at, score |-> log[n].score]
                  /\ \A m \in own : log[m].at - log[n].at <= HISTORY_WINDOW
             ELSE \/ after(n) >= MAX_HISTORY
                  \/ \E m \in own : log[m].at - log[n].at > HISTORY_WINDOW

\* An address is forgotten only when all it did is out of the window; and a shift is
\* reported only against two requests just before, one in the window of the other.
ScoresExact ==
  /\ HistoriesExact
  /\ \A n \in DOMAIN log : log[n].ip \notin DOMAIN history => now - log[n].at > HISTORY_WINDOW
  /\ \A n \in DOMAIN log : "behavioral_shift" \in log[n].signals =>
       \E k \in 1 .. n - 1, j \in 1 .. n - 1 :
         /\ k < j /\ {log[k].ip, log[j].ip} = {log[n].ip}
         /\ log[j].at - log[k].at <= HISTORY_WINDOW
         /\ \A m \in k + 1 .. n - 1 : log[m].ip = log[n].ip => m = j

\* Addresses that fall silent are forgotten.
NothingKept == history = Empty
=============================================================================
