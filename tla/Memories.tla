------------------------------ MODULE Memories ------------------------------
(* What seven parts of the engine remember: the adaptive baselines, the      *)
(* fingerprints, the trap router, API abuse, bot detection, smart anomaly    *)
(* and the rules the engine writes, side by side.  They share no state: a    *)
(* behaviour here is one of a single part, which `memory` names; what        *)
(* belongs to the others stays None.                                         *)
EXTENDS Integers, Sequences, Maps

CONSTANTS
  None,
  LastActivity, MaxCalls, MaxTime         \* bounds of all but the generated rules

CONSTANTS                                 \* of the adaptive baselines
  Paths, Asked,
  MAX_BASELINES, MAX_KNOWN_PARAMS, LEARNING_THRESHOLD,
  learnPct, detectPct, floor, manyUnknown, idleMs

CONSTANTS                                 \* of the fingerprints
  IPs, Unknown, Ja3s, Ja4l, Hellos, SecretSet, ttlMs, maxHistory, coldStart,
  RarityLevels, decayAbove, ONE_HOUR, caps, blockThreshold

CONSTANTS                                 \* of the trap router
  Clients, Visits, RATE_LIMIT_WINDOW_MS, RATE_LIMIT_MAX_HITS,
  enableTarpit, enableDecoys, blockLegitBots, tarpitDelayMs

CONSTANTS                                 \* of API abuse
  Callers, Endpoints, IdPaths, Base, Accesses, MaxTrackers, windowMs,
  manyPaths, manyIds, tooManyPaths, perBase

CONSTANTS                                 \* of bot detection
  Ids, Pages, Assets, maxSessions, maxRequests, rateMs, rateMax, runLength, runMs,
  ratioLength, BotMaxCalls

CONSTANTS                                 \* of smart anomaly
  Suspects, RuleSets, Signals, BaseWeight, Verdicts, KnownCategories, VectorOf, safeMode,
  unit, minSamples, HISTORY_WINDOW, MAX_HISTORY, MaxFeedback, MaxLoads, SmartMaxCalls

CONSTANTS                                 \* of the generated rules
  Senders, Bodies, Kind, Hash, MAX_AUTO_RULES, intervalMs,
  MaxStarts, MaxGenerated, AutoMaxTime

VARIABLES
  memory, now, log,
  baselines,                              \* adaptive baselines
  history, popularity, totalSeen, lastDecayAt,       \* fingerprints
  trapHits, tarpit,                       \* trap router
  trackers,                               \* API abuse
  sessions, locks, queue,                 \* bot detection
  feedbackStore, loads, categoryProfiles, \* smart anomaly; history, too
  starts, file, rules, compiled, hashes, lastGen, read   \* generated rules

Baselines == INSTANCE AdaptiveBaselines WITH Requests <- Asked

Prints == INSTANCE Fingerprints WITH Requests <- Hellos

Traps == INSTANCE TrapRouter WITH Requests <- Visits

Api == INSTANCE ApiAbuse WITH
  Clients <- Callers, Paths <- Endpoints, Requests <- Accesses

Bots == INSTANCE BotDetection WITH Requests <- Pages, MaxCalls <- BotMaxCalls

Smart == INSTANCE SmartAnomaly WITH Requests <- Suspects, MaxCalls <- SmartMaxCalls

Generated == INSTANCE AutoRules WITH
  IPs <- Senders, MaxCalls <- MaxGenerated, MaxTime <- AutoMaxTime

ASSUME MemoriesAssumption ==
  /\ Baselines!BaselinesAssumption /\ Prints!PrintsAssumption
  /\ Traps!TrapAssumption /\ Api!ApiAssumption /\ Bots!BotAssumption
  /\ Smart!SmartAssumption /\ Generated!AutoAssumption

-----------------------------------------------------------------------------
Clock    == <<now, log>>
OfPrints == <<popularity, totalSeen, lastDecayAt>>
OfTraps  == <<trapHits, tarpit>>
OfBots   == <<sessions, locks, queue>>
OfSmart  == <<feedbackStore, loads, categoryProfiles>>
OfAuto   == <<starts, file, compiled, hashes, lastGen, read>>

memoryVars == <<memory, Clock, baselines, history, OfPrints, OfTraps, trackers, OfBots,
                OfSmart, rules, OfAuto>>

InBaselines(A) == memory = "baselines" /\ A
  /\ UNCHANGED <<memory, history, OfPrints, OfTraps, trackers, OfBots, OfSmart, rules, OfAuto>>
InPrints(A)    == memory = "fingerprints" /\ A
  /\ UNCHANGED <<memory, baselines, OfTraps, trackers, OfBots, OfSmart, rules, OfAuto>>
InTraps(A)     == memory = "traps" /\ A
  /\ UNCHANGED <<memory, baselines, history, OfPrints, trackers, OfBots, OfSmart, rules, OfAuto>>
InApi(A)       == memory = "api" /\ A
  /\ UNCHANGED <<memory, baselines, history, OfPrints, OfTraps, OfBots, OfSmart, rules, OfAuto>>
InBots(A)      == memory = "bots" /\ A
  /\ UNCHANGED <<memory, baselines, history, OfPrints, OfTraps, trackers, OfSmart, rules, OfAuto>>
InSmart(A)     == memory = "smart" /\ A
  /\ UNCHANGED <<memory, baselines, OfPrints, OfTraps, trackers, OfBots, rules, OfAuto>>
InAuto(A)      == memory = "rules" /\ A
  /\ UNCHANGED <<memory, baselines, history, OfPrints, OfTraps, trackers, OfBots, OfSmart>>

NoBaselines == baselines = None
NoPrints    == history = None /\ popularity = None /\ totalSeen = None /\ lastDecayAt = None
NoTraps     == trapHits = None /\ tarpit = None
NoApi       == trackers = None
NoBots      == sessions = None /\ locks = None /\ queue = None
NoSmart     == feedbackStore = None /\ loads = None /\ categoryProfiles = None
NoAuto      == /\ rules = None /\ starts = None /\ file = None /\ compiled = None
               /\ hashes = None /\ lastGen = None /\ read = None

MemoriesInit ==
  \/ /\ memory = "baselines" /\ Baselines!Init
     /\ NoPrints /\ NoTraps /\ NoApi /\ NoBots /\ NoSmart /\ NoAuto
  \/ /\ memory = "fingerprints" /\ Prints!Init
     /\ NoBaselines /\ NoTraps /\ NoApi /\ NoBots /\ NoSmart /\ NoAuto
  \/ /\ memory = "traps" /\ Traps!Init
     /\ NoBaselines /\ NoPrints /\ NoApi /\ NoBots /\ NoSmart /\ NoAuto
  \/ /\ memory = "api" /\ Api!Init
     /\ NoBaselines /\ NoPrints /\ NoTraps /\ NoBots /\ NoSmart /\ NoAuto
  \/ /\ memory = "bots" /\ Bots!Init
     /\ NoBaselines /\ NoPrints /\ NoTraps /\ NoApi /\ NoSmart /\ NoAuto
  \/ /\ memory = "smart" /\ Smart!Init
     /\ popularity = None /\ totalSeen = None /\ lastDecayAt = None
     /\ NoBaselines /\ NoTraps /\ NoApi /\ NoBots /\ NoAuto
  \/ /\ memory = "rules" /\ Generated!Init
     /\ NoBaselines /\ NoPrints /\ NoTraps /\ NoApi /\ NoBots /\ NoSmart

BaselinesCheck   == InBaselines(\E q \in Asked : Baselines!Check(q))
BaselinesCollect == InBaselines(Baselines!Collect)
BaselinesTick    == InBaselines(Baselines!Tick)
PrintsAnalyze    == InPrints(\E q \in Hellos : Prints!AnalyzeRequest(q))
PrintsCleanup    == InPrints(Prints!Cleanup)
PrintsTick       == InPrints(Prints!Tick)
TrapsHandle      == InTraps(\E q \in Visits : Traps!Handle(q))
TrapsRelease     == InTraps(\E n \in DOMAIN log : Traps!Release(n))
TrapsTick        == InTraps(Traps!Tick)
ApiCheck         == InApi(\E q \in Accesses : Api!Check(q))
ApiCollect       == InApi(Api!Collect)
ApiTick          == InApi(Api!Tick)
BotsStart        == InBots(\E q \in Pages : Bots!Start(q))
BotsAnalyze      == InBots(\E n \in DOMAIN log : Bots!Analyze(n))
BotsCollect      == InBots(Bots!Collect)
BotsTick         == InBots(Bots!Tick)
SmartAnalyze     == InSmart(\E q \in Suspects : Smart!Analyze(q))
SmartFeedback    == InSmart(\E signals \in Verdicts, field \in {"tp", "fp"} :
                              Smart!Feedback(signals, field))
SmartReload      == InSmart(\E set \in RuleSets : Smart!Reload(set))
SmartCollect     == InSmart(Smart!Collect)
SmartTick        == InSmart(Smart!Tick)
AutoGenerate     == InAuto(\E ip \in Senders, body \in Bodies : Generated!GenerateAutoRule(ip, body))
AutoReload       == InAuto(Generated!ReloadRules)
AutoRestart      == InAuto(Generated!Restart)
AutoTick         == InAuto(Generated!Tick)

MemoriesTick == BaselinesTick \/ PrintsTick \/ TrapsTick \/ ApiTick \/ BotsTick \/ SmartTick
MemoriesDue  == BaselinesCollect \/ PrintsCleanup \/ TrapsRelease \/ ApiCollect \/ BotsCollect
                \/ SmartCollect

MemoriesNext ==
  \/ BaselinesCheck \/ PrintsAnalyze \/ TrapsHandle \/ ApiCheck \/ BotsStart \/ BotsAnalyze
  \/ SmartAnalyze \/ SmartFeedback \/ SmartReload
  \/ MemoriesDue \/ MemoriesTick
  \/ AutoGenerate \/ AutoReload \/ AutoRestart \/ AutoTick

MemoriesSpec == MemoriesInit /\ [][MemoriesNext]_memoryVars

-----------------------------------------------------------------------------
\* Type correctness of each part, with the limits its tables keep to.
MemoryTypes ==
  /\ memory = "baselines"    => Baselines!TypeOK
  /\ memory = "fingerprints" => Prints!TypeOK
  /\ memory = "traps"        => Traps!TypeOK
  /\ memory = "api"          => Api!TypeOK
  /\ memory = "bots"         => Bots!TypeOK
  /\ memory = "smart"        => Smart!TypeOK
  /\ memory = "rules"        => Generated!TypeOK

\* What a request is measured by is what was really seen: the baseline of a path is of
\* every request to it since it was opened, the paths kept are those last asked for,
\* no fingerprint counts for more than there is, a client is refused exactly at the
\* limit of its traps, its endpoints are those of the window with their counts, its session
\* holds its last requests as if no call had been interrupted at its await, and its score
\* is compared with what it scored within the window and never muted, through any number
\* of evictions, decays, cleanups and reloads.
MemoriesExact ==
  /\ memory = "baselines"    => Baselines!BaselinesExact
  /\ memory = "fingerprints" => Prints!FingerprintsExact
  /\ memory = "traps"        => Traps!TrapLimitExact
  /\ memory = "api"          => Api!EndpointsExact
  /\ memory = "bots"         => Bots!SessionsAsSequential
  /\ memory = "smart"        => Smart!ScoresExact /\ Smart!WeightsKept

\* Whatever fails to be written, is reloaded or restarted: the file of generated rules and
\* the hashes agree within each start of the process, and the rules listed and those
\* requests are matched with are those of the last load and, listed only, those since.
RulesAccounted == memory = "rules" => Generated!RulesAccounted
=============================================================================
