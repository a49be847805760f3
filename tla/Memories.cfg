CONSTANTS
  None = None
  LastActivity = 2
  MaxCalls = 4
  MaxTime = 4
  Paths <- MCPaths
  Asked <- MCAsked
  MAX_BASELINES = 2
  MAX_KNOWN_PARAMS = 2
  LEARNING_THRESHOLD = 2
  learnPct = 10
  detectPct = 1
  floor = 5
  manyUnknown = 3
  idleMs = 1
  IPs <- MCIPs
  Unknown = "unknown"
  Ja3s <- MCJa3s
  Ja4l <- MCJa4l
  Hellos <- MCHellos
  SecretSet = TRUE
  ttlMs = 2
  maxHistory = 2
  coldStart = 2
  RarityLevels <- MCRarity
  decayAbove = 2
  ONE_HOUR = 1
  caps <- MCCaps
  blockThreshold = 65
  Clients <- MCClients
  Visits <- MCVisits
  RATE_LIMIT_WINDOW_MS = 2
  RATE_LIMIT_MAX_HITS = 1
  enableTarpit = TRUE
  enableDecoys = TRUE
  blockLegitBots = FALSE
  tarpitDelayMs = 2
  Callers <- MCCallers
  Endpoints <- MCEndpoints
  IdPaths <- MCIdPaths
  Base <- MCBase
  Accesses <- MCAccesses
  MaxTrackers = 2
  windowMs = 1
  manyPaths = 1
  manyIds = 1
  tooManyPaths = 2
  perBase = 1
  Ids <- MCIds
  Pages <- MCPages
  Assets <- MCAssets
  maxSessions = 1
  maxRequests = 2
  rateMs = 1
  rateMax = 1
  runLength = 2
  runMs = 1
  ratioLength = 1
  BotMaxCalls = 3
  Suspects <- MCSuspects
  RuleSets <- MCRuleSets
  Signals <- MCSignals
  BaseWeight <- MCWeights
  Verdicts <- MCVerdicts
  KnownCategories <- MCKnown
  VectorOf <- MCVectorOf
  safeMode = FALSE
  unit = 20
  minSamples = 2
  HISTORY_WINDOW = 1
  MAX_HISTORY = 2
  MaxFeedback = 2
  MaxLoads = 2
  SmartMaxCalls = 3
  Senders <- MCSenders
  Bodies <- MCBodies
  Kind <- MCKind
  Hash <- MCHash
  MAX_AUTO_RULES = 2
  intervalMs = 2
  MaxStarts = 2
  MaxGenerated = 3
  AutoMaxTime = 2
SPECIFICATION FairSpec
INVARIANTS
  MemoryTypes
  MemoriesExact
  NeverMuted
  RulesAccounted
PROPERTIES
  MemoriesForget
CHECK_DEADLOCK FALSE
