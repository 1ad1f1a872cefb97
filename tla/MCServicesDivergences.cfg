SPECIFICATION Spec
CONSTANTS
  Parts = {"alerts", "watch", "universe", "check", "calibration", "scores", "verdict", "journal", "decisions", "schedule", "research", "clicks", "page"}
  batchSize = 2
  ServerJobs = {}
  Overlapping = TRUE
  MaxFaults = 1
  Events = {"e1", "e2"}
  Senders = {"s1", "s2"}
  Lookback = 2
  Signals = {"x1", "x2"}
  Watchers = {"w1", "w2"}
  Procs = {"server", "worker"}
  Server = "server"
  Jobs = {"a", "b"}
  home <- Home
  MaxIds = 2
  MaxRuns = 3
  MaxRunFaults = 2
  \* The journal, the depot or the night look at once, while a trade is corrected
  \* once and the owner answers twice.
  Trades = {"t1", "t2"}
  Bookings = {"bought", "planned"}
  Decided = {"bought"}
  Pages = {"p1", "p2"}
  MaxChanges = 1
  MaxAnswers = 2
  Wordings = {"a", "b"}
  Editors = {"e1", "e2"}
  Readers = {"r1", "r2"}
  MaxWrites = 2
  \* The call at boot and two saves: enough for one call to meet what another left behind.
  Saves = {"s1", "s2"}
  AtBoot = "boot"
  NoTask = NoTask
  HatchetModes = {TRUE, FALSE}
  MaxFailures = 2
  MaxRestarts = 1
  \* Three faults are what it takes to spend all retries.
  Clicks = {"c1", "c2"}
  Mixes <- ClickMixes
  LookCache = 1
  ClickTime = 1
  ClickFaults = 3
  \* Two runs, each a fetch and a point, close together or apart; deploys and restarts.
  Contents = {"A", "B"}
  SameRun = 1
  ScoreTime = 4
  ScoreFaults = 2
  \* A brief, another that keeps its debate, and one that must not; the prompts change once.
  Askers = {"j1", "j2"}
  Models = {"pro", "deep"}
  Deep = "deep"
  MaxAge = 0
  DebateMaxAge = 1
  DeepMaxAge = 1
  MaxDays = 2
  MaxAsked = 3
  MaxDeploys = 1
  \* A card looked at twice in its first week, and after a month.
  Payloads <- StoredPayloads
  Materials <- FoundMaterials
  Reads <- SomeReads
  Adjustments <- AskedAdjustments
  CardAges = {0, 7, 30}
  \* Two stocks, one of them with a stored analysis.
  Stocks = {"A", "B"}
  NoStock = "none"
  Combinations = {"d", "x"}
  Default = "d"
  Proxied <- ProxiedModels
  Cached <- CachedOfA
  MaxDepth = 2
  MaxEvents = 4
CHECK_DEADLOCK FALSE
INVARIANTS
  ReturnIsNews
  OneCompanyOnce
  FailureKeepsTheSeries
  RepeatedPassRestores
  EmptyMeansNothing
  EveryWordingIsKept
  AnswersShowTheSync
  LinkedTradesAreOneDecision
  ExitSpeaksForTheSilent
  AtMostOneCron
  OneAlwaysOwnsIt
  OneCallAtDistill
  OneRefreshPerStock
PROPERTIES
  DeploysAreNoNews
  DeadRunIsInterrupted
  RunsAreOfTheSelected
  SwitchingAbandonsTheRun
  OnlyTheDeletedIsClosed
  OnlyTheUserTouches
  AnalysesHonourTheWindow
  QueuedIsAttended
  CorrectionOutlivesTheRefresh
