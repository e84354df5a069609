\* One small instance of each component.
CONSTANTS
  StageTimeout = 6
  Interval = 5
  MaxAge = 4
  WindowDue = 1
  BaselineDue = 2
  StaleRun = 1
  Lookback = 2
  MaxRuns = 3
  WatchSites <- MCWatchSites
  BrowserSites = {"flanco"}
  Attempts = 2
  Tries = 2
  Pages <- MCPages
  Stores = {"a", "b"}
  MaxTime = 5
  MaxScrapes = 5
  Cooldown = 1
  ProbeAge = 2
  DeadMan = 1
  Limitable = {"a"}
  Watches <- MCWatches
  Prices = {80, 97, 100}
  References = {130}
  Legacy <- MCLegacy
  MaxDay = 4
  MaxVisits = 3
  Short = 1
  Window = 2
  Keep = 3
  Batches <- MCBatches
  Notices <- MCNotices
  Offers = {"e1", "p1", "p2"}
  Retailer <- MCRetailer
  WellFormed = {"e1", "p1"}
  Titles = {"a", "b"}
  Likeness <- MCLikeness
  Openers = {"s", "n"}
  Scraper = "s"
  MaxPresses = 2
  MaxNow = 3
  MaxId = 2
  Rater <- RatedBy
  Acceptable = {1, 2}
  Scheduled = {"s"}
  Workers = {"w"}
  Limit = 1
  Retention = 1
  Trust = 2
  Quiet = 3
  SyncWatches = {"w1"}
  Values = {"a"}
  Absent = Absent
  Broken = Broken
  DuplicateKey <- MCDuplicateKey
  Servers = {"s1"}
  NoServer = "NoServer"
  MaxEdits = 2
  MaxOthers = 1
  MaxHistory = 4
  MaxAttempts = 2
SPECIFICATION OpsSpec
INVARIANTS
  OperationsTypeOK
  AlwaysHealthy
  NotifyReadsThisCycle
  Spaced
  FreshRetry
  BrowsersClosed
  AnyLayerSuffices
  QuarantineTold
  SilenceTold
  GenuineBeatsTheWindow
  JudgementsAgree
  RuleDecides
  NoticesSurvive
  MigratedOnce
  NoPressLost
  LatestLabelWins
  ErasedStaysErased
  OnePuller
PROPERTIES
  SyncTerminates
  KeepsGoing
  NoStoreStarves
  RecordAlerts
  StableIdentity
CHECK_DEADLOCK FALSE
