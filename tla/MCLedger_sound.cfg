SPECIFICATION LedgerSpec
CONSTANTS
  Accounts = {"m", "a", "b", "0", "x"}
  MainKing = "m"
  Zero = "0"
  Script = "x"
  ScriptValue = 2
  Txs = {"m0", "m1", "a0", "a1", "b0", "z0", "d0"}
  Tx <- MCTx
  Plans <- MCPlans
  Kings <- MCKings
  Premine = 30
  InitialReward = 7
  BlocksPerHalving = 2
  Coin = 2
  Threshold = 8
  Confirmations = 2
  Interval = 2
  MaxHeight = 4
  DiffNodes = {"a", "b"}
  DiffSkews <- DiffClocks
  DiffTarget = 2
  DiffDrift = 1
  DiffMaxGap = 5
  DiffFactor = 4
  DiffDGWWindow = 3
  DiffAdjustmentWindow = 4
  DiffGenesis = 3
  DiffMaxTime = 8
  SyncBlocks <- SyncNames
  SyncPath <- SyncTree
  SyncInvalid = {"a4"}
  SyncBetter <- SyncOrder
  SyncPeers = {"p", "q"}
  SyncServed <- SyncPeerChains
  SyncBoast <- SyncClaims
  SyncBeginnings <- SyncRuns
  SyncThreads = {t1, t2}
  SyncWorkers = 2
  SyncMaxFailures = 1
  SyncThreshold = 1
  TipNodes = {"n1", "n2", "n3"}
  TipBlocks <- TipNames
  TipPath <- TipTree
  TipDifficulty <- TipWorks
  TipRank <- TipOrder
  TipPlans <- TipRuns
  TipThreshold = 1
  PruneDepth = 2
  PruneBatchSize = 2
  PruneMaxHeight = 5
  PruneMaxTruncations = 1
  BanPlans <- BanRuns
  BanWord = 16
  BanHorizon = 1
  BanMaxViolations = 2
  BanMessages = 2
  BanBlocks = 1
  CpIds = {"a", "b"}
  CpMaxSlot = 2
  CpTrust = 1
  CpMaxVerifications = 2
  CpSavers = {"s1", "s2"}
  CpPlans <- CpRuns
INVARIANTS LedgerSound HeadersSound PruningSound TipsSound CheckpointsSound
PROPERTIES BansJust SyncKeepsChain CatchesUp
CHECK_DEADLOCK FALSE
