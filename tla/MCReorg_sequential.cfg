SPECIFICATION FairSpec
CONSTANTS
  Blocks = {"A1", "A2", "A3", "A4", "B2", "B3", "C2", "C3"}
  Genesis = "G"
  NoBlock = NoBlock
  Path <- MCPath
  Difficulty <- MCDifficulty
  Rank <- MCRank
  RootOf <- DistinctRoots
  GenesisRoot = "G"
  Diverged = Diverged
  Malformed = {}
  BadRoot = {"B3"}
  FeePaying = {}
  Submitters = {s1}
  Detector = det
  NoThread = NoThread
  NoFork = NoFork
  MaxHeight = 4
  MaxReorgDepth = 2
  MinWorkForReorg = 0
  MaxOrphanBlocks = 2
  MaxForkDepth = 100
  SyncTargets = {3}
  TruncateHeights = {}
INVARIANTS StateMatchesTip NoSelfDeadlock
PROPERTIES FailedReorgRestoresTip ReorgGainsWorkInDepth SubmissionReturns
