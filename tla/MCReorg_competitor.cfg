SPECIFICATION Spec
CONSTANTS
  Blocks = {"A1", "B1"}
  Genesis = "G"
  NoBlock = NoBlock
  Path <- MCPath
  Difficulty <- MCDifficulty
  Rank <- MCRank
  RootOf <- DistinctRoots
  GenesisRoot = "G"
  Diverged = Diverged
  Malformed = {}
  BadRoot = {}
  FeePaying = {}
  Submitters = {s1, s2}
  Detector = det
  NoThread = NoThread
  NoFork = NoFork
  MaxHeight = 1
  MaxReorgDepth = 2
  MinWorkForReorg = 1
  MaxOrphanBlocks = 2
  MaxForkDepth = 100
  SyncTargets = {}
  TruncateHeights = {}
INVARIANTS NoSelfDeadlock
CHECK_DEADLOCK FALSE
