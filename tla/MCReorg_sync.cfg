SPECIFICATION Spec
CONSTANTS
  Blocks = {"A1", "B2", "C2"}
  Genesis = "G"
  NoBlock = NoBlock
  Path <- MCPath
  Difficulty <- MCDifficulty
  Rank <- MCRank
  RootOf <- DistinctRoots
  GenesisRoot = "G"
  Diverged = Diverged
  Malformed = {}
  BadRoot = {"C2"}
  FeePaying = {}
  Submitters = {s1}
  Detector = det
  NoThread = NoThread
  NoFork = NoFork
  MaxHeight = 2
  MaxReorgDepth = 2
  MinWorkForReorg = 1
  MaxOrphanBlocks = 1
  MaxForkDepth = 100
  SyncTargets = {2}
  TruncateHeights = {0, 1}
INVARIANTS TypeInvariant PointersSound
CHECK_DEADLOCK FALSE
