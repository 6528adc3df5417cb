SPECIFICATION Spec
CONSTANTS
  Blocks = {"A1", "B1", "D2"}
  Genesis = "G"
  NoBlock = NoBlock
  Path <- MCPath
  Difficulty <- MCDifficulty
  Rank <- MCRank
  RootOf <- SharedRoots
  GenesisRoot = "G"
  Diverged = Diverged
  Malformed = {}
  BadRoot = {}
  FeePaying = {}
  Submitters = {s1, s2}
  Detector = det
  NoThread = NoThread
  NoFork = NoFork
  MaxHeight = 2
  MaxReorgDepth = 2
  MinWorkForReorg = 1
  MaxOrphanBlocks = 1
  MaxForkDepth = 100
  SyncTargets = {}
  TruncateHeights = {}
SYMMETRY SubmitterSymmetry
INVARIANTS ChainInvariant CanonicalChainLinked
CHECK_DEADLOCK FALSE
