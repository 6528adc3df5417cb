SPECIFICATION Spec
CONSTANTS
  Blocks = {"A1", "A2", "A3", "A4", "B2", "B3", "B4", "C3", "C4"}
  Genesis = "G"
  NoBlock = NoBlock
  Path <- MCPath
  Difficulty <- MCDifficulty
  Rank <- MCRank
  RootOf <- DistinctRoots
  GenesisRoot = "G"
  Diverged = Diverged
  Malformed = {}
  BadRoot = {}
  FeePaying = {}
  EmptyState = EmptyState
  MaxHeight = 4
  ContinuityCheckDepth = 10
  ReorgDepths = {}
  TruncateHeights = {0, 1, 2}
  WriteFailures = TRUE
INVARIANTS StoreInvariant RunningChainLinked
PROPERTIES TipMovesInWholeBlocks
