SPECIFICATION Spec
CONSTANTS
  Blocks = {"A1", "A2", "A3", "A4", "A5", "B2", "B3", "B4", "C3", "C4"}
  Genesis = "G"
  NoBlock = NoBlock
  Path <- MCPath
  Difficulty <- MCDifficulty
  Rank <- MCRank
  RootOf <- DistinctRoots
  GenesisRoot = "G"
  Diverged = Diverged
  Malformed = {}
  BadRoot = {}
  FeePaying = {}
  EmptyState = EmptyState
  MaxHeight = 5
  ContinuityCheckDepth = 4
  ReorgDepths = {1, 2, 3}
  TruncateHeights = {}
  WriteFailures = TRUE
INVARIANTS RecoverableChainLinked
PROPERTIES CommitIsDurable
