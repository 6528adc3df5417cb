SPECIFICATION Spec
CONSTANTS
  Accounts = {"m", "a", "b", "0", "x"}
  MainKing = "m"
  Zero = "0"
  Script = "x"
  ScriptValue = 2
  Txs = {"m0", "m1", "a0", "a1", "b0", "z0", "d0"}
  Tx <- MCTx
  Plans <- MCPlans
  Kings <- MCKings
  Premine = 30
  InitialReward = 7
  BlocksPerHalving = 2
  Coin = 2
  Threshold = 8
  Confirmations = 2
  Interval = 2
  MaxHeight = 4
PROPERTIES RefusedBlockLeavesState
CHECK_DEADLOCK FALSE
