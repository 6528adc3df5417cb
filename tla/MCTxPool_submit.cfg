SPECIFICATION FairSpec
CONSTANTS
  Txs = {"a0", "a0x", "a1"}
  Data = {"a0x"}
  Senders = {"a"}
  From <- MCFrom
  Nonce <- MCNonce
  NoTx = NoTx
  Callers = {c1, c2}
  MaxPoolSize = 3
  MaxTxsPerSender = 2
  MaxFutureNonceGap = 1
  StaleBlockAge = 3
  Word = 16
  MaxHeight = 2
  MaxWaiting = 1
  Disturbances = {}
INVARIANTS NoNonceGap PendingInPool MinedOnce
PROPERTIES OnlySpentDropped SpentLeavesPool
