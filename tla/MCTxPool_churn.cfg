SPECIFICATION Spec
CONSTANTS
  Txs = {"a0", "a1", "b0"}
  Data = {"b0"}
  Senders = {"a", "b"}
  From <- MCFrom
  Nonce <- MCNonce
  NoTx = NoTx
  Callers = {c1}
  MaxPoolSize = 2
  MaxTxsPerSender = 2
  MaxFutureNonceGap = 1
  StaleBlockAge = 0
  Word = 16
  MaxHeight = 1
  MaxWaiting = 1
  Disturbances = {"lock_timeout", "height_timeout", "expiry", "removal", "revert"}
INVARIANTS PoolSound
