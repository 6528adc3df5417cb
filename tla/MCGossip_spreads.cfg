SPECIFICATION GossipSpec
CONSTANTS
  Nodes = {"a", "b"}
  Txs = {"t", "u"}
  Plans <- MCPlans
  KingNodes = {"n1", "n2"}
  KingNames = {"k1", "k2", "k3", "k4"}
  KingDefault <- MainKing
  KingPoor = {"k3"}
  KingBeginnings <- FewBeginnings
  KingMaxHeight = 3
  KingRotations = {3}
  KingMaxBatch = 1
  KingStaleWindow = 1
  KingFutureWindow = 1
  KingMaxInFlight = 1
  LinkPeers = {"p", "q"}
  LinkBootstrap <- LinkList
  LinkMaxPeers = 1
  LinkPlans <- FewLinkPlans
PROPERTIES KingsLostKnown ListsAgree AttemptEnds TransactionsSpread LinksHold
CHECK_DEADLOCK FALSE
