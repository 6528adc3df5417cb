SPECIFICATION NodeSpec
CONSTANTS
  Miners = {"m1", "m2"}
  Workers = {"w1", "w2"}
  Owner <- MCOwner
  NoWork = NoWork
  QueueCapacity = 1
  ResultCapacity = 1
  MaxHeight = 2
  MaxPeerHeight = 1
  Plans <- MCPlans
  TurnKings = {"k1", "k2"}
  TurnNoKing = "none"
  TurnInterval = 2
  TurnFirstList <- FirstKings
  TurnUpdates <- KingUpdates
  TurnPoor = {"k2"}
  TurnSavers = {"g1"}
  TurnMaxHeight = 2
  TurnPlans = {{"failures", "lists"}, {"savers", "lists"}}
  LifeProcesses = {"p1", "p2"}
  LifeTxs = {"t", "u"}
  LifeKills = 1
  PurseAccounts = {"a", "b"}
  PurseStart = "w"
  PursePasswords = {"p", "q"}
  PurseFirst = "p"
  PursePlans = {{"save", "timers"}, {"save", "ends"}, {"mine", "ends"}}
  PurseMaxFiles = 2
  PurseMaxCrashes = 1
INVARIANTS PauseTakesEffect PendingSurvives WalletsSound
PROPERTIES FaultsKnown ChainGrows OverdueRotationMade ShutdownEnds
CHECK_DEADLOCK FALSE
