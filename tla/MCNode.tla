------------------------------- MODULE MCNode -------------------------------
(***************************************************************************)
(* What a node does by itself, for model checking in one run: mining, the  *)
(* turns of the kings, the wallets, and the node's life on its data        *)
(* directory.  Each has the chain in its own abstraction and is explored   *)
(* by itself: in a behaviour only what service names moves.                *)
(***************************************************************************)
EXTENDS Mining

\* The constants of the other three.
CONSTANTS
  TurnKings, TurnNoKing, TurnInterval, TurnFirstList, TurnUpdates, TurnPoor,
  TurnSavers, TurnMaxHeight, TurnPlans,
  LifeProcesses, LifeTxs, LifeKills,
  PurseAccounts, PurseStart, PursePasswords, PurseFirst, PursePlans,
  PurseMaxFiles, PurseMaxCrashes

ASSUME TurnAssumption ==
  /\ TurnInterval \in Nat \ {0}
  /\ TurnFirstList \in Seq(TurnKings) /\ TurnUpdates \subseteq Seq(TurnKings)

ASSUME LifeAssumption == "none" \notin LifeProcesses

ASSUME PurseAssumption ==
  /\ PurseStart \notin PurseAccounts
  /\ "none" \notin PurseAccounts \cup {PurseStart} \cup PursePasswords
  /\ PurseFirst \in PursePasswords

VARIABLES
  service,
  turnPlan, turnKingAddresses, turnState, turnMu, turnSync, turnDbConfig,
  turnDbState, turnSaver, turnHeight, turnPc, turnDistribution, lifePhase,
  lifePool, lifeAdding, lifeLoop, lifeSynced, lifeLock, lifeFile, lifeMined,
  lifeSubmitted, lifeLost, lifeKills, purse, purseFiles, purseWallets,
  purseTimer, purseFiring, purseCmd, purseAddress, purseMiner, purseTold,
  purseUnfinished, purseWarned, purseCrashes

mineVars == vars

turnVars ==
  <<turnPlan, turnKingAddresses, turnState, turnMu, turnSync, turnDbConfig,
    turnDbState, turnSaver, turnHeight, turnPc, turnDistribution>>

lifeVars ==
  <<lifePhase, lifePool, lifeAdding, lifeLoop, lifeSynced, lifeLock,
    lifeFile, lifeMined, lifeSubmitted, lifeLost, lifeKills>>

purseVars ==
  <<purse, purseFiles, purseWallets, purseTimer, purseFiring, purseCmd,
    purseAddress, purseMiner, purseTold, purseUnfinished, purseWarned,
    purseCrashes>>

-----------------------------------------------------------------------------
\* Two miners with one thread each, named after its miner

MCOwner == [w \in Workers |-> IF w = "w1" THEN "m1" ELSE "m2"]

MCPlans ==
  {{"pool"}, {"peers"}, {"reorg"}, {"stop", "reset"}, {"sync"}, {"shutdown"}}

-----------------------------------------------------------------------------
\* Two kings; one list that drops a king, and one that swaps them

FirstKings == <<"k1", "k2">>

KingUpdates == {<<"k1">>, <<"k2", "k1">>}

Turns == INSTANCE RotatingKing WITH
  Kings <- TurnKings, NoKing <- TurnNoKing, Interval <- TurnInterval,
  FirstList <- TurnFirstList, Updates <- TurnUpdates, Poor <- TurnPoor,
  Savers <- TurnSavers, MaxHeight <- TurnMaxHeight, Plans <- TurnPlans,
  plan <- turnPlan, kingAddresses <- turnKingAddresses, state <- turnState,
  mu <- turnMu, sync <- turnSync, dbConfig <- turnDbConfig,
  dbState <- turnDbState,
  saver <- turnSaver, height <- turnHeight, pc <- turnPc,
  distribution <- turnDistribution

-----------------------------------------------------------------------------
\* The processes of one data directory

Life == INSTANCE Lifecycle WITH
  Processes <- LifeProcesses, Txs <- LifeTxs, MaxKills <- LifeKills,
  phase <- lifePhase, pool <- lifePool, adding <- lifeAdding,
  loop <- lifeLoop, synced <- lifeSynced, lock <- lifeLock, file <- lifeFile,
  mined <- lifeMined, submitted <- lifeSubmitted, lost <- lifeLost,
  kills <- lifeKills

-----------------------------------------------------------------------------
\* Saves beside the timers or an end, or mining

Purse == INSTANCE Wallets WITH
  Accounts <- PurseAccounts, Start <- PurseStart, Passwords <- PursePasswords,
  First <- PurseFirst, Plans <- PursePlans, MaxFiles <- PurseMaxFiles,
  MaxCrashes <- PurseMaxCrashes,
  plan <- purse, files <- purseFiles, wallets <- purseWallets,
  timer <- purseTimer, firing <- purseFiring, cmd <- purseCmd,
  minerAddress <- purseAddress, miner <- purseMiner, told <- purseTold,
  unfinished <- purseUnfinished, warned <- purseWarned,
  crashes <- purseCrashes

-----------------------------------------------------------------------------

Some(plans) == CHOOSE p \in plans : TRUE

\* What does not move starts in one state.
NodeInit ==
  /\ service \in {"mining", "turns", "life", "purse"}
  /\ Init /\ (service # "mining" => plan = {"peers"})
  /\ Turns!Init /\ (service # "turns" => turnPlan = Some(TurnPlans))
  /\ Life!Init
  /\ Purse!Init /\ (service # "purse" =>
       purse = Some(PursePlans) /\ purseMiner = Some(Purse!FreshMiners))

NodeNext ==
  \/ /\ service = "mining" /\ Next
     /\ UNCHANGED <<service, turnVars, lifeVars, purseVars>>
  \/ /\ service = "turns" /\ Turns!Next
     /\ UNCHANGED <<service, mineVars, lifeVars, purseVars>>
  \/ /\ service = "life" /\ Life!Next
     /\ UNCHANGED <<service, mineVars, turnVars, purseVars>>
  \/ /\ service = "purse" /\ Purse!Next
     /\ UNCHANGED <<service, mineVars, turnVars, lifeVars>>

\* The fairness that each of the specifications states, of the one that moves.
\* (The wallets' states none.)
MiningFairness ==
  /\ service = "mining"
  /\ WF_mineVars(service = "mining" /\ LoopStep)
  /\ SF_mineVars(service = "mining" /\ TakeResult)
  /\ \A m \in Miners : WF_mineVars(service = "mining" /\ StartMiner(m))
  /\ \A w \in Workers :
       /\ WF_mineVars(service = "mining" /\ WorkerStep(w))
       /\ SF_mineVars(/\ service = "mining"
                     /\ TakeWork(w) /\ Head(workQueue).miner = Owner[w])

TurnFairness ==
  /\ service = "turns"
  /\ SF_turnVars(service = "turns" /\ Turns!SyncBlocks)
  /\ WF_turnVars(service = "turns" /\ (Turns!SyncHeight \/ Turns!SyncDone))
  /\ WF_turnVars(service = "turns" /\ Turns!SaveAfterUpdate)

LifeFairness ==
  /\ service = "life"
  /\ \A p \in LifeProcesses :
       /\ SF_lifeVars(service = "life" /\ Life!MainStep(p))
       /\ WF_lifeVars(service = "life" /\ Life!ReorgEnds(p))

NodeSpec ==
  /\ NodeInit /\ [][NodeNext]_<<service, mineVars, turnVars, lifeVars, purseVars>>
  /\ MiningFairness \/ TurnFairness \/ LifeFairness \/ service = "purse"

-----------------------------------------------------------------------------
\* Properties

\* A node that mines makes the chain grow (see Mining).
ChainGrows == service = "mining" => TipGrows

\* The mining loop, the account state and the kings' turns are lost or cut short
\* by known causes only (see Mining and RotatingKing).
FaultsKnown ==
  /\ LoopLostOnlyByReset /\ SpoiltOnlyUnseen
  /\ Turns!IndexLostOnlyAtFault /\ Turns!NoTurnCutShort

\* A rotation that is overdue is made (see RotatingKing).
OverdueRotationMade == service = "turns" => Turns!OverdueRotationMade

\* Pending transactions survive stops and starts (see Lifecycle).
PendingSurvives == Life!PendingSurvives

\* A node asked to stop stops, or Close and the loop embrace (see Lifecycle).
ShutdownEnds == service = "life" => Life!ShutdownEnds

\* Keys are kept and open with the passwords the user was told of, wallets are
\* locked in time, and rewards can be spent (see Wallets).
WalletsSound == Purse!WalletsKept

=============================================================================
