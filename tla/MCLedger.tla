------------------------------ MODULE MCLedger ------------------------------
(***************************************************************************)
(* Safety of what the nodes keep and agree on, for model checking in one   *)
(* run: the account state that the blocks leave, difficulty and header     *)
(* times, pruning, the agreement on tips, the ban managers and the         *)
(* checkpoints.  They meet in the chain, which every module has in its own *)
(* abstraction, so each is explored by itself: in a behaviour only what    *)
(* service names moves.  The constants of Execution are those of           *)
(* MCExecution; the others' are given here.                                *)
(***************************************************************************)
EXTENDS MCExecution

CONSTANTS
  DiffNodes, DiffSkews, DiffTarget, DiffDrift,  \* of Difficulty
  DiffMaxGap, DiffFactor, DiffDGWWindow,
  DiffAdjustmentWindow, DiffGenesis, DiffMaxTime,
  SyncBlocks, SyncPath, SyncInvalid, SyncBetter,  \* of FastSync
  SyncPeers, SyncServed, SyncBoast, SyncBeginnings,
  SyncThreads, SyncWorkers, SyncMaxFailures, SyncThreshold,
  PruneDepth, PruneBatchSize,                   \* of Pruning
  PruneMaxHeight, PruneMaxTruncations,
  TipNodes, TipBlocks, TipPath, TipDifficulty,  \* of TipConsensus
  TipRank, TipPlans, TipThreshold,
  BanPlans, BanWord, BanHorizon,                \* of PeerBans
  BanMaxViolations, BanMessages, BanBlocks,
  CpIds, CpMaxSlot, CpTrust,                    \* of Checkpoints
  CpMaxVerifications, CpSavers, CpPlans

VARIABLES
  service,
  diffSkew, diffShort, diffNow, diffChain, diffHave, diffTemplate,
  pruneCanon, pruneStored, pruneMarked, prunePruned, prunePass, pruneCached,
  pruneUp, pruneTruncations, syncPlan, syncChain, syncState, syncSyncing,
  syncTarget, syncPeerHeight, syncTask,
  tipPlan, tipTip, tipStored, tipSpoilt, tipCut, tipKnown, tipInbox, tipBehind,
  tipLoop, tipLocal, tipTodo, tipFound,
  banPlan, banHeight, banKnown, banInbox, banApart, banLock, banCounter,
  banBanned, banLately, banBlocksLately,
  cpPlan, cpCanon, cpCreators, cpCps, cpList, cpSavers, cpFile, cpTorn,
  cpStats, cpLoaded, cpUp

ledgerVars == vars

diffVars ==
  <<diffSkew, diffShort, diffNow, diffChain, diffHave, diffTemplate>>

pruneVars ==
  <<pruneCanon, pruneStored, pruneMarked, prunePruned, prunePass,
    pruneCached, pruneUp, pruneTruncations>>

syncVars ==
  <<syncPlan, syncChain, syncState, syncSyncing, syncTarget, syncPeerHeight,
    syncTask>>

tipVars ==
  <<tipPlan, tipTip, tipStored, tipSpoilt, tipCut, tipKnown, tipInbox, tipBehind,
    tipLoop, tipLocal, tipTodo, tipFound>>

banVars ==
  <<banPlan, banHeight, banKnown, banInbox, banApart, banLock, banCounter,
    banBanned, banLately, banBlocksLately>>

cpVars ==
  <<cpPlan, cpCanon, cpCreators, cpCps, cpList, cpSavers, cpFile, cpTorn,
    cpStats, cpLoaded, cpUp>>

-----------------------------------------------------------------------------
\* Two nodes, with one clock or with one of them ahead

DiffClocks == {[a |-> 0, b |-> 0], [a |-> 1, b |-> 0]}

Diff == INSTANCE Difficulty WITH
  Nodes <- DiffNodes, Skews <- DiffSkews, Target <- DiffTarget,
  Drift <- DiffDrift, MaxGap <- DiffMaxGap, Factor <- DiffFactor,
  DGWWindow <- DiffDGWWindow, AdjustmentWindow <- DiffAdjustmentWindow,
  GenesisDifficulty <- DiffGenesis, MaxTime <- DiffMaxTime,
  skew <- diffSkew, short <- diffShort, now <- diffNow, chain <- diffChain,
  have <- diffHave, template <- diffTemplate

-----------------------------------------------------------------------------
\* A store of which the last blocks are kept

Prune == INSTANCE Pruning WITH
  Depth <- PruneDepth, BatchSize <- PruneBatchSize,
  MaxHeight <- PruneMaxHeight, MaxTruncations <- PruneMaxTruncations,
  canon <- pruneCanon, stored <- pruneStored, marked <- pruneMarked,
  pruned <- prunePruned, pass <- prunePass, cached <- pruneCached,
  up <- pruneUp, truncations <- pruneTruncations

-----------------------------------------------------------------------------
\* The fast sync from two peers

\* The chains of the two peers part above a1.  a4 is invalid, c2 a block of
\* the node's own, and the second peer claims height 2 before it has it.
SyncTree == [a1 |-> <<"a1">>, a2 |-> <<"a1", "a2">>, a3 |-> <<"a1", "a2", "a3">>,
             a4 |-> <<"a1", "a2", "a3", "a4">>, b2 |-> <<"a1", "b2">>,
             c2 |-> <<"a1", "c2">>]

SyncNames == DOMAIN SyncTree

SyncOrder == {<<"a2", "b2">>, <<"b2", "c2">>, <<"a2", "c2">>}

SyncPeerChains == [p |-> SyncTree["a4"], q |-> SyncTree["b2"]]

SyncClaims == [p |-> 0, q |-> 2]

SyncStart(c, h, l, force) == [chain |-> c, heights |-> h, limits |-> l, force |-> force]

AtHeights(p, q) == [p |-> p, q |-> q]

\* A new node, on its own and forced; one at the end of the common part; one
\* with a block of its own.
SyncRuns ==
  {SyncStart(<<>>, AtHeights(2, 1), AtHeights(2, 1), FALSE),
   SyncStart(<<>>, AtHeights(2, 0), AtHeights(2, 0), TRUE),
   SyncStart(<<"a1">>, AtHeights(4, 1), AtHeights(4, 2), FALSE),
   SyncStart(<<"a1", "c2">>, AtHeights(3, 2), AtHeights(3, 2), FALSE)}

Sync == INSTANCE FastSync WITH
  Blocks <- SyncBlocks, Path <- SyncPath, Invalid <- SyncInvalid,
  Better <- SyncBetter, Peers <- SyncPeers, Chain <- SyncServed,
  Boast <- SyncBoast, Beginnings <- SyncBeginnings, Threads <- SyncThreads,
  Workers <- SyncWorkers, MaxFailures <- SyncMaxFailures,
  Threshold <- SyncThreshold, plan <- syncPlan,
  chain <- syncChain, state <- syncState, syncing <- syncSyncing,
  target <- syncTarget, peerHeight <- syncPeerHeight, task <- syncTask

-----------------------------------------------------------------------------
\* Tips of three nodes

TipTree ==
  [A1 |-> <<"A1">>, A2 |-> <<"A1", "A2">>, B1 |-> <<"B1">>, B2 |-> <<"B1", "B2">>,
   C1 |-> <<"C1">>]

TipNames == DOMAIN TipTree

TipWorks == [A1 |-> 1, A2 |-> 1, B1 |-> 2, B2 |-> 2, C1 |-> 2]

\* Between B1 and C1, of one difficulty, the rank decides.
TipOrder == [A1 |-> 1, A2 |-> 1, B1 |-> 2, B2 |-> 2, C1 |-> 1]

NoTip == "none"

TipPlan(nodes, first, second, third, faults) ==
  [nodes |-> nodes, faults |-> faults,
   mines |-> [n1 |-> first, n2 |-> second, n3 |-> third]]

\* Two or three nodes that mine one height together, or two heights after one
\* another, or race ahead with messages lost.
TipRuns ==
  {TipPlan({"n1", "n2", "n3"}, {"A1"}, {"B1"}, {}, {}),
   TipPlan({"n1", "n2", "n3"}, {"A1"}, {"C1"}, {"B2"}, {}),
   TipPlan({"n1", "n2", "n3"}, {"A1", "A2"}, {"B1"}, {}, {"burst", "silent"}),
   TipPlan({"n1", "n2"}, {"A1", "B2"}, {"B1", "A2"}, {}, {}),
   TipPlan({"n1", "n2"}, {"A1", "A2"}, {"B1", "B2"}, {}, {"burst"}),
   TipPlan({"n1", "n2"}, {"A1", "A2"}, {"B1"}, {}, {"burst", "loss", "barren"})}

Tips == INSTANCE TipConsensus WITH
  Blocks <- TipBlocks, Genesis <- "G", NoBlock <- NoTip,
  Path <- TipPath, Difficulty <- TipDifficulty, Rank <- TipRank,
  RootOf <- [b \in TipBlocks |-> b], GenesisRoot <- "G", Diverged <- "?",
  Malformed <- {}, BadRoot <- {}, FeePaying <- {}, Nodes <- TipNodes,
  Plans <- TipPlans, Threshold <- TipThreshold, plan <- tipPlan, tip <- tipTip,
  stored <- tipStored, spoilt <- tipSpoilt, cut <- tipCut, known <- tipKnown,
  inbox <- tipInbox, behind <- tipBehind, loop <- tipLoop, local <- tipLocal,
  todo <- tipTodo, found <- tipFound

-----------------------------------------------------------------------------
\* Ban managers of two or three nodes

NoPin == [height |-> 0, miner |-> "none"]

Pin(h, m) == [height |-> h, miner |-> m]

BanPlan(start, mines, pinned, dense, floods, large) ==
  [start |-> start, mines |-> mines, pinned |-> pinned, dense |-> dense,
   floods |-> floods, large |-> large]

\* Nodes with honest chains apart by more than the horizon; with messages that
\* come too fast; with files of checkpoints that contradict a chain or each
\* other; with one node still at genesis, below the horizon; with blocks too
\* large for an answer; with several connections; with a checkpoint that a
\* node's own block contradicts.
BanRuns ==
  {BanPlan([p |-> 1, q |-> 4], [p |-> {2}, q |-> {5, 6}],
           [p |-> NoPin, q |-> NoPin], FALSE, FALSE, {}),
   BanPlan([p |-> 2, q |-> 1], [p |-> {3, 4}, q |-> {}],
           [p |-> NoPin, q |-> NoPin], TRUE, FALSE, {}),
   BanPlan([p |-> 2, q |-> 1, r |-> 1], [p |-> {}, q |-> {2}, r |-> {}],
           [p |-> Pin(2, "p"), q |-> NoPin, r |-> NoPin], FALSE, FALSE, {}),
   BanPlan([p |-> 1, q |-> 1], [p |-> {2, 3}, q |-> {2, 3}],
           [p |-> Pin(2, "p"), q |-> Pin(2, "q")], FALSE, FALSE, {}),
   BanPlan([p |-> 0, q |-> 1], [p |-> {1}, q |-> {2}],
           [p |-> NoPin, q |-> NoPin], FALSE, FALSE, {}),
   BanPlan([p |-> 1, q |-> 1], [p |-> {2}, q |-> {2, 3}],
           [p |-> NoPin, q |-> Pin(3, "p")], FALSE, TRUE, {2})}

Bans == INSTANCE PeerBans WITH
  Plans <- BanPlans, Word <- BanWord, Horizon <- BanHorizon,
  MaxViolations <- BanMaxViolations, RateLimitMessages <- BanMessages,
  RateLimitBlocks <- BanBlocks, plan <- banPlan,
  height <- banHeight, known <- banKnown, inbox <- banInbox,
  apart <- banApart, lock <- banLock, counter <- banCounter,
  banned <- banBanned, lately <- banLately, blocksLately <- banBlocksLately

-----------------------------------------------------------------------------
\* Two checkpoint managers

CpPlan(faults, slots, savers) == [faults |-> faults, slots |-> slots, savers |-> savers]

CpRuns ==
  {CpPlan({}, 2, {"s1"}), CpPlan({"hourly"}, 1, {"s1", "s2"}),
   CpPlan({"stats"}, 1, {"s1"}), CpPlan({"late", "crash"}, 1, {"s1"}),
   CpPlan({"sync"}, 1, {"s1"}), CpPlan({"remote"}, 1, {"s1"})}

Cps == INSTANCE Checkpoints WITH
  Ids <- CpIds, MaxSlot <- CpMaxSlot, Trust <- CpTrust,
  MaxVerifications <- CpMaxVerifications, Savers <- CpSavers,
  Plans <- CpPlans, plan <- cpPlan, canon <- cpCanon,
  creators <- cpCreators, cps <- cpCps, list <- cpList, savers <- cpSavers,
  file <- cpFile, torn <- cpTorn, stats <- cpStats, loaded <- cpLoaded,
  up <- cpUp

-----------------------------------------------------------------------------

\* Averages cover some gaps, of which none is cut off at the target, a header of
\* the second after its parent comes too soon, and clocks are within the drift.
ASSUME DiffAssumption ==
  /\ {DiffTarget, DiffMaxGap, DiffFactor, DiffDGWWindow} \subseteq Nat
  /\ {DiffAdjustmentWindow, DiffGenesis, DiffDrift, DiffMaxTime} \subseteq Nat
  /\ 2 <= DiffTarget /\ DiffTarget < DiffMaxGap /\ 2 <= DiffFactor
  /\ 2 <= DiffDGWWindow /\ DiffDGWWindow <= DiffAdjustmentWindow /\ 1 <= DiffGenesis
  /\ DiffSkews \subseteq [DiffNodes -> Int]
  /\ \A s \in DiffSkews : \A m, n \in DiffNodes : s[m] - s[n] <= DiffDrift

ASSUME PruneAssumption ==
  /\ PruneDepth \in Nat /\ PruneMaxHeight \in Nat /\ PruneMaxTruncations \in Nat
  /\ PruneBatchSize \in Nat \ {0}

\* Heights are words that do not run over.
ASSUME BanAssumption ==
  /\ BanWord \in Nat \ {0} /\ BanHorizon \in Nat
  /\ BanMaxViolations \in Nat /\ BanMessages \in Nat /\ BanBlocks \in Nat
  /\ \A p \in BanPlans : p.start \in [DOMAIN p.start -> Nat]

\* Paths are ancestries, and what the node starts on and peers serve are such.
ASSUME SyncAssumption ==
  /\ SyncPeers # {} /\ SyncMaxFailures \in Nat
  /\ SyncBoast \in [SyncPeers -> Nat]
  /\ SyncPath \in [SyncBlocks -> Seq(SyncBlocks)]
  /\ \A b \in SyncBlocks : Sync!Linked(SyncPath[b])
  /\ SyncServed \in [SyncPeers -> Seq(SyncBlocks)]
  /\ \A p \in SyncPeers : Sync!Linked(SyncServed[p])
  /\ \A b \in SyncBeginnings :
       /\ b.chain \in Seq(SyncBlocks) /\ Sync!Linked(b.chain)
       /\ {b.heights, b.limits} \subseteq [SyncPeers -> Nat]
       /\ \A p \in SyncPeers :
            b.heights[p] <= Len(SyncServed[p]) /\ b.limits[p] <= Len(SyncServed[p])

\* Paths are ancestries, and the rank tells siblings of one difficulty apart.
ASSUME TipAssumption ==
  /\ IsFiniteSet(TipBlocks) /\ "G" \notin TipBlocks /\ NoTip \notin TipBlocks
  /\ TipPath \in [TipBlocks -> Seq(TipBlocks)]
  /\ \A b \in TipBlocks :
       /\ Len(TipPath[b]) > 0 /\ TipPath[b][Len(TipPath[b])] = b
       /\ \A i \in 1..Len(TipPath[b]) : TipPath[TipPath[b][i]] = SubSeq(TipPath[b], 1, i)
  /\ TipDifficulty \in [TipBlocks -> Nat] /\ TipRank \in [TipBlocks -> Nat]
  /\ \A b, c \in TipBlocks :
       /\ b # c /\ Tips!Parent(b) = Tips!Parent(c)
       /\ TipDifficulty[b] = TipDifficulty[c]
       => TipRank[b] # TipRank[c]
  /\ \A p \in TipPlans :
       p.nodes \subseteq TipNodes /\ p.mines \in [TipNodes -> SUBSET TipBlocks]

\* No block has the name of none.
ASSUME CpAssumption ==
  /\ CpMaxSlot \in Nat /\ CpTrust \in Nat
  /\ "none" \notin CpIds
  /\ \A p \in CpPlans :
       /\ p.faults \subseteq Cps!AllFaults /\ p.slots \in 0..CpMaxSlot
       /\ p.savers \subseteq CpSavers

-----------------------------------------------------------------------------

Some(plans) == CHOOSE p \in plans : TRUE

\* What does not move starts in one state.
LedgerInit ==
  /\ service \in {"ledger", "difficulty", "pruning", "sync", "tips", "bans", "checkpoints"}
  /\ Init /\ (service # "ledger" => plan = Some(MCPlans))
  /\ Diff!Init
  /\ service # "difficulty" => diffSkew = Some(DiffSkews) /\ diffShort
  /\ Prune!Init
  /\ Sync!Init /\ (service # "sync" => syncPlan = Some(SyncBeginnings))
  /\ Tips!Init /\ (service # "tips" => tipPlan = Some(TipPlans))
  /\ Bans!Init /\ (service # "bans" => banPlan = Some(BanPlans))
  /\ Cps!Init /\ (service # "checkpoints" => cpPlan = Some(CpPlans))

LedgerNext ==
  \/ /\ service = "ledger" /\ Next
     /\ UNCHANGED <<service, diffVars, pruneVars, syncVars, tipVars, banVars, cpVars>>
  \/ /\ service = "difficulty" /\ Diff!Next
     /\ UNCHANGED <<service, ledgerVars, pruneVars, syncVars, tipVars, banVars, cpVars>>
  \/ /\ service = "pruning" /\ Prune!Next
     /\ UNCHANGED <<service, ledgerVars, diffVars, syncVars, tipVars, banVars, cpVars>>
  \/ /\ service = "sync" /\ Sync!Next
     /\ UNCHANGED <<service, ledgerVars, diffVars, pruneVars, tipVars, banVars, cpVars>>
  \/ /\ service = "tips" /\ Tips!Next
     /\ UNCHANGED <<service, ledgerVars, diffVars, pruneVars, syncVars, banVars, cpVars>>
  \/ /\ service = "bans" /\ Bans!Next
     /\ UNCHANGED <<service, ledgerVars, diffVars, pruneVars, syncVars, tipVars, cpVars>>
  \/ /\ service = "checkpoints" /\ Cps!Next
     /\ UNCHANGED <<service, ledgerVars, diffVars, pruneVars, syncVars, tipVars, banVars>>

\* The fairness of FastSync, of its own behaviours.
LedgerSpec ==
  /\ LedgerInit
  /\ [][LedgerNext]_<<service, ledgerVars, diffVars, pruneVars, syncVars, tipVars, banVars, cpVars>>
  /\ \A t \in SyncThreads : WF_syncVars(service = "sync" /\ Sync!Step(t))
  /\ SF_syncVars(service = "sync" /\ \E t \in SyncThreads : Sync!FastSyncCheck(t))

-----------------------------------------------------------------------------
\* Properties

\* Blocks are abandoned, and the chain is truncated, where the sync may (see
\* FastSync).
SyncKeepsChain == Sync!AbandonedOnlyByForce /\ Sync!TruncatesAtFork

\* A node that syncs reaches the best of its peers' chains (see FastSync).
CatchesUp == service = "sync" => Sync!CatchesUp

\* Coins and nonces are sound along every chain (see Execution).
LedgerSound == CoinsAccountedFor /\ NoTransferTwice

\* Times and difficulties are sound along the network's chain (see Difficulty).
HeadersSound == Diff!DifficultyRatchet /\ Diff!AcceptedEverywhere

\* A pruned node lacks what its marks say, and has its last blocks (see
\* Pruning).
PruningSound == Prune!MissingIsMarked /\ Prune!LastBlocksKept

\* Nodes whose announcements have all arrived agree, and a miner builds on no
\* less work than the blocks it compared with its own (see TipConsensus).
TipsSound == Tips!TipsAgree /\ Tips!MinesOnMostWork

\* Only contradictions to checkpoints and oversized answers lead to bans, and no
\* peer is accused of old blocks without having sent one, unless the accuser is
\* below the horizon (see PeerBans).
BansJust == []Bans!BansForKnownCauses /\ Bans!AccusedOfOldBlocksOnly

\* Checkpoints follow the chain, and none is lost between two writers of one
\* file (see Checkpoints).
CheckpointsSound == Cps!ChainCheckpointed /\ Cps!LoadedNeverLost

=============================================================================
