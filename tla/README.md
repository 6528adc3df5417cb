# ANTDChain: TLA+ models, checks and proofs

These modules model the parts of ANTDChain (a Go blockchain node: package
`antdc/` and its commands) whose correctness depends on the order in which
goroutines, peers and crashes act. Source paths below are relative to `src/`.

## The system

| Component | State | Operations | What must hold | Modules |
|---|---|---|---|---|
| ReorgManager (`antdc/chain/reorganize.go`, `prune_reorg_integration.go`) | orphan pool, remembered forks, `rm.mu`, the processing flag | ProcessNewBlock, performReorg and its emergency rollback, fork detector, orphan cleanup | a reorganization gains work, is bounded in depth, and when it fails gives back what it took; every submission returns | BlockTree, ReorgManager |
| Blockchain (`antdc/chain/blockchain.go`, `sync.go`, `validation.go`, `execution.go`) | tip, account state, `blockSubmitMu`, `stateMu`, sync flag and target | addBlockInternal, handleDirectExtension, reorganizeAtHeight, revertToHeight, TruncateTo, StartSync, StopSync | the canonical heights form one linked chain up to the tip; the account state is the tip's | ReorgManager, Execution |
| Chain store and recovery (`antdc/chain/db`, `initialization.go`) | blocks by hash, canonical hashes, head hash, state database | synced writes, tip recovery at start-up, state rebuild | a crash between any two writes leaves a store from which the node starts on a linked chain | ChainStore, DurableTip |
| Account state, execution, rewards (`antdc/chain/execution.go`, `rewards.go`, `antdc/reward`, `antdc/vm`) | balances, nonces, the king's index, the pool a template takes from | submit, mine, import, revert and replay | what balances hold is what was issued; a transfer is paid once; a refused block changes nothing | Execution |
| Transaction pool (`antdc/chain/txpool.go`) | pending transactions by hash and by sender, heap, submission heights, `p.mu` | add, remove, background cleanup, cleanup after a block, save and load | what is pending is executable in nonce order; limits hold; what is mined leaves, and a transfer is mined once | TxPool |
| Mining (`antdc/mining`, `antdc/chain/templates.go`) | loop, workers, two channels, the flags | start, stop, reset, rounds, submission | stopping stops; the chain grows; what ends the loop is known | Mining |
| Difficulty and header times (`antdc/pow`, `difficulty/`) | header window, the clocks | make, search, accept a header | an accepted header is accepted everywhere; difficulty moves as the averages say | Difficulty |
| Rotating king (`antdc/rotatingking`, `antdc/chain/rotating_king.go`) | king list, index, rotation height, history, two database keys | rotate by block and by sync, change the list, save | all nodes at one height name one king; a turn is not cut short | RotatingKing, KingGossip |
| P2P node (`antdc/p2p/p2p.go`, `ban_p2p.go`) | peers, seen blocks and transactions, sync goroutines, bans | gossip intake, direct push, fast sync with a common ancestor search, tip comparison, bans | a sync ends, on the peer's chain; two nodes with the same blocks choose one tip; honest peers are not banned; a node does not stay alone | FastSync, TipConsensus, TxGossip, PeerBans, PeerLinks |
| Checkpoints (`antdc/checkpoints`) | two managers of one file | create at the tip, verify, save, load | the chain has its checkpoints, none is lost | Checkpoints |
| Pruning (`antdc/chain/prune*.go`) | marks, pruned height, a pass | mark, delete, batches, reads | what is missing is marked; the last blocks stay | Pruning |
| Wallets (`antdc/wallet`, `antdc/accounts/keystore`, `console`) | keystore files, wallet manager, timers, the miner's key | create, import, save, unlock, change the password, delete | a key the user was told of is kept and opens with its password | Wallets |
| Start and end of the process (`cmd/antdchain/main.go`, `filelock_*.go`) | data directory's lock, pending file, goroutines not waited for | start, signal, close, kill | pending transactions survive; a node that is told to stop does | Lifecycle |
| Staking, governance (`antdc/staking`, `antdc/governance`) | own databases | stake, slash, vote | | not modelled, see below |
| RPC, console, web, monitoring, TLS | files, sockets | I/O around the parts above | | only what submits transactions (TxGossip) |

A block reaches the chain from the miner, from gossip or from a fast sync,
each on a goroutine of its own, through `Blockchain.AddBlock` or
`ProcessRemoteBlock`. Both hand it to `ReorgManager.ProcessNewBlock`, which
decides between extending the tip, a fork, and the orphan pool, and calls back
into the chain (`addBlockInternal`, `revertToHeight`) through an adapter. The
adapter sets a flag while it does, and the flag makes every other goroutine's
`AddBlock` bypass the manager. The locks are `rm.mu` (a reorganization holds it
throughout), `blockSubmitMu` (one `addBlockInternal` at a time) and `stateMu`
(held inside `handleDirectExtension`, `revertToHeight` and
`reorganizeAtHeight`); `revertToHeight` takes no `blockSubmitMu`. Those
interleavings, the multi-step reorganization with its rollback, and a state
that is rebuilt by replay are what makes this core hard. Around it, goroutines
of the p2p node, the miner and the king manager act on tips, lists and nonces
that they read earlier; files and databases are written in several steps; and
several managers write one file.

The modules do not share one state: each keeps the chain in the abstraction
its questions need (a tree of blocks, a height, a sequence with nonces), and
its header says which module has what it leaves out.

## Modules

**BlockTree** declares the blocks a node can meet. A header commits to its
parent by hash, so a block stands for its whole ancestry: `Path[b]` is the
sequence of blocks from height 1 to `b`. The account state is abstracted to
its root; `RootOf[b]` is the root `b`'s header commits to. The module holds the
pure functions of the chain package: chain work, and the deterministic choice
between two blocks of one height. `Rank` stands for the tie-breakers after the
difficulty (proof quality, time, hash) in their order.

**ReorgManager** is the node. A thread is a goroutine: a submitter, or the fork
detector. A step is what one goroutine does between two points where another
can run in between: acquiring `rm.mu` or `blockSubmitMu`, leaving a section
under `stateMu`, or, in a commit and in a truncation, one access to the database,
since the first holds `stateMu` and the second `bc.mu`.

| Variable | Code |
|---|---|
| `stored`, `canon`, `head` | the Pebble keys for blocks, canonical hashes, head hash |
| `latest` | `bc.latest` and `bc.lastCanonicalHeight`, always stored together |
| `state` | the root of `bc.state`; `Diverged` when no header has that root |
| `syncing`, `syncTarget`, `syncRequests` | sync mode, and `triggerSyncFromBlock` goroutines not yet run |
| `orphanPool`, `activeForks` | the manager's maps; an orphan's number is its arrival order, 0 means absent |
| `rmMu`, `blockSubmitMu`, `processingReorgBlock` | holders of the locks, the routing flag |
| `pc`, `queue`, `blk`, `seen`, `gap`, `ret`, `fork`, `step` | where a goroutine is and the locals it still uses |
| `cut` | the `TruncateTo` under way: its target, and the canonical hashes it has collected |
| `from` | the tip when a reorganization started (history) |
| `overtaken` | blocks that a truncation deleted between the write of their data and that of their canonical hash (history) |
| `misplaced` | a sync has made a block canonical above another block than its parent (history) |

| Actions | Code |
|---|---|
| `AddBlock`, `Return` | the call into `AddBlock` or `ProcessRemoteBlock`, and its return |
| `ProcessNewBlock`, `AddOrphanBlock`, `TryResolveOrphans`, `KeepFork` | `ProcessNewBlock` and the handlers it dispatches to |
| `StartReorg`, `DisconnectBlock`, `ConnectBlock`, `UndoCandidate`, `EmergencyRollback` | `performReorg`, one block at a time |
| `EnterAddBlock`, `ValidateAndExecuteBlock` | `addBlockInternal`: checks and execution |
| `WriteBlock`, `WriteCanonicalHash`, `WriteHeadBlockHash` | the writes of `handleDirectExtension`, the last with the new tip; reverts wait for them, truncations do not |
| `DetectAndResolveForks`, `NextDetectedFork`, `CleanupExpiredOrphans` | the two loops of the manager |
| `TriggerSyncFromBlock`, `StartSync`, `StopSync` | sync mode |
| `TruncateTo`, `CollectCanonicalHash`, `CommitTruncation`, `StoreTruncatedTip` | what the fast sync does to the chain: one height read at a time, one batch, then the tip; commits and reverts fall between |

Some reachable code is one step where it takes several locks: validating and
executing a block (a pre-check on a copy, execution, rewards) is atomic, since
nothing it reads is written by others except through `revertToHeight`, which
the model allows before and after it. A goroutine that enters
`reorganizeAtHeight` is `"stuck"`: it has locked `stateMu` and calls
`revertToHeight`, which locks it again.

Left out of the core: the proof-of-work check (a block that fails a stateless
check is in `Malformed`, one with a wrong root in `BadRoot`), king updates,
transaction pool cleanup, checkpoints and notifications started by a commit,
caches, and the failing disk writes that ChainStore has. `InsertChain`,
`Blockchain.WriteBlock` and `handleSyncModeBlock` are not reached by any caller
outside the tests.

**ReorgInvariant** holds the type invariant with the goroutines' locals and
the inductive invariants, of the canonical chain and of the node whose
goroutines do not overlap. **MCReorg** has the block trees, **ReorgProofs** the
theorems.

**ChainStore** is the disk of one node, across crashes. Blocks are added one
at a time here, since the interleavings are in ReorgManager; a step is one
write that the code syncs, or one change of the account state.

| Variable | Code |
|---|---|
| `blocks`, `headers`, `canon`, `last`, `head` | the chain database: blocks and headers by hash, canonical hashes, last canonical height, head hash |
| `genesisFile` | `genesis_fixed.json` |
| `state` | the root of the account state on disk; `Diverged` in the middle of an execution |
| `latest`, `pc`, `blk` | memory: `bc.latest`, the next write, the block it is about |
| `replaced`, `misled` | histories: the head hash is on a branch that was left; a restart came up by such a head hash |

| Actions | Code |
|---|---|
| `Restart` | `newBlockchain`: `findValidChainTipFast`, `verifyTipContinuity`, the choice between the head and the canonical tip, the repair that writes the pointers again |
| `SeedGenesis`, `PersistGenesisBlock` | `EnsureGenesisBlock`, `persistGenesisBlock` |
| `ExecuteBlock`, `FinishExecution` | `validateAndExecuteBlock` |
| `WriteBlock`, `WriteCanonicalHash`, `WriteHeadBlockHash` | the three writes of `handleDirectExtension`, of the genesis and of a repair |
| `FailWrite`, `MissHeadBlockHash` | the same writes when they return an error: the first two abort, the last is logged only |
| `RevertToHeight`, `FinishReplay` | `revertToHeight`: memory and state move, the database does not |
| `TruncateTo` | `TruncateTo`: one batch |
| `Crash` | the process ends; memory is lost |

`RecoverableTip` is the tip that a restart would find on the disk as it is.
`HeadMisleads` says when it is the wrong one: a head hash that could not be
written, or a crash before it was, leaves it on the branch that a reorganization
has replaced, and when that is not below the new one recovery takes it, except at the
first heights where it compares the parent (`initialization.go:585`).
**DurableTip** is the abstract store: one variable, a tip that moves by whole
commits along a chain or back by truncation. ChainStore implements it with
`tip <- RecoverableTip`. **StoreInvariant** holds the inductive invariant,
**StoreProofs** the theorems, **MCStore** the block trees.

Left out of the store: the scans of headers (reached only when not even the
genesis is canonical), the migration of the old JSON files, caches,
`persistBlockAsync` (it does nothing), and a power loss that takes unsynced
account state with it: a crash is the end of the process. One revert stands
for the block-by-block reverts of a reorganization. A repeated genesis
allocation is `Diverged`, and blocks on top of it are outside `Blocks`.

**TxPool** is the transaction pool with the goroutines that submit to it, the
background cleaner, and the chain as the pool sees it: account nonces and
blocks. A critical section of `p.mu` is one step; what is read of the chain or
of the pool outside it is a step of its own.

| Variable | Code |
|---|---|
| `txs`, `bySender`, `pendingHeap`, `submitHeight` | the pool's maps and heap; orders by gas price are left out |
| `waiting`, `leaked` | goroutines left behind by submissions that gave up, and whether one of them holds `p.mu` for good |
| `pc`, `tx`, `stateNonce`, `latestHeight` | a caller of `addTx`, and what it read before it asked for the lock |
| `cleaner`, `txSnapshot`, `toRemove` | the background cleaner and the locals of `cleanupInvalid` |
| `nonce`, `chain`, `phase`, `block` | the account nonces, the blocks with the nonces they were built on, the block being accepted |

| Actions | Code |
|---|---|
| `ReadChain`, `InsertTx` | `addTx` before and after the lock |
| `GiveUp`, `LateLock` | its lock timeout, and the goroutine that takes the lock after it |
| `RemoveTx` | `RemoveTx`, called by the console |
| `CleanupStale`, `SnapshotPool`, `SelectInvalid`, `RemoveInvalid` | `StartBackgroundCleanup`: `cleanupStale`, then `cleanupInvalid` |
| `ExecuteBlock`, `CommitBlock`, `CleanupMinedTransactions` | a block with transactions, mined here or elsewhere: its execution, commit, and the cleanup in `handleDirectExtension` |
| `RevertBlock` | `revertToHeight`, one block |
| `Restart` | the process ends, with `SaveToDisk` or without, and `LoadFromDisk` |

`Txs` are transactions that pass the checks of their own fields and of the
balance. `Disturbances` names what a run lets happen: the two timeouts, expiry
(`txTTL`), removal by hand, and reverts. `Data` are the transactions that carry
data, which the VM runs without using a nonce. Left out of the pool: the nonce
tracker (only `GetNextNonce` reads it, which has no caller), metrics, `Clear`,
`RemoveTxs` and `cleanupInvalidNonces` (no callers), balances, and blocks that
fail. `cleanupInvalid` chooses in one step; each of its reads is of a value that
the model can have. **TxPoolProofs** holds the theorems, **MCTxPool** the
transactions.

**Execution** is the account state of one node with real balances, nonces and
fees: what BlockTree calls a root. Submitting to the pool, making a template,
importing a block and reverting are one step each, because their interleavings
are ReorgManager's.

| Variable | Code |
|---|---|
| `balance`, `nonce`, `open` | `State`, and whether `bc.state` is not nil |
| `chain`, `offered` | the canonical blocks, and the block mined or taken off last |
| `pool`, `king` | the pool a template takes from, the king manager's index |
| `replayed` | history: the height up to which the state is a replay's |

| Actions | Code |
|---|---|
| `Submit` | `addTx`'s checks of nonce and balance |
| `Mine` | `addTransactions` by fee rate, `ComputeBlockFinalStateRoot` on a copy |
| `Import` | `validateAndExecuteBlock`: precheck on a copy, then the live state transaction by transaction, then rewards |
| `RevertToHeight` | `revertToHeight`: a replay from the premine with no fees paid |

Left out: signatures, gas metering (every transaction uses the gas of a
transfer), contract code and storage, the trie. Uncalled code is listed below.

**Mining** is the mining of one node: the loop, the workers, the two channels
between them, and the console. The tip is a height on one of two branches, and
`top` the height up to which canonical hashes are written: a reorganization to a
shorter and heavier branch (`Reorganize`) lowers the one and leaves the other.
`AddBlock` is one step.

| Variable | Code |
|---|---|
| `mining`, `enabled`, `stopped`, `console` | the two flags, the cancelled context, a reset that sleeps between its halves |
| `gossip` | the node's GossipSub is ready, until the node stops its network |
| `activeMiners`, `starting` | the miners' map, and `StartMiner` goroutines that have not run |
| `loop`, `parent`, `prev`, `order`, `todo`, `won` | `miningLoop` and its locals |
| `workQueue`, `workResult`, `pc`, `work` | the channels and each worker |
| `latest`, `top`, `spoilt`, `sync` | tip, highest canonical hash, an account state a failed block has spoilt, sync mode with its cooldown |
| `pool` | what awaits a block of what is pending: nothing, or a refusal by the execution (`refused`: a nonce, a cost, the gas used, or a root that another king's reward changes), or no template at all |
| `late` | history: blocks submitted since mining was paused |

`LoopStep` is the next step of `miningLoop` (`LookAtTip`, `CreateNewBlock`,
`ShareWork`, `TakeResult`, `Timeout`, `Submit`), `WorkerStep` of a worker;
`StartMining`, `HandleStopMining`, `ResetBegin`/`ResetEnd`
(`handleClearStuckTxs`), `StopMining`, `StartSync` and so on are the callers.
Left out: the search for a nonce, keys, statistics, adding and removing single
miners (no caller).

**Difficulty** is the network's chain of headers: `Tick`, and per node
`CreateNewBlock` (`getMinimumTime`, the expected difficulty), `EndRound` (the
nonce is found at any time up to the end of the round) and `Receive`
(`validateBasicBlockIntegrity`, `validateDifficulty`). `skew` gives the nodes
clocks apart, `short` says whether floating point falls short of products that
are whole numbers, `chain`, `have` and `template` are the headers, the prefix
each node has, and what each miner works on. A competing block is
ReorgManager's subject.

**RotatingKing** is the king manager of one node, in memory and under its two
database keys.

| Variable | Code |
|---|---|
| `kingAddresses`, `state` | `config.KingAddresses`; index, rotation height, next rotation |
| `mu`, `sync` | who is in a critical section of several writes, the loop of `syncRotationsToHeight` |
| `dbConfig`, `dbState`, `saver` | the database, and the goroutines that save a recorded reward without the lock |
| `height`, `pc`, `distribution` | the chain's height and the block being accepted |

| Actions | Code |
|---|---|
| `DistributeRewards`, `AlignKing`, `ShouldRotate`, `RotateToNextKing`, `CommitBlock`, `RejectBlock` | a block: who it pays, alignment with its `rk=` field, the rotation it makes |
| `SyncBlocks`, `SyncHeight`, `SyncDone` | the sync at the start and every 30 seconds |
| `UpdateKingAddresses`, `CleanupIneligibleKings`, `ForceRotate`, `SaveAfterUpdate` | list changes, and their second write |
| `MarshalHead`, `MarshalRest`, `WriteEncoded` | `RecordRewardDistribution`'s goroutine: it reads the state in two halves without the lock and writes later |
| `RevertBlock`, `Restart` | `revertToHeight`; the end of the process at any step |

Left out: reward totals, statistics, the eligibility search (no effect).

**KingGossip** is how nodes agree on the list: `list`, and per goroutine of a
node what it has still to do with a list it read (`todo`); messages in `net`
(the earlier is lost when `MaxInFlight` is reached, `Lose` at any time);
`checker`, `writer` and `attempt` are `CheckIfConfigurationSyncNeeded` with
`dbSyncMu` and an attempt to sync rotations; `synced`, `events`, `local` the
history. `Receive`, `Broadcast`, `CompareAndSync`,
`TriggerEmergencyConfigSync`, `ApplyEmergencyDefault`, `Check`, `PerformDBSync`,
`Answer`, `WaitEnds`, `AcceptBlock`, `SyncBlocks` and
`CleanupIneligibleKings` are the handlers and loops of those names in `p2p.go`;
`StartPeriodicRotatingKingSync` is the ticker of `initialization.go`, of which a
behaviour has `ticks`, and `RevertBlock` takes the last block of a node back,
`reverts` times. `SyncBlocks` walks up to the tip only
(`rotatingking.go:1201-1204`), skips blocks on the way (`1223-1240`) and saves its
unclamped target (`585`). Two histories account for the blocks: `covered`, whose
rotations were synced by the node's own walk or by an answer, and `passed`, which
were passed over for a known cause: taken back, skipped by the walk, or missing at
the peer that answered. Every node cleans its list up as often as it likes.
`Orders` are the orders Go's map iteration may give.

**FastSync** is how one node catches up. A task of `task` is a goroutine that
syncs; there may be several, since the flag `syncing` is set only after a peer
has answered.

| Actions | Code |
|---|---|
| `SyncIfBehind`, `FastSyncCheck`, `PeriodicSyncCheck`, `ForceInitialSync`, `ForceSync` | the ways a sync starts |
| `AskHeight`, `CompareTips`, `Search` | `syncIfBehind`, `prepareFastSyncAncestor`, `findCommonAncestorByHash` (binary search, one request a step) |
| `Truncate`, `Fetch`, `Add` | `syncMissingBlocks`: truncation to the ancestor, parallel download, blocks added in order |
| `Unanswered` | any request that fails |
| `PeerGrows`, `Gossip` | peers extend their chains and gossip adds blocks |

Peers serve valid or invalid chains (`Chain`, `Invalid`) and may claim a height
they do not have (`Boast`). The field `steady` of a task is history: it says
that the chain did not change since the goroutine began its search, which is
when a truncation must end exactly where the two chains part. Left out because
nothing calls or reaches them: `retrySyncWithAlternatePeer`,
`triggerSyncWithPeers`, `syncLoop`, `triggerImmediateSync`, `resolveFork`,
`quickFindDivergence`, `backfillMissingParents`, `recordSyncAttempt`.

**TipConsensus** is the tips of several nodes on BlockTree's blocks:
announcements in `inbox`, `knownBlocks` in `known`, `processBlock` with each
of its branches (`AlreadyInChain`, `DirectExtension`, `MissingParent`,
`SameHeightFork`, `OnSideBranch`), the relay, a sync asked for (`behind`), and
the miner that asks its peers for their blocks before it builds
(`BeginToAsk`, `Ask`, `NoAnswer`, `Compare`: `ResolveMiningTipConsensus`). `cut`
is history: a sync has cut the node's chain in the miner's present round. The
p2p node's own orphan pool and the mined candidates are written and never
decide anything, and are left out.

**TxGossip** is the way of one sender's transactions: `Submit` and `Replace`
(console and RPC), `BroadcastTx` and `BroadcastTxForce` with the marks of
`knownTxs` and their age, `ProcessIncoming` (`processIncomingTx`), `Lose` (rate
limits and streams), `Mine`, `ReceiveBlock` and `RemoveStale`. A pool admits
what TxPool's `addTx` does.

**PeerBans** is the ban managers of several honest nodes: `HandleMessage`,
`HandleDirectPush`, `HandleFromBanned` with the checks of
`checkBlockMessageWithCheckpoints` (heights modulo `Word`), `BroadcastBlock` and
`RequestBlockSync` with what the one refuses to send (a block that contradicts
the node's own checkpoint, one too large for a message) and the other bans for
(an answer that is too large, or contradicts a checkpoint),
`CheckPeerConnections`, `counter`, `banned`, `lately` and `blocksLately` for the
limits by second and minute, `BanExpires`, `Restart`. Nodes start at genesis
too, below the horizon. `RecordViolation` holds `bm.mu` when it calls `BanPeer`,
which asks for it: `lock` is then held for ever, and the node handles no message
any more. The file of bans and the statistics are left out.

**PeerLinks** is the connections of one node: `Manager` is `manageConnections`
(`Tick`, `SixtySeconds`, `ForceBootstrap`, `CheckPeers`, `PruneConnections`),
with the goroutines that dial (`BootstrapDial`, `DiscoveredDial`), see a
connection (`HandlePeerConnected`) and close a banned one (`CloseBanned`);
`Inbound`, `Lose` and `ComeOrGo` are the network.

**Checkpoints** is the two checkpoint managers of one process with the one
file both write: `AcceptBlock` starts a `createCheckpointFromBlock` goroutine
(`CheckCanonical`, `AddCheckpoint`), `ProcessRemote` and `SaveHourly` are the
hourly loop, `CopyMap`, `SetConfig`, `TruncateFile`, `WriteFile` a save,
`BeginStats`/`EndStats` the recursive read lock of `GetStats`, `Stop`,
`Crash`, `Start` the process. Heights count in thousands. Signatures and
authorities are left out.

**Pruning** is a prune manager: a pass (`StartPass`, `MarkBlockPruned`,
`DeleteBlockData`, `SetPrunedHeight`) in batches over a chain that grows
(`AddBlock`) and is truncated (`TruncateTo`), readers with the block cache
(`GetBlock`, `Evict`), failing marks, `Crash` and `Restart`. Block files, which
nothing creates, and the status are left out.

**Wallets** is the keystore directory (`files`), the wallet manager
(`wallets`, `timer`, `firing`), the miner's address and key, and one console
with its commands (`cmd`): `CreateAddress`, `Import`, `Unlock`, `Lock`, `Save`,
`SaveWallets` (file by file), `ChangePassword`, `LoadWallets`, `SetAddress`,
`StartMining`; `TimerFires` and `AutoLock` are the timers, `Restart` the end of
the process at any step. `told`, `unfinished` and `warned` are histories: what
the user was told of, what an unfinished save has touched, where a warning was
given.

**Lifecycle** is `runNode` of one or two processes on one data directory, from
the lock to the last deferred call: `AcquireDataDirLock`, `OpenChain`,
`LoadPool`, `StartServices`, `RequestShutdown`, `WaitForFinalBlockSync`,
`StopServices`, `CloseTakesLocks`, `CloseChain`, `SavePool`, `Return`; beside
it a goroutine that adds a block (`ExecuteBlock`, `WriteBlock`, `WriteClosed`)
and the manager's loop (`ReorgStarts`, `ReorgEnds`); `Die` at any moment.

**MCExecution**, **MCNode**, **MCGossip** and **MCLedger** give these modules
their instances. The last three host several parts that share no state: the
variable `service`, chosen in the initial state, names the part that moves in a
behaviour, so that one run explores each by itself.
**LedgerProofs** has the theorems about what one node keeps (Execution,
Difficulty, Pruning, Checkpoints), **PeerProofs** those about what it does with
its peers (PeerBans, FastSync, TipConsensus), **NodeProofs** those of MCNode's
parts and **GossipProofs** those of MCGossip's. **SumLemmas** is what the proof
modules share: sums, least elements, functions.

### Not modelled

Staking and governance are dead in the deployed program: the minimum stake is 0
at start (`initialization.go:269`) while the console stakes exactly one
million, which `Stake` refuses unless it is the minimum; withdrawals are
processed only by `InsertChain`, which has no caller; `Slash` and `Restake`
have none; governance is never instantiated. RPC getters, web pages, metrics,
TLS and formatting are I/O without state of their own. Cryptography,
serialisation, libp2p and Pebble are taken as working. Functions without a
caller are not modelled: besides those named above `WriteBlock`,
`sortAndValidateTransactions`, `applyBlockTransactions`, `CreatePoSBlock`,
`GenerateBlockTemplate`, `rebuildStateFromHeight`, `applyMinerReward`,
`CalculateBlockRewardByTime`, `CalculateASERT`, `KimotoGravityWell`,
`PoW.MineBlock`, `CanTruncate`, `ValidateBlockAgainstCheckpoints`,
`SendTransaction`, `Encrypt`/`Decrypt` of the wallet, `rpc.NewServer`,
`SaveTransactionsPeriodically`.

## Runs

| Run | Module | Question | Answer |
|---|---|---|---|
| `reorg_sequential` | MCReorg | one goroutine, three branches, one bad block, a sync, any order, orphans of orphans: state, depth, work, rollback, termination | holds |
| `reorg_concurrent` | MCReorg | two goroutines race two branches, two blocks lead to one state: is the canonical chain linked, and is its invariant inductive in fact | holds |
| `reorg_sync` | MCReorg | detector, margin, full orphan pool, a fast sync that truncates between the writes of a commit: locals and pointers | holds |
| `reorg_competitor` | MCReorg | can a goroutine wait for a lock it holds | yes: `reorganizeAtHeight` |
| `store_crash` | MCStore | crashes, failed writes, truncations: does a node serve its whole chain, does the tip move by whole blocks | holds |
| `store_reorg` | MCStore | a crash anywhere in reorganizations of one to three blocks, writes that fail: is the recovered chain linked, are commits kept, unless the head hash misleads | holds |
| `txpool_submit` | MCTxPool | two callers, competing blocks, the cleaner: duplicates, gaps, double inclusion, what is dropped and what must be | holds |
| `txpool_churn` | MCTxPool | every disturbance at once: indexes, limits, one transaction per nonce | holds |
| `ledger_sound` | MCLedger | what nodes keep and agree on: coins and nonces, header times and difficulty, pruning, fast sync, tips, bans, checkpoints | holds |
| `node_work` | MCNode | what one node does by itself: mining, the kings' turns, wallets, start and end of the process | holds |
| `gossip_spreads` | MCGossip | what nodes tell each other: lists of kings, rotations, transactions; connections | holds |
| `execution_refused` | MCExecution | does a refused block leave the account state alone, as `validateAndExecuteBlock` says it does | no |

What the three hosted runs check, part by part:

| Part | Property | What it says |
|---|---|---|
| Execution | `LedgerSound` | balances add up to premine, rewards and the fees of blocks above the last replay; the reported supply is one height ahead; no transfer of the chain is paid twice |
| Difficulty | `HeadersSound` | difficulty rises by one at most, and only when the averaged blocks came at their first moment, never from 1; what its miner could add is accepted by every node that has the parent |
| Pruning | `PruningSound` | a block of the chain that is missing is marked; until a truncation the last blocks are there |
| FastSync | `SyncKeepsChain`, `CatchesUp` | sync mode stays on without a sync only after a forced one; a truncation leaves exactly what is shared with the peer; a node catches up |
| TipConsensus | `TipsSound` | when all announcements have arrived tips agree, if competing blocks differ in work; a miner builds on no less work than the blocks beside its tip that it compared, unless a sync cut its chain meanwhile |
| PeerBans | `BansJust` | honest peers are banned only where a checkpoint can be contradicted or a block outgrow a message; nobody is accused of old blocks without having sent one, unless by a node below the horizon |
| Checkpoints | `CheckpointsSound` | without the faults of the plan the chain has its checkpoints; heights that had one at the start keep one |
| Mining | `PauseTakesEffect`, `ChainGrows` | at most the round under way submits after a stop; a node that mines makes the chain grow, unless a reorganization to a shorter branch leaves it below a canonical hash for good |
| Mining, RotatingKing | `FaultsKnown` | the loop is lost only by a reset, the state spoilt only by a block on the tip that the precheck passes and the execution refuses, the king's index leaves the list only at a restart or when the list could not be written, turns are cut short only by a block's `rk=` field, a restart or by force |
| RotatingKing | `OverdueRotationMade` | a rotation that is overdue is made |
| Wallets | `WalletsSound` | a key told of keeps a whole file and opens with its password but for unfinished saves; wallets lock in time; rewards can be spent |
| Lifecycle | `PendingSurvives`, `ShutdownEnds` | an admitted transaction survives unless a process dies; a node told to stop stops, but for the one embrace of `Close` and the fork loop |
| KingGossip | `KingsLostKnown`, `ListsAgree`, `AttemptEnds` | kings are forgotten and blocks passed over for known causes; lists agree once emergencies and cleanups end; an attempt to sync ends |
| TxGossip | `TransactionsSpread` | a pending transaction reaches every pool that does not refuse it |
| PeerLinks | `LinksHold` | a node does not stay alone, over its limit or with a banned peer |

### Bounds

Blocks are named by branch and height: `B3` is a child of `B2`, which is a
child of `A1`. The bounds of the core are the set of blocks (up to height 4; in
`reorg_concurrent` the siblings `A1` and `B1`, with one root, and a child of `A1`),
one or two submitters, the depth limit (2 instead of the 6 of
`ManagerMaxReorgDepth`, so that it is reached), the work margin (0 or 1 instead
of the 3 of `MinWorkForReorg`) and the orphan pool (1 or 2
instead of 100, so that it fills). A fork of depth 3, a fork on a fork, a
failing block in the middle of a branch and every interleaving of two
goroutines with the detector occur within these bounds; a longer branch
repeats the same steps. The store runs use nine or ten blocks on three branches up to
height 4 or 5 and do not bound the number of crashes, failures or truncations.
`store_reorg` reverts one to three blocks, and recovery compares parents up to
height 4 instead of 10, so that heads above and below it occur. The
pool runs have three transactions: a transfer, a data transaction of
the same nonce and their successor (`txpool_submit`), so that submissions
compete and a nonce is mined without being used, or two senders and room for
two (`txpool_churn`), so that the pool is full. They bound the chain to two
blocks, and to one where it can be taken back and mined again without end, and
the abandoned goroutines to one, since the first that gets the lock keeps it.
In `txpool_churn` any transaction is stale after one block.

In the hosted runs: Execution has five accounts, seven transactions in four
plans and four blocks, enough for a halving, maturity after two blocks, a
rotation, a template out of nonce order, a transfer that funds the zero address
and a replay. Difficulty has two nodes with clocks equal or one apart, windows
of 3 and 4 blocks and a time of 8 with a target of 2, so that both averages and
their switch occur. Pruning keeps 2 of up to 5 blocks with batches of 2 and one
truncation. FastSync has two goroutines, two peers whose chains part, and two
workers. TipConsensus has six plans of two or three nodes that mine one or two
heights together, after one another or racing. PeerBans has six plans of two or
three nodes and counts heights modulo 16 with a horizon of 1 and limits of 1 and
2. Checkpoints has two competing ids, two slots and two goroutines that save.
Mining has two miners with one worker each and channels of capacity 1 (instead
of 100), so that they fill, and two heights, so that a reorganization leaves a
canonical hash above the tip. RotatingKing has two kings, an interval of 2 and
two other lists; KingGossip seven beginnings of two nodes with four kings, one
of them poor, chains of three blocks, one block taken back, and answers of two,
so that an answer is truncated and `SyncBlocks` of an earlier block, or of one
that is gone, can come while a later request is under way. Wallets has two
accounts, two passwords and one end of the process; Lifecycle two processes, two
transactions and one kill. TxGossip has two nodes and three plans; PeerLinks
room for one of two peers.

### What the runs exclude

The passing runs exclude, by their constants or in the property, what would
break their properties, so that each fault hides no other:

* `reorg_sequential` has no fees (`FeePaying`) and no fork at height 1,
  where a failed reorganization ends on the nil tip of
  height 0 and cannot be rolled back;
* `SubmissionReturns` excepts the submission that resolves the children of an
  orphan that stays an orphan (`ResolvesUnderOrphan`). The run reaches it, by a
  sync: without the exception the property is violated there;
* `StateMatchesTip` is checked with one submitter and without truncation: a
  revert between another goroutine's execution and commit breaks it, and so
  does `TruncateTo`, which leaves the account state alone;
* `CanonicalChainLinked` holds until a sync has put a block on a tip that is not
  its parent (`misplaced`): two empty blocks of one miner share a root, and while
  syncing a block on one of them is then linked on top of the other.
  `ChainInvariant` is checked without truncation, which takes canonical blocks
  away under a goroutine that has checked its block against them;
* `PointersSound` excepts a pointer to a block whose data a truncation deleted
  between the writes of its commit (`overtaken`);
* `ReorgGainsWorkInDepth` is checked without forks that the margin leaves to
  the detector, which acts on works recorded when the fork was kept;
* `CommitIsDurable` and `RecoverableChainLinked` except the head hash that was left
  on the replaced branch and is not below the new one (`HeadMisleads`), and what
  follows a restart that came up by it (`misled`). Truncation after a
  reorganization to a lower tip leaves canonical hashes above it, so no run has
  both;
* `txpool_submit` has no disturbance. Expiry, removal by hand and reverts take
  an earlier nonce away and leave the later ones waiting (`NoNonceGap`), a
  revert below the height of submission makes the unsigned age wrap
  (`OnlySpentDropped`), removal by hand does not rebuild the heap
  (`PendingInPool`), and after `LateLock` every use of the pool waits for ever,
  that of a commit included;
* `ChainGrows` excepts the mining loop that skips for ever below a canonical hash,
  and `ListsAgree` cleanups without end, which remove a king that another node's
  longer list brings back;
* in the hosted runs the plans (`MCPlans`, `TurnPlans`, `PursePlans`,
  `CpRuns`, `BanRuns`, ...) say which disturbances a behaviour may have, and
  the properties name the causes they except.

`reorg_sequential`, the store runs and the pool runs check for deadlock; the
others allow it, because a stuck goroutine stops the node, or because bounded
plans come to an end.

### Fairness

A goroutine that can run keeps running. It is strong for a thread's steps in the
core because `sync.Mutex` hands over to a waiter after a millisecond, so a mutex
that is free again and again is eventually obtained. The hosted runs state the
fairness of the core's parts in the specification or, in `gossip_spreads`, as
the premise of each property that needs it, so that no part's fairness is asked
of another's behaviours. No fairness is assumed for callers, sync requests, or
the pool's cleanup timer. The store has only safety properties.
`SpentLeavesPool` assumes that the pool's cleaner runs again and again: it is a
goroutine with a ticker, and weak fairness is enough because the lock is free
between steps. `ChainGrows` assumes that loop and workers run (weak), that a
result which is there when the loop waits comes before its timeout, and that
workers waiting for a channel are served in turn (strong: Go's channels queue
their waiters). `OverdueRotationMade` assumes the 30-second sync gets `m.mu`
(strong) and who holds it goes on. `CatchesUp` assumes goroutines go on and the
ticker of `FastSyncCheck` fires, and says in the property that requests are
answered in the end. `ListsAgree` and `AttemptEnds` assume the tickers of the
broadcasts and that a list told again and again comes through while it is the
node's list (strong); `TransactionsSpread` the same of a transaction.
`ShutdownEnds` assumes the main goroutine gets its locks in turn (strong) and
that a reorganization ends. `LinksHold` assumes that the manager, dials and
their goroutines run; nothing of peers and of the network.

## Proofs

What is proved holds for every value of the constants: any blocks, goroutines,
nodes, accounts, limits and lengths, within the named assumptions, which TLC
evaluates on every run.

* `ReorgProofs!TypeCorrect`: `TypeInvariant`, for every block tree, any number
  of goroutines and every bound. It includes that a goroutine's locals are
  defined where it uses them: the walk positions of a reorganization stay
  inside the branches they index.
* `ReorgProofs!PointersStaySound`: `PointersSound`, with no further assumption:
  truncations fall between the writes of commits.
* `ReorgProofs!ChainInvariantHolds` and `ChainStaysLinked`: `ChainInvariant`,
  and from it `CanonicalChainLinked`, assuming no truncation, for any roots.
* `ReorgProofs!SequentialInvariantHolds`, `RollbackRestoresTip`,
  `ReorgGainsWork`: `SequentialInvariant`, and from it `FailedReorgRestoresTip`
  and `ReorgGainsWorkInDepth`. They are about the
  behaviours in which one goroutine at a time is at work and the fork detector
  is not (`OneAtATime`), and assume one block of height 1 (`OneTrunk`), no fees
  and no truncation. Each is needed: a revert between another goroutine's
  execution and commit breaks `StateMatchesTip`; the detector acts on works
  recorded when the fork was kept; a reorganization that takes off the block of
  height 1 ends on a nil tip; a replay credits no fees; `TruncateTo` leaves the
  account state.
* `StoreProofs!StoreStaysInOrder`: `StoreInvariant`, and from it
  `RecoveryFindsTheChain`, `RunningNodeHasItsChain`, `CommitsSurvive` and
  `StoreImplementsDurableTip` (the refinement of DurableTip), assuming
  `CollisionFree` and no reorganization, whatever crashes, fails or is
  truncated.
* `TxPoolProofs!PoolIsSound`: `PoolSound`, with no further assumption, for any
  transactions, callers, limits and disturbances.
* `TxPoolProofs!PoolHasNoGaps` and `CleanerDropsOnlySpent`: `NoNonceGap` and
  `OnlySpentDropped`, without disturbances and for chains too short for a
  transaction to be stale (`Undisturbed`).
* `TxPoolProofs!TransactionsMinedOnce`: `MinedOnce` (a transfer is in one block
  of the chain; data transactions, which use no nonce, are excepted by name),
  with no further assumption, reverts included. `HeapFollowsPool`:
  `PendingInPool` unless something is removed by hand.
* `NodeProofs!PauseIsTaken`, `PendingStays`, `WalletsStaySound`,
  `FaultsAreKnown`: `PauseTakesEffect`, `PendingSurvives`, `WalletsSound` and
  `FaultsKnown`.
* `LedgerProofs!CoinsStaySound`, `CheckpointsStaySound`, `PruningStaysSound`,
  `HeadersStaySound`: `LedgerSound`, `CheckpointsSound`, `PruningSound` and
  `HeadersSound`. Headers assume relations of the time limits that the code's
  values (150, 900, 4, 24, 60 and 30 seconds) satisfy.
* `PeerProofs!BansStayJust`, `SyncKeepsTheChain`, `TipsStaySound`: `BansJust`,
  `SyncKeepsChain` and `TipsSound`. Bans hold from genesis on, where the unsigned
  horizon wraps (`ban_p2p.go:225`). Tips hold
  for any blocks, nodes and plans, with the difficulties that `TipAssumption`
  bounds.
* `GossipProofs!KingsLostForKnownCauses`: `KingsLostKnown`, with no further
  assumption. `BannedPeersLeave`: the safety of `LinksHold` (`BannedLeave` and
  `PruningKeepsOne`), which is inductive once written with the goroutines that
  have still to close a peer.

The theorems about a hosted part are about that part's specification with the
constants of its host (`Diff!Spec`, `Cps!Spec`, ...); the host adds only the
choice of the part that moves.

### The inductive invariants

`CanonicalChainLinked` is not inductive. `revertToHeight` can move the tip down
under a goroutine that has passed the checks of `addBlockInternal`, so the fact
that its block's parent was the tip is no longer true when it commits.
`ChainInvariant` says what is still true (`AdditionInOrder`): the tip may only
have sunk, since the other commits wait for `blockSubmitMu`; a revert leaves the
pointers above the new tip alone, so the chain is still linked up to the block
that was the tip; and unless the block fills a gap that block is its parent. So
its canonical hash goes above its parent's even when the tip is below, and the
pointers between are the chain. All this holds until `misplaced`. What the
account state is does not matter to it. `PointersSound` is inductive with what a
truncation has collected and with the block that is about to become canonical
(`PointersInvariant`). The parts are proved to be preserved action by action;
the temporal step is one line.

`SequentialInvariant` says where the tip is at each step of `performReorg`: so
many blocks up the branch being taken off (`OnActive`) or up the candidate
(`OnCandidate`), in the rollbacks too. Two facts make a rollback end where it
began: what is stored was valid and is stored with its ancestors
(`StoreClosed`), so adding it again cannot fail, and the canonical chain up to
the tip is the tip's ancestry (`TipSound`). While the tip is genesis nothing
else is stored (`FreshStore`), so no reorganization starts or ends there.
`findForkPoint` looks above the tip as well, so a pointer that a revert left
there can be taken for the fork point; then the active branch is empty and the
candidate's first block is refused (the second case of `ChildOfTip`). The work
gained compares the branches with the whole chains: `WorkUpTo` splits the work
of a chain at the fork point.

`RecoverableChainLinked` is not inductive either: it says nothing of the write
in progress. `StoreInvariant` adds that the canonical heights are the chain of
one block, that the head hash lags behind on that chain, and that the next
write is the next block of it (`WriteInOrder`). Truncation is the hard case: it
leaves the head hash on a deleted block, and if that block were stored again
without its pointers a restart would come up on it. `StateAhead` is why it is
not: the account state stays above the new tip, a block executes only on its
parent's state, and no two blocks share a state, so nothing executes before
the next start finds the chain.

`PoolSound` is inductive with the types. The rest of the pool is not, because
`addTx` and the cleaner act on old values. `ReadInv` says in which direction
they are old: a caller's nonce is at most the account's, heights are at most the
chain's, what the cleaner chose is spent or is data that was mined, and so is
what has left its snapshot. So a submission is compared with its predecessor in
the pool or with a nonce that is used, and every removal is of such a
transaction. `MinedOnce` follows from `HistoryInv`, which is about transfers
(`Txs \ Data`) only: the nonces of a block's transfers are unused in the state
the block was built on and used in that of every later block, which is also
where a revert goes back to.

`PauseTakesEffect` is almost inductive: once a block was submitted in a pause
the loop waits for its next tick, and there it looks at the flags before it
begins a round. `PendingSurvives` needs that the lock has one holder
(`LockHeld`), and which of pool and file is the valid copy in each phase of
that holder (`OneCopy`): the file is removed when it is loaded and written
after the database is closed. `WalletsSound` needs what the next step of a
command relies on (`CommandInOrder`: the newest file of the account being
saved is the one it writes), and that accounts whose files are all torn are
being written or in `unfinished` (`TornIsUnfinished`). `FaultsKnown` is about steps;
its two parts on the kings' turns need that every schedule, in memory, in the
database or half encoded by a saver, is one (`TurnTypeOK`), that a rotation and
an adjustment to a list end inside the list (`RotatedTurn`, `ClampedTurn`), and
that a list without its poor kings is a list (`EligibleList`).

`CheckpointsSound` follows the maps and the copies that savers hold
(`EveryCopyCovers`): each contains what was loaded, so whoever writes the file
last keeps it. `PruningSound` relates the pass to the marks: a block is marked
before it is deleted (`MarkedFirst`), and, while nobody truncates, the heights
of a pass stay old (`OldHeights`). `BansJust` says of the two ways to ban,
`BanPeer` from `RecordViolation` and the ban at once, that the first ends with the lock
held and that the second is taken only where a checkpoint is contradicted or a block
is large. `HeadersSound` needs the
chain's headers to be what every node accepts (`ChainAccepted`: the expected
difficulty is a function of the headers, so nodes that have the parent agree)
and the times of templates to come from a clock or to be one second after the
parent (`TemplatesInTime`); that a difficulty rises only when all gaps are
shortest is arithmetic over the sum of the window. `SyncKeepsChain` needs that
whenever the flag is on some goroutine is where it clears the flag or goes on
with another peer (`SyncAttended`; one that ended below its goal does not
count, it returns and leaves the flag on), and what a search knows
(`SearchInOrder`): the ancestor is shared, above `high` the chains differ,
both only while `steady`. Blocks that are the same at one height are the same
below it (`Linked`), which is what makes the found ancestor the fork. A new
block never lowers the tip, and a truncation is followed by the download in
the same goroutine, so neither leaves the flag to nobody.

`TipsSound` needs three things. A node does not go back to what it has stored
(`TipSettled`): a stored block is on the chain of its tip, or was overtaken by a
harder block where the two part, or lies above a tip whose account state executes
no block. So a block that was refused once is never adopted later, and an
announcement that is dropped as known loses nothing. A round of mining keeps its
comparison (`TipRound`): what the tip passes through on the way to the parent of a
block that a peer gave has no less work than that block once the miner has looked
at it, until a sync cuts the chain; the tip itself may be anywhere else meanwhile.
And while no two announced blocks on one parent count as the same work, all nodes
are together (`TipTogether`): there is a trunk `T`, the chain of most work at each
height, with every announced block on it, at most one above its end. Each node's
tip is `T` or a block on `T`, and outweighs every other block on `T` except those
whose announcement is still on its way (`TipOnTrunk`). `T` is nobody's tip in
particular; it grows by the heaviest block on it when somebody mines on that,
which without `burst` is not before the announcements of that height have arrived.
With nothing under way, each tip is the heaviest block on `T`.

`KingsLostKnown` has two halves. For the lists, `Keepers` says of everything
that the king topic, the database sync and the comparison have still to install
that it keeps the kings of the list it was computed from, or is longer
(`ListOK`); so only an installation over another list than that one forgets a
king. For the history, `LastSyncedBlock` alone gives no invariant: `SyncBlocks`
of an earlier block lowers it while requests from above are under way, and one
of a block that is gone raises it above the tip. What is covered or passed
(`Account`) never shrinks, since a revert moves a block from the one to the
other: so requests, answers and attempts that began after blocks accounted for
(`BeginsCovered`) still do, and the blocks above the tip up to a target of
`SyncBlocks` were taken back since it was set (`TargetsOK`).

`LedgerSound` compares sums over accounts before and after a block. Every
payment adds to one balance what it takes from another, so `CoinsAccountedFor`
needs lemmas on how a sum changes with one summand; the recursive functions
(sums, halvings, folds over transactions) are reasoned about by the least
element at which a claim about them fails, which needs no induction rule with
an operator parameter. `NoTransferTwice` needs that the nonce of an executed
transfer is below its sender's.

### Only model-checked

Liveness is out of the prover's reach (it needs induction over well-founded
orders and ENABLED): `SubmissionReturns`, `SpentLeavesPool`, `ChainGrows`,
`OverdueRotationMade`, `ShutdownEnds`, `CatchesUp`, `ListsAgree`,
`AttemptEnds`, `TransactionsSpread`, the leads-to parts of `LinksHold`.
The store under reorganizations (`RecoverableChainLinked` and `CommitIsDurable` of
`store_reorg`; the theorems about the store are for no reorganization) is not
proved. `StateMatchesTip` and `NoSelfDeadlock` are parts of `SequentialInvariant`,
but are not listed as results: its assumptions leave out the cases that break them
(fees, races). Every other safety property of a passing run is stated by a theorem.

`MinesOnMostWork` is about blocks on one parent, since no more is compared: a
miner that was given a block on another parent may, when that parent arrives and
takes over, build on a weaker sibling that arrives first. The attempt to prove
`TipsSound` showed two more limits, which its statement now names: a sync that
cuts a chain in the middle of a mining round takes away what outweighed the block
the miner was told of (`cut`), and blocks of difficulty 0 and 1 are the same work
(`CalculateBlockWork` counts at least 1), so that the harder one is selected and
then not adopted, and nodes that heard of them in different order keep different
tips.

## Known disagreements

Two runs show one each: `reorg_competitor` that `reorganizeAtHeight` waits for
the `stateMu` it holds, `execution_refused` that a refused block leaves what it
did on the live state. Reading the code for the models showed more, which the
models have, or which their assumptions and causes name:

* **Chain.** A revert replays with zero fees, ignores the king of the header and
  records the rewards again; a failed replay leaves `bc.state` nil. `TruncateTo`
  leaves account state, prune marks and pruned height. It holds only `bc.mu`
  (`blockchain.go:406`): a block that it collected, that a reorganization
  reverts and stores again, loses its data before its canonical hash is written,
  and the hash names nothing. While syncing a block goes on any tip with its
  parent's root. The children of an orphan that stays an orphan are pooled and
  processed again, one call inside the other, until the stack is exhausted
  (`reorganize.go:200-203`, `592-610`). The orphan map is read without its lock
  (`reorganize.go:200`). A head hash that could not be written is logged with
  "we can recover from this" (`sync.go:327`), which does not hold after a
  reorganization to a branch that is not higher: recovery takes the replaced
  branch, since it compares the parent one level down and up to height 10 only.
  A restart after a crash inside a commit does not find the state of its tip. An
  allocation may be made twice (`genesis.go:58`).
* **Execution.** Fees are credited and gas is never charged. The precheck knows
  neither nonces nor gas. Data transactions run a built-in list that pays 50 wei
  from the zero address and do not use a nonce: one can be submitted and mined
  again, and leaves the sender's later ones waiting (`vm.go:95-123`). The supply
  counts heights 0 to n-1 while 1 to n are paid.
* **Mining.** After a reorganization to a shorter and heavier branch the loop takes
  the canonical hash left above the tip for a block that exists and skips for ever
  (`mining.go:1113`). Templates check neither gas costs nor gas limits, nor that the
  king stays, so that their blocks are refused after they were executed.
* **Difficulty.** It rises by at most one, and 1 is absorbing; the genesis
  difficulty of a million is gone after some two dozen blocks; a round that
  begins less than 150 s after its parent is refused by its own node.
* **Pool and transactions.** A transaction is marked as seen even when the pool
  refused it, although a comment says after processing (`p2p.go:1609`); a node
  whose pool is empty never clears its marks. A replacement removes the old
  transaction before the new one is admitted.
* **Sync and tips.** `forceSync` leaves sync mode on after an error. A peer
  that claims most and serves an invalid chain is followed for ever. A fork of
  equal difficulty is not resolved by `ResolveMiningTipConsensus`. "Should not
  reach here" in `processBlock` is reached.
* **Kings.** `SyncBlocks` writes its target as `LastSyncedBlock` whatever is
  there (`rotatingking.go:585`), so a late one lowers it; `markDBSyncHeight`
  does not. Rotations below it are then asked for again. The walk is clamped to the
  tip (`1201`), what is saved is not; nobody tells the manager of a revert, and the
  block that replaces one taken back is not looked at. A king that one node cleans
  up comes back with another's longer list, and is cleaned up again.
* **Bans.** `RecordViolation` calls `BanPeer` under the lock that it takes.
  The horizon is an unsigned difference and wraps below height 100, where every
  block is old. A block that `Block.Size` allows (8 MB at 160 bytes a transaction) may
  exceed the 4 MiB of a push or the 16 MiB of an answer, for which an honest peer is
  recorded or banned. Serving a
  sync of more than 50 requests a second counts as violations. Expired bans are
  deleted under a read lock. A ban notice has no header and panics.
* **Checkpoints.** They are made at the tip although the comment says "ONLY FOR
  FINALIZED BLOCKS" (`sync.go:354`). A torn `checkpoints.json` stops the node.
  `GetStats` locks twice for reading.
* **Pruning.** Reading a pruned block that is not cached dereferences nil, and
  so does the fork choice of a pruned node after a restart. A crash between
  mark and deletion keeps the block for ever.
* **Wallets.** The wallet made at each start is locked and never saved, and
  `--startmining` mines to it. While it is there `savewallets` and
  `changepassword` fail midway, in map order. `changepassword` never checks the
  old password. `setaddress` finds a file by its name, whole or torn. Importing
  a seed of 32 bytes fails though the export says it can be imported.
* **Process.** `logger.Fatal` after `LoadFromDisk` (`main.go:1288`) loses the
  pending transactions, as a kill does. `Close` waits for the fork loop with
  `stateMu` held, which the loop may want. On Windows the directory's lock
  locks nothing.
* **Connections.** `connectToBootstrap` tries the first of the list only, those
  connected and banned included; parallel dials go over the limit and are
  pruned back.

## Plan

Done: every component above but those under "Not modelled", and the theorems
listed. What is worth doing next, most important first:

1. A proof of `store_reorg`: the store under reorganizations, until `misled`.
2. What nodes agree on when several heights are mined before announcements
   arrive (`burst`), where syncs bring them together.
3. ReorgManager and TxPool in one module: a commit calls into the pool, and
   waits there for a lock that is never given back after `LateLock`.
