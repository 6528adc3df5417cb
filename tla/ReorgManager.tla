---------------------------- MODULE ReorgManager ----------------------------
(***************************************************************************)
(* Block acceptance in one node: ReorgManager.ProcessNewBlock and the      *)
(* goroutines that call it, performReorg with its emergency rollback, the  *)
(* fork-detection and orphan-cleanup loops, and the Blockchain methods     *)
(* they drive (addBlockInternal, handleDirectExtension, revertToHeight,    *)
(* TruncateTo, StartSync, StopSync).                                       *)
(*                                                                         *)
(* A thread is a goroutine: a submitter (the local miner, the gossip       *)
(* handler, the fast-sync loop) or the fork detector.  A step is what one  *)
(* goroutine does between two points where another can interleave: taking  *)
(* rm.mu or blockSubmitMu, the reverts, which hold stateMu, and the writes *)
(* of a commit and of a truncation, which hold different mutexes.          *)
(***************************************************************************)
EXTENDS BlockTree, SequencesExt

CONSTANTS
  Submitters,       \* goroutines that hand blocks to AddBlock
  Detector,         \* the goroutine of forkDetectionLoop
  NoThread,         \* the holder of a free mutex
  NoFork,           \* an empty slot of activeForks
  MaxHeight,        \* bound: no block of the model is higher
  MaxReorgDepth,    \* ManagerMaxReorgDepth
  MinWorkForReorg,
  MaxOrphanBlocks,
  MaxForkDepth,
  SyncTargets,      \* heights that peers announce to the fast sync
  TruncateHeights   \* common ancestors at which the fast sync truncates

Threads == Submitters \cup {Detector}
AllBlocks == Blocks \cup {Genesis}
Heights == 0..MaxHeight

ASSUME ThreadsAssumption ==
  /\ Detector \notin Submitters
  /\ NoThread \notin Threads

ASSUME BoundsAssumption ==
  /\ MaxHeight \in Nat
  /\ \A b \in Blocks : Len(Path[b]) <= MaxHeight
  /\ MaxReorgDepth \in Nat
  /\ MinWorkForReorg \in Nat
  /\ MaxOrphanBlocks \in Nat \ {0}
  /\ MaxForkDepth \in Nat
  /\ SyncTargets \subseteq Heights
  /\ TruncateHeights \subseteq Heights

\* TruncateTo at work: it has read the height, and collects the canonical hashes
\* from there down to its target, or it has deleted them.
Cuts == [phase : {"none", "collect", "store"}, to : Heights, next : Heights,
         doomed : [Heights -> AllBlocks \cup {NoBlock}]]
NoCut == [phase |-> "none", to |-> 0, next |-> 0, doomed |-> [h \in Heights |-> NoBlock]]

\* The slice of ChainFork that decisions depend on; works are recomputed
\* from the two branches, which is what the code stores.
Forks == [height : Heights, active : Seq(Blocks), cand : Seq(Blocks)]

ASSUME NoForkAssumption == NoFork \notin Forks

VARIABLES
  stored,               \* blocks in the database, by hash
  canon,                \* database: height -> canonical hash
  head,                 \* database: hash of the head block
  overtaken,            \* history: blocks that a truncation deleted between the
                        \* write of the block and that of its canonical hash
  misplaced,            \* history: a sync made a block canonical above another
                        \* block than its parent
  latest,               \* bc.latest (with bc.lastCanonicalHeight)
  state,                \* root of the account state
  syncing, syncTarget,  \* sync mode
  syncRequests,         \* triggerSyncFromBlock goroutines not yet run
  cut,                  \* the truncation under way
  orphanPool,           \* arrival order of blocks with an unknown parent;
                        \* 0 for a block that is not in the pool
  activeForks,          \* fork height -> a fork that lost fork choice
  rmMu, blockSubmitMu,  \* holders of the two mutexes
  processingReorgBlock, \* the flag that routes AddBlock past the manager
  pc,                   \* where each goroutine is
  queue,                \* blocks it still has to process
  blk,                  \* the block it is adding
  seen,                 \* the tip addBlockInternal read on entry
  gap,                  \* the sync flag addBlockInternal read on entry
  ret,                  \* who called addBlockInternal
  fork,                 \* the fork being resolved
  step,                 \* position in the branch being walked
  from,                 \* the tip when performReorg started (history)
  todo                  \* the detector's snapshot of activeForks

storeVars  == <<stored, canon, head, overtaken, misplaced>>
chainVars  == <<stored, canon, head, overtaken, misplaced, latest, state>>
syncVars   == <<syncing, syncTarget, syncRequests, cut>>
poolVars   == <<orphanPool, activeForks>>
lockVars   == <<rmMu, blockSubmitMu, processingReorgBlock>>
callVars   == <<blk, seen, gap, ret>>
reorgVars  == <<fork, step, from>>
vars == <<stored, canon, head, overtaken, misplaced, latest, state, syncing,
          syncTarget, syncRequests, cut, orphanPool, activeForks, rmMu,
          blockSubmitMu, processingReorgBlock, pc, queue, blk, seen, gap, ret,
          fork, step, from, todo>>

PCs == {"idle", "process", "orphan", "adopt", "resolve", "keep", "reorg",
        "disconnect", "connect", "undo", "rollback", "submit", "exec", "commit",
        "canonical", "head", "stuck", "scan"}

\* The writes of a commit that are still to be done, in order: the block, its
\* canonical hash, the head hash with the tip.
Committing == {"commit", "canonical", "head"}

Init ==
  /\ stored = {Genesis}
  /\ canon = [h \in Heights |-> IF h = 0 THEN Genesis ELSE NoBlock]
  /\ head = Genesis
  /\ overtaken = {} /\ misplaced = FALSE
  /\ latest = Genesis
  /\ state = GenesisRoot
  /\ syncing = FALSE /\ syncTarget = 0 /\ syncRequests = {}
  /\ cut = NoCut
  /\ orphanPool = [b \in Blocks |-> 0]
  /\ activeForks = [h \in Heights |-> NoFork]
  /\ rmMu = NoThread /\ blockSubmitMu = NoThread
  /\ processingReorgBlock = FALSE
  /\ pc = [t \in Threads |-> "idle"]
  /\ queue = [t \in Threads |-> <<>>]
  /\ blk = [t \in Threads |-> NoBlock]
  /\ seen = [t \in Threads |-> NoBlock]
  /\ gap = [t \in Threads |-> FALSE]
  /\ ret = [t \in Threads |-> "direct"]
  /\ fork = [t \in Threads |-> NoFork]
  /\ step = [t \in Threads |-> 0]
  /\ from = [t \in Threads |-> NoBlock]
  /\ todo = {}

Goto(t, p) == pc' = [pc EXCEPT ![t] = p]

\* Where a goroutine goes when the handling of one block or fork returns.
Home(t) == IF t = Detector THEN "scan" ELSE "process"

-----------------------------------------------------------------------------
\* Reading the chain

CurrentHeight == Height(latest)

\* findForkPoint: the ancestors of p, p included, that are canonical and
\* that a walk over stored blocks reaches within MaxForkDepth steps.
ForkPoints(p) ==
  {k \in 0..Height(p) :
     /\ Height(p) - k < MaxForkDepth
     /\ canon[k] = Ancestor(p, k)
     /\ \A j \in k..Height(p) : Ancestor(p, j) \in stored}

\* buildChainToFork fails on the active side when a block is missing.
ActiveBuildable(k) ==
  /\ latest # NoBlock
  /\ \A j \in k..(Height(latest) - 1) : Ancestor(latest, j) \in stored

\* The fork that b opens against the current tip at height k.
NewFork(b, k) ==
  [height |-> k, active |-> Branch(latest, k), cand |-> Branch(b, k)]

\* The blocks in an orphan pool, and the pool after some have left it.
InPool(pool) == {x \in Blocks : pool[x] > 0}
Without(pool, S) ==
  [x \in Blocks |-> IF x \in S THEN 0
                    ELSE Cardinality({y \in InPool(pool) \ S : pool[y] <= pool[x]})]
Orphans == InPool(orphanPool)

\* Mutant: the tip is left out of the active branch.
WorkDiffWithoutTip(f) == CalculateChainWork(f.cand) - CalculateChainWork(Front(f.active))

\* Candidate work minus active work.
WorkDiff(f) == CalculateChainWork(f.cand) - CalculateChainWork(f.active)

\* handleDirectExtension holds stateMu from its first write to its last, and
\* reorganizeAtHeight for ever.
StateMuFree == \A t \in Threads : pc[t] \notin {"canonical", "head", "stuck"}

-----------------------------------------------------------------------------
\* ProcessNewBlock

\* What callers hand in: a block on a known parent (mined here, or gossiped
\* and let through by processBlock), or any block above the tip from the
\* block stream of a fast sync.
Offered(b) ==
  \/ Parent(b) \in stored
  \/ syncing /\ Height(b) > CurrentHeight

\* AddBlock and ProcessRemoteBlock: to the manager, unless some reorg is
\* adding a block at this moment.
AddBlock(t, b) ==
  /\ pc[t] = "idle"
  /\ Offered(b)
  /\ IF processingReorgBlock
       THEN /\ blk' = [blk EXCEPT ![t] = b]
            /\ ret' = [ret EXCEPT ![t] = "direct"]
            /\ Goto(t, "submit")
            /\ UNCHANGED queue
       ELSE /\ queue' = [queue EXCEPT ![t] = <<b>>]
            /\ Goto(t, "process")
            /\ UNCHANGED <<blk, ret>>
  /\ UNCHANGED <<chainVars, syncVars, poolVars, lockVars, seen, gap,
                 reorgVars, todo>>

\* The call returns, and what was local to it is gone.
ForgetLocals(t) ==
  /\ Goto(t, "idle")
  /\ blk' = [blk EXCEPT ![t] = NoBlock]
  /\ seen' = [seen EXCEPT ![t] = NoBlock]
  /\ gap' = [gap EXCEPT ![t] = FALSE]
  /\ ret' = [ret EXCEPT ![t] = "direct"]
  /\ fork' = [fork EXCEPT ![t] = NoFork]
  /\ step' = [step EXCEPT ![t] = 0]
  /\ from' = [from EXCEPT ![t] = NoBlock]

Return(t) ==
  /\ pc[t] = "process"
  /\ queue[t] = <<>>
  /\ ForgetLocals(t)
  /\ UNCHANGED <<chainVars, syncVars, poolVars, lockVars, queue, todo>>

\* extendChain: preflight validation, then addBlockInternal.
ExtendChain(t, b) ==
  /\ UNCHANGED fork
  /\ IF b \in Malformed
       THEN Goto(t, "process") /\ UNCHANGED <<ret, processingReorgBlock>>
       ELSE /\ ret' = [ret EXCEPT ![t] = "extend"]
            /\ processingReorgBlock' = TRUE
            /\ Goto(t, "submit")

\* Compare the branch of b with the active one: reorganize when it is ahead
\* by more than the margin, else remember it for the fork detector.
ConsiderFork(t, b, margin) ==
  /\ UNCHANGED <<ret, processingReorgBlock>>
  /\ \/ /\ ForkPoints(Parent(b)) = {}
        /\ Goto(t, "orphan") /\ UNCHANGED fork
     \/ \E k \in ForkPoints(Parent(b)) :
          /\ \A j \in ForkPoints(Parent(b)) : j <= k
          /\ IF ActiveBuildable(k)
               THEN LET f == NewFork(b, k)
                    IN /\ fork' = [fork EXCEPT ![t] = f]
                       /\ Goto(t, IF WorkDiff(f) > margin THEN "reorg" ELSE "keep")
               ELSE Goto(t, "process") /\ UNCHANGED fork

\* Mutant: a competitor goes to addBlockInternal, which has its own fork choice.
HandleSameHeightForkDirectly(t, b) == ExtendChain(t, b)

\* handleSameHeightFork: any excess of cumulative work wins.
HandleSameHeightFork(t, b) ==
  CASE Parent(b) \notin stored ->
         Goto(t, "orphan") /\ UNCHANGED <<fork, ret, processingReorgBlock>>
    [] Parent(b) \in stored /\ latest = NoBlock ->
         Goto(t, "process") /\ UNCHANGED <<fork, ret, processingReorgBlock>>
    [] OTHER -> ConsiderFork(t, b, 0)

\* ProcessNewBlock: one pass over the next block of the queue.
ProcessNewBlock(t) ==
  /\ pc[t] = "process"
  /\ queue[t] # <<>>
  /\ LET b == Head(queue[t])
         keepCall == UNCHANGED <<fork, ret, processingReorgBlock>>
     IN /\ queue' = [queue EXCEPT ![t] = Tail(queue[t])]
        /\ blk' = [blk EXCEPT ![t] = b]
        /\ CASE b \in stored -> Goto(t, "process") /\ keepCall
             [] b \notin stored /\ canon[Height(b)] # NoBlock ->
                  HandleSameHeightFork(t, b)
             [] /\ b \notin stored /\ canon[Height(b)] = NoBlock
                /\ Parent(b) = latest -> ExtendChain(t, b)
             [] /\ b \notin stored /\ canon[Height(b)] = NoBlock
                /\ Parent(b) # latest
                /\ Parent(b) \in Orphans ->
                  Goto(t, "adopt") /\ keepCall
             [] OTHER ->
                  IF Parent(b) \in stored
                    THEN ConsiderFork(t, b, MinWorkForReorg)
                    ELSE Goto(t, "orphan") /\ keepCall
  /\ UNCHANGED <<chainVars, syncVars, poolVars, rmMu, blockSubmitMu, seen, gap,
                 step, from, todo>>

\* addOrphanBlock: at the limit the oldest orphan makes room; a block that
\* is in the pool already becomes its youngest.
WithOrphan(pool, b) ==
  LET evicted == IF Cardinality(InPool(pool)) >= MaxOrphanBlocks
                   THEN {x \in Blocks : pool[x] = 1} ELSE {}
      room == Without(pool, evicted \cup {b})
  IN [room EXCEPT ![b] = Cardinality(InPool(room)) + 1]

AddOrphanBlock(t) ==
  /\ pc[t] \in {"orphan", "adopt"}
  /\ rmMu = NoThread
  /\ orphanPool' = WithOrphan(orphanPool, blk[t])
  /\ Goto(t, IF pc[t] = "adopt" THEN "resolve" ELSE "process")
  /\ UNCHANGED <<chainVars, syncVars, activeForks, lockVars, queue, callVars,
                 reorgVars, todo>>

\* tryResolveOrphans, called for a block whose parent is itself an orphan:
\* every child of that parent leaves the pool, in map order, and is processed
\* again.
TryResolveOrphans(t) ==
  /\ pc[t] = "resolve"
  /\ rmMu = NoThread
  /\ LET children == {x \in Orphans : Parent(x) = Parent(blk[t])}
     IN /\ orphanPool' = Without(orphanPool, children)
        /\ \E order \in SetToSeqs(children) :
             queue' = [queue EXCEPT ![t] = order \o queue[t]]
  /\ Goto(t, "process")
  /\ UNCHANGED <<chainVars, syncVars, activeForks, lockVars, callVars,
                 reorgVars, todo>>

\* cleanupExpiredOrphans: entries expire in the order they came in.
CleanupExpiredOrphans ==
  /\ rmMu = NoThread
  /\ \E n \in 1..Cardinality(Orphans) :
       orphanPool' = Without(orphanPool, {x \in Blocks : orphanPool[x] <= n})
  /\ UNCHANGED <<chainVars, syncVars, activeForks, lockVars, pc, queue,
                 callVars, reorgVars, todo>>

\* The losing fork is kept under its fork height, replacing an older one.
KeepFork(t) ==
  /\ pc[t] = "keep"
  /\ rmMu = NoThread
  /\ activeForks' = [activeForks EXCEPT ![fork[t].height] = fork[t]]
  /\ Goto(t, Home(t))
  /\ UNCHANGED <<chainVars, syncVars, orphanPool, lockVars, queue, callVars,
                 reorgVars, todo>>

-----------------------------------------------------------------------------
\* performReorg

\* Mutant: no limit on the depth.
StartReorgAnyDepth(t) ==
  /\ pc[t] = "reorg"
  /\ rmMu = NoThread
  /\ rmMu' = t
  /\ step' = [step EXCEPT ![t] = Len(fork[t].active)]
  /\ from' = [from EXCEPT ![t] = latest]
  /\ Goto(t, "disconnect")
  /\ UNCHANGED <<chainVars, syncVars, poolVars, blockSubmitMu,
                 processingReorgBlock, queue, callVars, fork, todo>>

\* Mutant: the walk down starts one past the end of the branch.
StartReorgOffByOne(t) ==
  /\ pc[t] = "reorg"
  /\ rmMu = NoThread
  /\ rmMu' = t
  /\ step' = [step EXCEPT ![t] = Len(fork[t].active) + 1]
  /\ from' = [from EXCEPT ![t] = latest]
  /\ Goto(t, "disconnect")
  /\ UNCHANGED <<chainVars, syncVars, poolVars, blockSubmitMu,
                 processingReorgBlock, queue, callVars, fork, todo>>

StartReorg(t) ==
  /\ pc[t] = "reorg"
  /\ rmMu = NoThread
  /\ IF Len(fork[t].active) > MaxReorgDepth
       THEN Goto(t, Home(t)) /\ UNCHANGED <<rmMu, step, from>>
       ELSE /\ rmMu' = t
            /\ step' = [step EXCEPT ![t] = Len(fork[t].active)]
            /\ from' = [from EXCEPT ![t] = latest]
            /\ Goto(t, "disconnect")
  /\ UNCHANGED <<chainVars, syncVars, poolVars, blockSubmitMu,
                 processingReorgBlock, queue, callVars, fork, todo>>

\* Mutant: the replay stops one block short.
ReplayedStateShort(h) == Root(canon[IF h = 0 THEN 0 ELSE h - 1])

\* The root that replaying the canonical blocks 1..h from genesis gives.
\* Replay credits no fees, so a fee-paying block leads elsewhere.
ReplayedState(h) ==
  IF \A k \in 1..h : /\ canon[k] \notin FeePaying
                     /\ Root(Parent(canon[k])) = Root(canon[k - 1])
    THEN Root(canon[h])
    ELSE Diverged

ReplayBlocked(h) == \E k \in 1..h : canon[k] \notin stored

\* revertToHeight(h): error above the tip, nothing at the tip, else rebuild
\* the state and move the tip; database pointers stay as they are.
RevertFails(h) ==
  h > CurrentHeight \/ (h < CurrentHeight /\ ReplayBlocked(h))

RevertToHeight(h) ==
  IF h >= CurrentHeight
    THEN UNCHANGED <<latest, state>>
    ELSE IF ReplayBlocked(h)
      THEN state' = Diverged /\ UNCHANGED latest
      ELSE /\ state' = ReplayedState(h)
           /\ latest' = IF h = 0 THEN NoBlock ELSE canon[h]

\* Disconnect the recorded active branch, newest block first.
DisconnectBlock(t) ==
  /\ pc[t] = "disconnect"
  /\ IF step[t] = 0
       THEN /\ step' = [step EXCEPT ![t] = 1]
            /\ Goto(t, "connect")
            /\ UNCHANGED <<latest, state>>
       ELSE LET h == Height(fork[t].active[step[t]]) - 1
            IN /\ StateMuFree
               /\ RevertToHeight(h)
               /\ IF RevertFails(h)
                    THEN /\ step' = [step EXCEPT ![t] = @ + 1]
                         /\ Goto(t, "rollback")
                    ELSE /\ step' = [step EXCEPT ![t] = @ - 1]
                         /\ UNCHANGED pc
  /\ UNCHANGED <<storeVars, syncVars, poolVars, lockVars, queue, callVars, fork,
                 from, todo>>

\* Hand one block of a branch to addBlockInternal through the adapter.
CallAddBlock(t, b, caller) ==
  /\ blk' = [blk EXCEPT ![t] = b]
  /\ ret' = [ret EXCEPT ![t] = caller]
  /\ processingReorgBlock' = TRUE
  /\ Goto(t, "submit")

\* Connect the candidate branch, oldest block first.
ConnectBlock(t) ==
  /\ pc[t] = "connect"
  /\ IF step[t] > Len(fork[t].cand)
       THEN /\ activeForks' = [activeForks EXCEPT ![fork[t].height] = NoFork]
            /\ rmMu' = NoThread
            /\ Goto(t, Home(t))
            /\ UNCHANGED <<blk, ret, processingReorgBlock, step>>
       ELSE LET b == fork[t].cand[step[t]]
            IN IF Parent(b) \notin stored
                 THEN /\ step' = [step EXCEPT ![t] = 1]
                      /\ Goto(t, "rollback")
                      /\ UNCHANGED <<blk, ret, processingReorgBlock,
                                     activeForks, rmMu>>
                 ELSE /\ CallAddBlock(t, b, "reorg")
                      /\ UNCHANGED <<step, activeForks, rmMu>>
  /\ UNCHANGED <<chainVars, syncVars, orphanPool, blockSubmitMu, queue, seen,
                 gap, fork, from, todo>>

\* emergencyRollbackFrom: disconnect what was connected, errors ignored.
UndoCandidate(t) ==
  /\ pc[t] = "undo"
  /\ IF step[t] = 0
       THEN /\ step' = [step EXCEPT ![t] = 1]
            /\ Goto(t, "rollback")
            /\ UNCHANGED <<latest, state>>
       ELSE /\ StateMuFree
            /\ RevertToHeight(Height(fork[t].cand[step[t]]) - 1)
            /\ step' = [step EXCEPT ![t] = @ - 1]
            /\ UNCHANGED pc
  /\ UNCHANGED <<storeVars, syncVars, poolVars, lockVars, queue, callVars, fork,
                 from, todo>>

\* Mutant: the newest disconnected block is not reconnected.
EmergencyRollbackWithoutTip(t) ==
  /\ pc[t] = "rollback"
  /\ IF step[t] >= Len(fork[t].active)
       THEN /\ rmMu' = NoThread
            /\ Goto(t, Home(t))
            /\ UNCHANGED <<blk, ret, processingReorgBlock>>
       ELSE /\ CallAddBlock(t, fork[t].active[step[t]], "rollback")
            /\ UNCHANGED rmMu
  /\ UNCHANGED <<chainVars, syncVars, poolVars, blockSubmitMu, queue, seen, gap,
                 reorgVars, todo>>

\* emergencyRollback: reconnect the disconnected blocks, oldest first.
EmergencyRollback(t) ==
  /\ pc[t] = "rollback"
  /\ IF step[t] > Len(fork[t].active)
       THEN /\ rmMu' = NoThread
            /\ Goto(t, Home(t))
            /\ UNCHANGED <<blk, ret, processingReorgBlock>>
       ELSE /\ CallAddBlock(t, fork[t].active[step[t]], "rollback")
            /\ UNCHANGED rmMu
  /\ UNCHANGED <<chainVars, syncVars, poolVars, blockSubmitMu, queue, seen, gap,
                 reorgVars, todo>>

-----------------------------------------------------------------------------
\* addBlockInternal

\* Mutant: the rollback loop does not advance.
FinishWithoutAdvance(t, ok) ==
  /\ processingReorgBlock' =
       IF ret[t] = "direct" THEN processingReorgBlock ELSE FALSE
  /\ CASE ret[t] = "reorg" /\ ok ->
            Goto(t, "connect") /\ step' = [step EXCEPT ![t] = @ + 1]
       [] ret[t] = "reorg" /\ ~ok ->
            Goto(t, "undo") /\ step' = [step EXCEPT ![t] = @ - 1]
       [] ret[t] = "rollback" -> Goto(t, "rollback") /\ UNCHANGED step
       [] OTHER -> Goto(t, "process") /\ UNCHANGED step

\* The caller goes on with the result.
Finish(t, ok) ==
  /\ processingReorgBlock' =
       IF ret[t] = "direct" THEN processingReorgBlock ELSE FALSE
  /\ CASE ret[t] = "reorg" /\ ok ->
            Goto(t, "connect") /\ step' = [step EXCEPT ![t] = @ + 1]
       [] ret[t] = "reorg" /\ ~ok ->
            Goto(t, "undo") /\ step' = [step EXCEPT ![t] = @ - 1]
       [] ret[t] = "rollback" ->
            Goto(t, "rollback") /\ step' = [step EXCEPT ![t] = @ + 1]
       [] OTHER -> Goto(t, "process") /\ UNCHANGED step

ParentFound(b) ==
  canon[Height(b) - 1] = Parent(b) \/ Parent(b) \in stored

\* Duplicates, stale blocks and losing competitors are rejected, and so are
\* blocks without a parent or ahead of the tip, which ask for a sync.
Rejected(b) ==
  \/ Height(b) < CurrentHeight
  \/ Height(b) = CurrentHeight /\ latest = b
  \/ ~ParentFound(b)
  \/ Height(b) = CurrentHeight /\ ~IsBetterBlockCandidate(b, latest)
  \/ Height(b) > CurrentHeight + 1

AsksForSync(b) ==
  /\ ~syncing
  /\ Height(b) > CurrentHeight
  /\ ~ParentFound(b) \/ Height(b) > CurrentHeight + 1

\* A better competitor of the tip goes to reorganizeAtHeight, which locks
\* stateMu and then calls revertToHeight, which locks it again.
EnterAddBlock(t) ==
  /\ pc[t] = "submit"
  /\ blockSubmitMu = NoThread
  /\ syncRequests' = IF AsksForSync(blk[t])
                       THEN syncRequests \cup {Height(blk[t])} ELSE syncRequests
  /\ IF Rejected(blk[t])
       THEN Finish(t, FALSE) /\ UNCHANGED <<blockSubmitMu, seen, gap>>
       ELSE /\ blockSubmitMu' = t
            /\ seen' = [seen EXCEPT ![t] = latest]
            /\ gap' = [gap EXCEPT ![t] = syncing]
            /\ Goto(t, IF Height(blk[t]) = CurrentHeight THEN "stuck" ELSE "exec")
            /\ UNCHANGED <<processingReorgBlock, step>>
  /\ UNCHANGED <<chainVars, syncing, syncTarget, cut, poolVars, rmMu, queue, blk, ret,
                 fork, from, todo>>

\* validateAndExecuteBlock: a failed check leaves the state alone; a block
\* that passes has changed it, whatever addBlockInternal then decides.
Executable(b) ==
  /\ b \notin Malformed \cup BadRoot
  /\ state = Root(Parent(b))

\* Mutant: a block on any stored parent is accepted.
ExtendsAnyBlock(t) == TRUE

\* The block is the child of the tip that was read, or fills a gap in a sync.
ExtendsTip(t) == Parent(blk[t]) = seen[t] \/ gap[t]

ValidateAndExecuteBlock(t) ==
  /\ pc[t] = "exec"
  /\ IF ~Executable(blk[t])
       THEN UNCHANGED state /\ blockSubmitMu' = NoThread /\ Finish(t, FALSE)
       ELSE /\ state' = Root(blk[t])
            /\ IF ExtendsTip(t)
                 THEN /\ Goto(t, "commit")
                      /\ UNCHANGED <<blockSubmitMu, processingReorgBlock, step>>
                 ELSE blockSubmitMu' = NoThread /\ Finish(t, FALSE)
  /\ UNCHANGED <<storeVars, latest, syncVars, poolVars, rmMu, queue, callVars,
                 fork, from, todo>>

\* handleDirectExtension, with the database and the tip written before the
\* committed root is compared with the header.
WriteBlock(t) ==
  /\ pc[t] = "commit"
  /\ stored' = stored \cup {blk[t]}
  /\ Goto(t, "canonical")
  /\ UNCHANGED <<canon, head, overtaken, misplaced, latest, state, syncVars,
                 poolVars, lockVars, queue, callVars, reorgVars, todo>>

\* A gap is filled above whatever block is the tip.
FillsGapWrongly(t) == gap[t] /\ canon[Height(blk[t]) - 1] # Parent(blk[t])

\* Mutant: a canonical pointer that exists is not overwritten.
WriteCanonicalHashOnce(t) ==
  /\ pc[t] = "canonical"
  /\ canon' = [canon EXCEPT ![Height(blk[t])] = IF @ = NoBlock THEN blk[t] ELSE @]
  /\ misplaced' = (misplaced \/ FillsGapWrongly(t))
  /\ Goto(t, "head")
  /\ UNCHANGED <<stored, head, overtaken, latest, state, syncVars, poolVars,
                 lockVars, queue, callVars, reorgVars, todo>>

WriteCanonicalHash(t) ==
  /\ pc[t] = "canonical"
  /\ canon' = [canon EXCEPT ![Height(blk[t])] = blk[t]]
  /\ misplaced' = (misplaced \/ FillsGapWrongly(t))
  /\ Goto(t, "head")
  /\ UNCHANGED <<stored, head, overtaken, latest, state, syncVars, poolVars,
                 lockVars, queue, callVars, reorgVars, todo>>

WriteHeadBlockHash(t) ==
  /\ pc[t] = "head"
  /\ LET b == blk[t]
         ok == state = Root(b)
     IN /\ head' = b
        /\ latest' = b
        /\ syncing' = (syncing /\ ~(ok /\ gap[t] /\ Height(b) >= syncTarget))
        /\ blockSubmitMu' = NoThread
        /\ Finish(t, ok)
  /\ UNCHANGED <<stored, canon, overtaken, misplaced, state, syncTarget,
                 syncRequests, cut, poolVars, rmMu, queue, callVars, fork, from,
                 todo>>

-----------------------------------------------------------------------------
\* The fork detector, and sync mode

DetectAndResolveForks ==
  /\ pc[Detector] = "idle"
  /\ rmMu = NoThread
  /\ todo' = {activeForks[h] : h \in {k \in Heights :
                activeForks[k] # NoFork /\ WorkDiff(activeForks[k]) > 0}}
  /\ todo' # {}
  /\ Goto(Detector, "scan")
  /\ UNCHANGED <<chainVars, syncVars, poolVars, lockVars, queue, callVars,
                 reorgVars>>

NextDetectedFork ==
  /\ pc[Detector] = "scan"
  /\ IF todo = {}
       THEN ForgetLocals(Detector) /\ UNCHANGED todo
       ELSE /\ \E f \in todo : /\ fork' = [fork EXCEPT ![Detector] = f]
                               /\ todo' = todo \ {f}
            /\ Goto(Detector, "reorg")
            /\ UNCHANGED <<callVars, step, from>>
  /\ UNCHANGED <<chainVars, syncVars, poolVars, lockVars, queue>>

\* triggerSyncFromBlock, the goroutine addBlockInternal starts.
TriggerSyncFromBlock ==
  /\ \E h \in syncRequests :
       /\ syncRequests' = syncRequests \ {h}
       /\ IF h > CurrentHeight THEN syncing' = TRUE /\ syncTarget' = h
                               ELSE UNCHANGED <<syncing, syncTarget>>
  /\ UNCHANGED <<chainVars, cut, poolVars, lockVars, pc, queue, callVars,
                 reorgVars, todo>>

StartSync ==
  /\ \E h \in SyncTargets :
       h > CurrentHeight /\ syncing' = TRUE /\ syncTarget' = h
  /\ UNCHANGED <<chainVars, syncRequests, cut, poolVars, lockVars, pc, queue,
                 callVars, reorgVars, todo>>

StopSync ==
  /\ syncing
  /\ syncing' = FALSE /\ syncTarget' = 0
  /\ UNCHANGED <<chainVars, syncRequests, cut, poolVars, lockVars, pc, queue,
                 callVars, reorgVars, todo>>

\* TruncateTo, called by the fast sync at the common ancestor with its peer.  It
\* holds bc.mu, which keeps out no commit and no revert: blocks and pointers
\* above the ancestor go, the head pointer and the state stay.
TruncateTo ==
  /\ syncing
  /\ cut.phase = "none"
  /\ \E h \in TruncateHeights :
       /\ h < CurrentHeight
       /\ cut' = [NoCut EXCEPT !.phase = "collect", !.to = h, !.next = CurrentHeight]
  /\ UNCHANGED <<chainVars, syncing, syncTarget, syncRequests, poolVars, lockVars,
                 pc, queue, callVars, reorgVars, todo>>

\* The canonical hash of the next height down joins the batch.
CollectCanonicalHash ==
  /\ cut.phase = "collect" /\ cut.next > cut.to
  /\ cut' = [cut EXCEPT !.doomed[cut.next] = canon[cut.next], !.next = @ - 1]
  /\ UNCHANGED <<chainVars, syncing, syncTarget, syncRequests, poolVars, lockVars,
                 pc, queue, callVars, reorgVars, todo>>

\* What the batch deletes: blocks, and the pointers at the heights they had.
DoomedBlocks == {cut.doomed[h] : h \in Heights} \ {NoBlock}
DoomedHeights == {h \in Heights : cut.doomed[h] # NoBlock}

\* Mutant: blocks go, the pointers to them stay.
CommitTruncationKeepsPointers ==
  /\ cut.phase = "collect" /\ cut.next = cut.to
  /\ stored' = stored \ DoomedBlocks
  /\ cut' = [cut EXCEPT !.phase = "store"]
  /\ UNCHANGED <<canon, head, overtaken, misplaced, latest, state, syncing,
                 syncTarget, syncRequests, poolVars, lockVars, pc, queue, callVars,
                 reorgVars, todo>>

CommitTruncation ==
  /\ cut.phase = "collect" /\ cut.next = cut.to
  /\ stored' = stored \ DoomedBlocks
  /\ canon' = [h \in Heights |-> IF h \in DoomedHeights THEN NoBlock ELSE canon[h]]
  /\ overtaken' = overtaken \cup {b \in DoomedBlocks :
                     \E t \in Threads : pc[t] = "canonical" /\ blk[t] = b}
  /\ cut' = [cut EXCEPT !.phase = "store"]
  /\ UNCHANGED <<head, misplaced, latest, state, syncing, syncTarget, syncRequests,
                 poolVars, lockVars, pc, queue, callVars, reorgVars, todo>>

\* The tip becomes the block at the target height, if it can be read.
StoreTruncatedTip ==
  /\ cut.phase = "store"
  /\ latest' = IF cut.to = 0 THEN NoBlock
               ELSE IF canon[cut.to] \in stored THEN canon[cut.to] ELSE latest
  /\ cut' = NoCut
  /\ UNCHANGED <<storeVars, state, syncing, syncTarget, syncRequests, poolVars,
                 lockVars, pc, queue, callVars, reorgVars, todo>>

ThreadStep(t) ==
  \/ Return(t) \/ ProcessNewBlock(t)
  \/ AddOrphanBlock(t) \/ TryResolveOrphans(t) \/ KeepFork(t)
  \/ StartReorg(t) \/ DisconnectBlock(t) \/ ConnectBlock(t)
  \/ UndoCandidate(t) \/ EmergencyRollback(t)
  \/ EnterAddBlock(t) \/ ValidateAndExecuteBlock(t)
  \/ WriteBlock(t) \/ WriteCanonicalHash(t) \/ WriteHeadBlockHash(t)

Next ==
  \/ \E t \in Submitters, b \in Blocks : AddBlock(t, b)
  \/ \E t \in Threads : ThreadStep(t)
  \/ DetectAndResolveForks \/ NextDetectedFork
  \/ CleanupExpiredOrphans
  \/ TriggerSyncFromBlock \/ StartSync \/ StopSync
  \/ TruncateTo \/ CollectCanonicalHash \/ CommitTruncation \/ StoreTruncatedTip

Spec == Init /\ [][Next]_vars

\* A goroutine that can run keeps running, and a mutex is not withheld for
\* ever from a goroutine that waits for it (sync.Mutex hands over in
\* starvation mode).
Fairness ==
  /\ \A t \in Threads : SF_vars(ThreadStep(t))
  /\ WF_vars(NextDetectedFork)

FairSpec == Spec /\ Fairness

-----------------------------------------------------------------------------
\* Properties

TypeOK ==
  /\ stored \subseteq AllBlocks
  /\ canon \in [Heights -> AllBlocks \cup {NoBlock}]
  /\ head \in AllBlocks
  /\ overtaken \subseteq Blocks
  /\ misplaced \in BOOLEAN
  /\ latest \in AllBlocks \cup {NoBlock}
  /\ syncing \in BOOLEAN
  /\ syncTarget \in Heights
  /\ syncRequests \subseteq Heights
  /\ cut \in Cuts
  /\ orphanPool \in [Blocks -> Nat]
  /\ activeForks \in [Heights -> Forks \cup {NoFork}]
  /\ rmMu \in Threads \cup {NoThread}
  /\ blockSubmitMu \in Threads \cup {NoThread}
  /\ processingReorgBlock \in BOOLEAN
  /\ pc \in [Threads -> PCs]
  /\ queue \in [Threads -> Seq(Blocks)]
  /\ blk \in [Threads -> Blocks \cup {NoBlock}]
  /\ seen \in [Threads -> AllBlocks \cup {NoBlock}]
  /\ gap \in [Threads -> BOOLEAN]
  /\ ret \in [Threads -> {"direct", "extend", "reorg", "rollback"}]
  /\ fork \in [Threads -> Forks \cup {NoFork}]
  /\ step \in [Threads -> Int]
  /\ from \in [Threads -> AllBlocks \cup {NoBlock}]
  /\ todo \subseteq Forks

\* The canonical pointers from genesis up to the tip name stored blocks of
\* the right height, each the child of the one below, and end in the tip:
\* what GetBlock(height) answers is one chain, whatever reorganizations,
\* rollbacks and races went before.  Only a sync breaks it: it puts a block on
\* a tip that is not its parent, when the two have the same account state.
CanonicalChainLinked ==
  \/ misplaced
  \/ /\ latest # NoBlock => canon[CurrentHeight] = latest
     /\ \A h \in 1..CurrentHeight :
          /\ canon[h] \in stored \cap Blocks
          /\ Height(canon[h]) = h
          /\ Parent(canon[h]) = canon[h - 1]

\* Whenever no block is between execution and commit, the account state is
\* the one the tip's header commits to, so the next child of the tip can be
\* executed (validateAndExecuteBlock compares exactly these roots).
StateMatchesTip ==
  (\A t \in Threads : pc[t] \notin Committing) => state = Root(latest)

\* emergencyRollback gives back the tip the reorganization started from.
FailedReorgRestoresTip ==
  [][\A t \in Threads :
       pc[t] = "rollback" /\ rmMu = t /\ rmMu' = NoThread
         => latest' = from[t]]_vars

\* A reorganization never takes the tip more than MaxReorgDepth blocks below
\* where it started, and when it completes the chain has more cumulative work
\* than the one it replaced.
ReorgGainsWorkInDepth ==
  [][\A t \in Threads :
       /\ pc[t] = "connect" /\ rmMu = t /\ rmMu' = NoThread
            => TotalWork(latest') > TotalWork(from[t])
       /\ pc'[t] \in {"disconnect", "connect", "undo"}
            => Height(from'[t]) - CurrentHeight' <= MaxReorgDepth]_vars

\* Handing a block to the chain always comes back: every rollback ends, and no
\* goroutine waits for a mutex in vain.  The one call that need not return is
\* that of tryResolveOrphans for a parent that stays an orphan itself: its
\* children are pooled and processed again, one call inside the other.
ResolvesUnderOrphan(t) == blk[t] \in Blocks /\ Parent(blk[t]) \in Orphans

SubmissionReturns ==
  \A t \in Submitters : []<>(pc[t] = "idle") \/ <>[]ResolvesUnderOrphan(t)

\* No goroutine waits for a stateMu that it holds itself.
NoSelfDeadlock == \A t \in Threads : pc[t] # "stuck"

=============================================================================
