---------------------------- MODULE ReorgProofs ----------------------------
(***************************************************************************)
(* Proofs about ReorgManager.                                              *)
(*                                                                         *)
(* First its type invariant, and that the canonical pointers stay sound    *)
(* whatever goroutines, reorganizations and truncations do; then that the  *)
(* canonical chain stays linked, for blocks that may share their states,   *)
(* until a sync misplaces a block, when the fast sync does not truncate.   *)
(*                                                                         *)
(* Then what it promises while one goroutine at a time is at work: a       *)
(* failed reorganization restores the tip it started from, and a completed *)
(* one has gained work.  SequentialInvariant says where the tip is at each *)
(* step of performReorg and of its rollback; it is inductive for any block *)
(* tree with one block of height 1, when blocks pay no fees and the fast   *)
(* sync does not truncate.                                                 *)
(***************************************************************************)
EXTENDS ReorgInvariant, TLAPS, SequenceTheorems, FiniteSetTheorems, SumLemmas

-----------------------------------------------------------------------------
\* Lemmas about the block tree and the helpers of the model.

\* A block is one higher than its parent, and every block has a parent.
LEMMA ParentHeight ==
  ASSUME NEW b \in Blocks
  PROVE  /\ Path[b] \in Seq(Blocks)
         /\ Height(b) = Len(Path[b])
         /\ Height(b) \in 1..MaxHeight
         /\ Parent(b) \in AllBlocks
         /\ Height(Parent(b)) = Height(b) - 1
<1>1. /\ Path[b] \in Seq(Blocks)
      /\ Len(Path[b]) > 0
      /\ \A i \in 1..Len(Path[b]) : Path[Path[b][i]] = SubSeq(Path[b], 1, i)
  BY PathAssumption
<1>2. /\ Len(Path[b]) \in Nat
      /\ Height(b) = Len(Path[b])
      /\ Height(b) \in 1..MaxHeight
  BY <1>1, LenProperties, BoundsAssumption DEF Height
<1>3. CASE Len(Path[b]) = 1
  BY <1>1, <1>2, <1>3, BlocksAssumption DEF Parent, Height, AllBlocks
<1>4. CASE Len(Path[b]) # 1
  <2> DEFINE n == Len(Path[b]) - 1
  <2>1. n \in 1..Len(Path[b]) /\ n \in Nat
    <3> DEFINE L == Len(Path[b])
    <3>1. L \in Nat /\ L > 0 /\ L # 1
      BY <1>1, <1>2, <1>4
    <3> HIDE DEF L
    <3>2. L - 1 \in 1..L /\ L - 1 \in Nat
      BY <3>1
    <3> QED BY <3>2 DEF L
  <2>2. Parent(b) = Path[b][n] /\ Path[b][n] \in Blocks
    BY <1>1, <1>4, <2>1, ElementOfSeq DEF Parent
  <2>3. Path[Parent(b)] = SubSeq(Path[b], 1, n)
    BY <1>1, <2>1, <2>2
  <2>4. Len(SubSeq(Path[b], 1, n)) = n
    BY <1>1, <2>1, LenProperties, SubSeqProperties
  <2> QED
    BY <1>1, <1>2, <2>2, <2>3, <2>4 DEF Height, AllBlocks
<1> QED BY <1>1, <1>2, <1>3, <1>4

\* Heights are within the bound, that of a nil block included.
LEMMA HeightInBound ==
  \A x \in AllBlocks \cup {NoBlock} : Height(x) \in Heights
BY ParentHeight, BoundsAssumption DEF Height, Heights

\* The branch to a block above any height is a sequence of blocks.
LEMMA BranchType ==
  ASSUME NEW b \in AllBlocks \cup {NoBlock}, NEW h \in Nat
  PROVE  Branch(b, h) \in Seq(Blocks)
<1>1. CASE b \notin Blocks
  BY <1>1, EmptySeq DEF Branch
<1>2. CASE b \in Blocks
  <2>1. Path[b] \in Seq(Blocks) /\ Len(Path[b]) \in Nat
    BY <1>2, ParentHeight, LenProperties
  <2>2. \A i \in (h + 1)..Len(Path[b]) : Path[b][i] \in Blocks
    BY <2>1, ElementOfSeq
  <2> QED
    BY <1>2, <2>1, <2>2, SubSeqProperties DEF Branch
<1> QED BY <1>1, <1>2

\* The pool operators keep arrival numbers natural.
LEMMA WithoutType ==
  ASSUME NEW pool, NEW S
  PROVE  Without(pool, S) \in [Blocks -> Nat]
<1>1. \A T : T \subseteq Blocks => Cardinality(T) \in Nat
  BY BlocksAssumption, FS_Subset, FS_CardinalityType
<1>2. \A x \in Blocks :
        {y \in InPool(pool) \ S : pool[y] <= pool[x]} \subseteq Blocks
  BY DEF InPool
<1> QED BY <1>1, <1>2 DEF Without

LEMMA WithOrphanType ==
  ASSUME NEW pool, NEW b \in Blocks
  PROVE  WithOrphan(pool, b) \in [Blocks -> Nat]
<1>1. \A S : Without(pool, S) \in [Blocks -> Nat]
  BY WithoutType
<1>2. \A p : InPool(p) \subseteq Blocks
  BY DEF InPool
<1>3. \A p : Cardinality(InPool(p)) \in Nat
  BY <1>2, BlocksAssumption, FS_Subset, FS_CardinalityType
<1> QED BY <1>1, <1>3 DEF WithOrphan

\* Any order of a set of blocks is a sequence of blocks.
LEMMA OrderType ==
  ASSUME NEW S \in SUBSET Blocks, NEW f \in SetToSeqs(S)
  PROVE  f \in Seq(Blocks)
<1>1. Cardinality(S) \in Nat
  BY BlocksAssumption, FS_Subset, FS_CardinalityType
<1>2. f \in [1..Cardinality(S) -> S]
  BY DEF SetToSeqs
<1> QED BY <1>1, <1>2, IsASeq

-----------------------------------------------------------------------------
\* The type invariant, with what the locals of a goroutine hold.

LEMMA TypeInit == Init => TypeInvariant
<1> SUFFICES ASSUME Init PROVE TypeInvariant
  OBVIOUS
<1>1. TypeOK
  <2>1. 0 \in Heights
    BY BoundsAssumption DEF Heights
  <2>2. /\ canon \in [Heights -> AllBlocks \cup {NoBlock}]
        /\ activeForks \in [Heights -> Forks \cup {NoFork}]
        /\ orphanPool \in [Blocks -> Nat]
    BY DEF Init, AllBlocks
  <2>3. queue \in [Threads -> Seq(Blocks)]
    BY EmptySeq DEF Init
  <2>4. /\ blk \in [Threads -> Blocks \cup {NoBlock}]
        /\ seen \in [Threads -> AllBlocks \cup {NoBlock}]
        /\ gap \in [Threads -> BOOLEAN]
        /\ ret \in [Threads -> {"direct", "extend", "reorg", "rollback"}]
        /\ fork \in [Threads -> Forks \cup {NoFork}]
        /\ step \in [Threads -> Int]
        /\ from \in [Threads -> AllBlocks \cup {NoBlock}]
        /\ pc \in [Threads -> PCs]
    BY DEF Init, PCs
  <2> QED
    BY <2>1, <2>2, <2>3, <2>4 DEF Init, TypeOK, AllBlocks
<1>2. ASSUME NEW t \in Threads PROVE LocalsOK(t)
  BY DEF Init, LocalsOK, Adding, Committing, Reorganizing
<1> QED BY <1>1, <1>2 DEF TypeInvariant

\* A goroutine that does nothing keeps its locals in order.
LEMMA Bystander ==
  ASSUME NEW u \in Threads, LocalsOK(u),
         pc'[u] = pc[u], blk'[u] = blk[u], ret'[u] = ret[u],
         fork'[u] = fork[u], step'[u] = step[u]
  PROVE  LocalsOK(u)'
BY DEF LocalsOK

\* One goroutine moved: it is enough that its own locals are in order.
LEMMA OneMoved ==
  ASSUME TypeInvariant, TypeOK', NEW t \in Threads, LocalsOK(t)',
         \A u \in Threads \ {t} :
           /\ pc'[u] = pc[u] /\ blk'[u] = blk[u] /\ ret'[u] = ret[u]
           /\ fork'[u] = fork[u] /\ step'[u] = step[u]
  PROVE  TypeInvariant'
<1>1. ASSUME NEW u \in Threads, u # t PROVE LocalsOK(u)'
  <2>1. LocalsOK(u)
    BY DEF TypeInvariant
  <2> QED BY <1>1, <2>1, Bystander
<1> QED BY <1>1 DEF TypeInvariant

\* Where a step leads is a control state.
LEMMA GotoType ==
  ASSUME TypeOK, NEW t \in Threads, NEW p \in PCs, Goto(t, p)
  PROVE  pc' \in [Threads -> PCs] /\ pc'[t] = p
BY DEF TypeOK, Goto

\* A block is handed in.
LEMMA AddBlockType ==
  ASSUME TypeInvariant, NEW t \in Threads, NEW b \in Blocks,
         AddBlock(t, b)
  PROVE  TypeInvariant'
<1> USE DEF TypeInvariant
<1>1. TypeOK'
  <2>1. /\ pc' \in [Threads -> PCs]
        /\ blk' \in [Threads -> Blocks \cup {NoBlock}]
        /\ ret' \in [Threads -> {"direct", "extend", "reorg", "rollback"}]
    BY DEF TypeOK, AddBlock, Goto, PCs
  <2>2. queue' \in [Threads -> Seq(Blocks)]
    <3>1. <<b>> \in Seq(Blocks)
      OBVIOUS
    <3>2. queue' = queue \/ queue' = [queue EXCEPT ![t] = <<b>>]
      BY DEF AddBlock
    <3> QED BY <3>1, <3>2 DEF TypeOK
  <2>3. UNCHANGED <<stored, canon, head, overtaken, misplaced, latest, state, syncing, syncTarget,
                       syncRequests, cut, orphanPool, activeForks, rmMu, blockSubmitMu,
                       processingReorgBlock, seen, gap, fork, step, from, todo>>
    BY DEF AddBlock, storeVars, chainVars, syncVars, poolVars, lockVars,
      callVars, reorgVars
  <2> QED
    BY <2>1, <2>2, <2>3 DEF TypeOK
<1>2. LocalsOK(t)'
  BY DEF TypeOK, LocalsOK, AddBlock, Goto, PCs, Adding, Committing, Reorganizing,
    storeVars, chainVars, syncVars, poolVars, lockVars, callVars, reorgVars
<1>3. \A u \in Threads \ {t} :
        /\ pc'[u] = pc[u] /\ blk'[u] = blk[u] /\ ret'[u] = ret[u]
        /\ fork'[u] = fork[u] /\ step'[u] = step[u]
  BY DEF TypeOK, AddBlock, Goto, PCs, storeVars, chainVars, syncVars,
    poolVars, lockVars, callVars, reorgVars
<1> QED BY <1>1, <1>2, <1>3, OneMoved

\* The call returns.
LEMMA ReturnType ==
  ASSUME TypeInvariant, NEW t \in Threads, Return(t)
  PROVE  TypeInvariant'
<1> USE DEF TypeInvariant
<1>1. TypeOK'
  <2>1. /\ pc' \in [Threads -> PCs]
        /\ blk' \in [Threads -> Blocks \cup {NoBlock}]
        /\ seen' \in [Threads -> AllBlocks \cup {NoBlock}]
        /\ gap' \in [Threads -> BOOLEAN]
        /\ ret' \in [Threads -> {"direct", "extend", "reorg", "rollback"}]
        /\ fork' \in [Threads -> Forks \cup {NoFork}]
        /\ step' \in [Threads -> Int]
        /\ from' \in [Threads -> AllBlocks \cup {NoBlock}]
    BY DEF TypeOK, Return, ForgetLocals, Goto, PCs
  <2>2. UNCHANGED <<stored, canon, head, overtaken, misplaced, latest, state, syncing, syncTarget,
                       syncRequests, cut, orphanPool, activeForks, rmMu, blockSubmitMu,
                       processingReorgBlock, queue, todo>>
    BY DEF Return, storeVars, chainVars, syncVars, poolVars, lockVars
  <2> QED
    BY <2>1, <2>2 DEF TypeOK
<1>2. LocalsOK(t)'
  BY DEF TypeOK, LocalsOK, Return, ForgetLocals, Goto, Adding, Committing, Reorganizing,
    storeVars, chainVars, syncVars, poolVars, lockVars
<1>3. \A u \in Threads \ {t} :
        /\ pc'[u] = pc[u] /\ blk'[u] = blk[u] /\ ret'[u] = ret[u]
        /\ fork'[u] = fork[u] /\ step'[u] = step[u]
  BY DEF TypeOK, Return, ForgetLocals, Goto, storeVars, chainVars, syncVars,
    poolVars, lockVars
<1> QED BY <1>1, <1>2, <1>3, OneMoved

\* An orphan enters the pool.
LEMMA AddOrphanBlockType ==
  ASSUME TypeInvariant, NEW t \in Threads, AddOrphanBlock(t)
  PROVE  TypeInvariant'
<1> USE DEF TypeInvariant
<1>1. TypeOK'
  <2>1. orphanPool' \in [Blocks -> Nat]
    BY WithOrphanType DEF TypeOK, LocalsOK, AddOrphanBlock
  <2>2. pc' \in [Threads -> PCs]
    BY DEF TypeOK, AddOrphanBlock, Goto, PCs
  <2>3. UNCHANGED <<stored, canon, head, overtaken, misplaced, latest, state, syncing, syncTarget,
                       syncRequests, cut, activeForks, rmMu, blockSubmitMu,
                       processingReorgBlock, queue, blk, seen, gap, ret, fork, step, from,
                       todo>>
    BY DEF AddOrphanBlock, storeVars, chainVars, syncVars, poolVars,
      lockVars, callVars, reorgVars
  <2> QED
    BY <2>1, <2>2, <2>3 DEF TypeOK
<1>2. LocalsOK(t)'
  BY DEF TypeOK, LocalsOK, AddOrphanBlock, Goto, Adding, Committing, Reorganizing,
    storeVars, chainVars, syncVars, poolVars, lockVars, callVars, reorgVars
<1>3. \A u \in Threads \ {t} :
        /\ pc'[u] = pc[u] /\ blk'[u] = blk[u] /\ ret'[u] = ret[u]
        /\ fork'[u] = fork[u] /\ step'[u] = step[u]
  BY DEF TypeOK, AddOrphanBlock, Goto, storeVars, chainVars, syncVars,
    poolVars, lockVars, callVars, reorgVars
<1> QED BY <1>1, <1>2, <1>3, OneMoved

\* Orphans leave the pool and are queued.
LEMMA TryResolveOrphansType ==
  ASSUME TypeInvariant, NEW t \in Threads, TryResolveOrphans(t)
  PROVE  TypeInvariant'
<1> USE DEF TypeInvariant
<1>1. TypeOK'
  <2>1. orphanPool' \in [Blocks -> Nat]
    BY WithoutType DEF TypeOK, TryResolveOrphans
  <2>2. pc' \in [Threads -> PCs]
    BY DEF TypeOK, TryResolveOrphans, Goto, PCs
  <2>3. queue' \in [Threads -> Seq(Blocks)]
    <3> DEFINE children == {x \in Orphans : Parent(x) = Parent(blk[t])}
    <3>1. children \in SUBSET Blocks
      BY DEF Orphans, InPool
    <3>2. PICK order \in SetToSeqs(children) :
            queue' = [queue EXCEPT ![t] = order \o queue[t]]
      BY DEF TryResolveOrphans
    <3> HIDE DEF children
    <3>3. order \in Seq(Blocks)
      BY <3>1, <3>2, OrderType
    <3>4. order \o queue[t] \in Seq(Blocks)
      BY <3>3, ConcatProperties DEF TypeOK
    <3> QED BY <3>2, <3>4 DEF TypeOK
  <2>4. UNCHANGED <<stored, canon, head, overtaken, misplaced, latest, state, syncing, syncTarget,
                       syncRequests, cut, activeForks, rmMu, blockSubmitMu,
                       processingReorgBlock, blk, seen, gap, ret, fork, step, from, todo>>
    BY DEF TryResolveOrphans, storeVars, chainVars, syncVars, poolVars,
      lockVars, callVars, reorgVars
  <2> QED
    BY <2>1, <2>2, <2>3, <2>4 DEF TypeOK
<1>2. LocalsOK(t)'
  BY DEF TypeOK, LocalsOK, TryResolveOrphans, Goto, Adding, Committing, Reorganizing,
    storeVars, chainVars, syncVars, poolVars, lockVars, callVars, reorgVars
<1>3. \A u \in Threads \ {t} :
        /\ pc'[u] = pc[u] /\ blk'[u] = blk[u] /\ ret'[u] = ret[u]
        /\ fork'[u] = fork[u] /\ step'[u] = step[u]
  BY DEF TypeOK, TryResolveOrphans, Goto, storeVars, chainVars, syncVars,
    poolVars, lockVars, callVars, reorgVars
<1> QED BY <1>1, <1>2, <1>3, OneMoved

\* A fork that lost fork choice is remembered.
LEMMA KeepForkType ==
  ASSUME TypeInvariant, NEW t \in Threads, KeepFork(t)
  PROVE  TypeInvariant'
<1> USE DEF TypeInvariant
<1>1. TypeOK'
  <2>1. activeForks' \in [Heights -> Forks \cup {NoFork}]
    BY DEF TypeOK, LocalsOK, Reorganizing, KeepFork, Forks
  <2>2. pc' \in [Threads -> PCs]
    BY DEF TypeOK, KeepFork, Goto, Home, PCs
  <2>3. UNCHANGED <<stored, canon, head, overtaken, misplaced, latest, state, syncing, syncTarget,
                       syncRequests, cut, orphanPool, rmMu, blockSubmitMu,
                       processingReorgBlock, queue, blk, seen, gap, ret, fork, step, from,
                       todo>>
    BY DEF KeepFork, storeVars, chainVars, syncVars, poolVars, lockVars,
      callVars, reorgVars
  <2> QED
    BY <2>1, <2>2, <2>3 DEF TypeOK
<1>2. LocalsOK(t)'
  BY DEF TypeOK, LocalsOK, KeepFork, Goto, Home, Adding, Committing, Reorganizing,
    storeVars, chainVars, syncVars, poolVars, lockVars, callVars, reorgVars
<1>3. \A u \in Threads \ {t} :
        /\ pc'[u] = pc[u] /\ blk'[u] = blk[u] /\ ret'[u] = ret[u]
        /\ fork'[u] = fork[u] /\ step'[u] = step[u]
  BY DEF TypeOK, KeepFork, Goto, Home, storeVars, chainVars, syncVars,
    poolVars, lockVars, callVars, reorgVars
<1> QED BY <1>1, <1>2, <1>3, OneMoved

\* performReorg takes the mutex or declines.
LEMMA StartReorgType ==
  ASSUME TypeInvariant, NEW t \in Threads, StartReorg(t)
  PROVE  TypeInvariant'
<1> USE DEF TypeInvariant
<1>1. TypeOK'
  <2>1. rmMu' \in Threads \cup {NoThread}
    BY DEF TypeOK, StartReorg
  <2>2. /\ step' \in [Threads -> Int]
        /\ from' \in [Threads -> AllBlocks \cup {NoBlock}]
    <3>1. Len(fork[t].active) \in Int
      BY LenProperties DEF TypeOK, StartReorg, LocalsOK, Reorganizing, Forks
    <3>2. \/ step' = step /\ from' = from
          \/ /\ step' = [step EXCEPT ![t] = Len(fork[t].active)]
             /\ from' = [from EXCEPT ![t] = latest]
      BY DEF StartReorg
    <3> QED BY <3>1, <3>2 DEF TypeOK
  <2>3. pc' \in [Threads -> PCs]
    <3>1. Goto(t, Home(t)) \/ Goto(t, "disconnect")
      BY DEF StartReorg
    <3>2. Home(t) \in PCs /\ "disconnect" \in PCs
      BY DEF PCs, Home
    <3> QED BY <3>1, <3>2, GotoType
  <2>4. UNCHANGED <<stored, canon, head, overtaken, misplaced, latest, state, syncing, syncTarget,
                       syncRequests, cut, orphanPool, activeForks, blockSubmitMu,
                       processingReorgBlock, queue, blk, seen, gap, ret, fork, todo>>
    BY DEF StartReorg, storeVars, chainVars, syncVars, poolVars, lockVars,
      callVars, reorgVars
  <2> QED
    BY <2>1, <2>2, <2>3, <2>4 DEF TypeOK
<1>2. LocalsOK(t)'
  BY LenProperties DEF TypeOK, LocalsOK, StartReorg, Goto, Home, Adding, Committing,
    Reorganizing, storeVars, chainVars, syncVars, poolVars, lockVars,
    callVars, reorgVars, Forks
<1>3. \A u \in Threads \ {t} :
        /\ pc'[u] = pc[u] /\ blk'[u] = blk[u] /\ ret'[u] = ret[u]
        /\ fork'[u] = fork[u] /\ step'[u] = step[u]
  BY DEF TypeOK, StartReorg, Goto, Home, storeVars, chainVars, syncVars,
    poolVars, lockVars, callVars, reorgVars
<1> QED BY <1>1, <1>2, <1>3, OneMoved

\* performReorg connects a block, ends, or gives up.
LEMMA ConnectBlockType ==
  ASSUME TypeInvariant, NEW t \in Threads, ConnectBlock(t)
  PROVE  TypeInvariant'
<1> USE DEF TypeInvariant
<1>1. TypeOK'
  <2>1. /\ blk' \in [Threads -> Blocks \cup {NoBlock}]
        /\ ret' \in [Threads -> {"direct", "extend", "reorg", "rollback"}]
    <3> DEFINE cand == fork[t].cand
    <3>1. cand \in Seq(Blocks) /\ step[t] \in Nat \ {0}
      BY DEF ConnectBlock, TypeOK, LocalsOK, Reorganizing, Forks
    <3>2. ~(step[t] > Len(cand)) => cand[step[t]] \in Blocks
      BY <3>1, LenProperties, ElementOfSeq
    <3>3. \/ blk' = blk /\ ret' = ret
          \/ /\ ~(step[t] > Len(cand))
             /\ blk' = [blk EXCEPT ![t] = cand[step[t]]]
             /\ ret' = [ret EXCEPT ![t] = "reorg"]
      BY DEF ConnectBlock, CallAddBlock
    <3> HIDE DEF cand
    <3> QED BY <3>2, <3>3 DEF TypeOK
  <2>2. /\ processingReorgBlock' \in BOOLEAN
        /\ rmMu' \in Threads \cup {NoThread}
    BY DEF TypeOK, ConnectBlock, CallAddBlock
  <2>3. step' \in [Threads -> Int]
    <3>1. step' = step \/ step' = [step EXCEPT ![t] = 1]
      BY DEF ConnectBlock
    <3> QED BY <3>1 DEF TypeOK
  <2>4. activeForks' \in [Heights -> Forks \cup {NoFork}]
    BY DEF TypeOK, ConnectBlock, CallAddBlock, LocalsOK, Reorganizing, Forks
  <2>5. pc' \in [Threads -> PCs]
    <3>1. Goto(t, Home(t)) \/ Goto(t, "rollback") \/ Goto(t, "submit")
      BY DEF ConnectBlock, CallAddBlock
    <3>2. Home(t) \in PCs /\ "rollback" \in PCs /\ "submit" \in PCs
      BY DEF PCs, Home
    <3> QED BY <3>1, <3>2, GotoType
  <2>6. UNCHANGED <<stored, canon, head, overtaken, misplaced, latest, state, syncing, syncTarget,
                       syncRequests, cut, orphanPool, blockSubmitMu, queue, seen, gap, fork,
                       from, todo>>
    BY DEF ConnectBlock, storeVars, chainVars, syncVars, poolVars, lockVars,
      callVars, reorgVars
  <2> QED
    BY <2>1, <2>2, <2>3, <2>4, <2>5, <2>6 DEF TypeOK
<1>2. LocalsOK(t)'
  BY ElementOfSeq DEF TypeOK, LocalsOK, ConnectBlock, CallAddBlock, Goto,
    Home, Adding, Committing, Reorganizing, storeVars, chainVars, syncVars, poolVars,
    lockVars, callVars, reorgVars, Forks
<1>3. \A u \in Threads \ {t} :
        /\ pc'[u] = pc[u] /\ blk'[u] = blk[u] /\ ret'[u] = ret[u]
        /\ fork'[u] = fork[u] /\ step'[u] = step[u]
  BY DEF TypeOK, ConnectBlock, CallAddBlock, Goto, Home, storeVars,
    chainVars, syncVars, poolVars, lockVars, callVars, reorgVars
<1> QED BY <1>1, <1>2, <1>3, OneMoved

\* The rollback reconnects a block or ends.
LEMMA EmergencyRollbackType ==
  ASSUME TypeInvariant, NEW t \in Threads, EmergencyRollback(t)
  PROVE  TypeInvariant'
<1> USE DEF TypeInvariant
<1>1. TypeOK'
  <2>1. /\ blk' \in [Threads -> Blocks \cup {NoBlock}]
        /\ ret' \in [Threads -> {"direct", "extend", "reorg", "rollback"}]
    <3> DEFINE active == fork[t].active
    <3>1. active \in Seq(Blocks) /\ step[t] \in Nat \ {0}
      BY DEF EmergencyRollback, TypeOK, LocalsOK, Reorganizing, Forks
    <3>2. ~(step[t] > Len(active)) => active[step[t]] \in Blocks
      BY <3>1, LenProperties, ElementOfSeq
    <3>3. \/ blk' = blk /\ ret' = ret
          \/ /\ ~(step[t] > Len(active))
             /\ blk' = [blk EXCEPT ![t] = active[step[t]]]
             /\ ret' = [ret EXCEPT ![t] = "rollback"]
      BY DEF EmergencyRollback, CallAddBlock
    <3> HIDE DEF active
    <3> QED BY <3>2, <3>3 DEF TypeOK
  <2>2. /\ processingReorgBlock' \in BOOLEAN
        /\ rmMu' \in Threads \cup {NoThread}
    BY DEF TypeOK, EmergencyRollback, CallAddBlock
  <2>3. pc' \in [Threads -> PCs]
    <3>1. Goto(t, Home(t)) \/ Goto(t, "submit")
      BY DEF EmergencyRollback, CallAddBlock
    <3>2. Home(t) \in PCs /\ "submit" \in PCs
      BY DEF PCs, Home
    <3> QED BY <3>1, <3>2, GotoType
  <2>4. UNCHANGED <<stored, canon, head, overtaken, misplaced, latest, state, syncing, syncTarget,
                       syncRequests, cut, orphanPool, activeForks, blockSubmitMu, queue, seen,
                       gap, fork, step, from, todo>>
    BY DEF EmergencyRollback, storeVars, chainVars, syncVars, poolVars,
      lockVars, callVars, reorgVars
  <2> QED
    BY <2>1, <2>2, <2>3, <2>4 DEF TypeOK
<1>2. LocalsOK(t)'
  BY ElementOfSeq DEF TypeOK, LocalsOK, EmergencyRollback, CallAddBlock,
    Goto, Home, Adding, Committing, Reorganizing, storeVars, chainVars, syncVars,
    poolVars, lockVars, callVars, reorgVars, Forks
<1>3. \A u \in Threads \ {t} :
        /\ pc'[u] = pc[u] /\ blk'[u] = blk[u] /\ ret'[u] = ret[u]
        /\ fork'[u] = fork[u] /\ step'[u] = step[u]
  BY DEF TypeOK, EmergencyRollback, CallAddBlock, Goto, Home, storeVars,
    chainVars, syncVars, poolVars, lockVars, callVars, reorgVars
<1> QED BY <1>1, <1>2, <1>3, OneMoved

\* revertToHeight moves the tip to a canonical block or to nil.
LEMMA RevertType ==
  ASSUME TypeOK, NEW h \in Nat, RevertToHeight(h)
  PROVE  latest' \in AllBlocks \cup {NoBlock}
<1>1. CurrentHeight \in Heights
  BY HeightInBound DEF TypeOK, CurrentHeight
<1>2. h < CurrentHeight => h \in Heights
  BY <1>1, BoundsAssumption DEF Heights
<1>3. latest' = latest \/ latest' = NoBlock
      \/ (h < CurrentHeight /\ latest' = canon[h])
  BY <1>1, BoundsAssumption DEF RevertToHeight, Heights
<1> QED BY <1>2, <1>3 DEF TypeOK

\* A fork that ProcessNewBlock opens is well formed.
LEMMA NewForkType ==
  ASSUME TypeOK, NEW b \in Blocks, NEW k \in ForkPoints(Parent(b))
  PROVE  NewFork(b, k) \in Forks
<1>1. Parent(b) \in AllBlocks
  BY ParentHeight
<1>2. Height(Parent(b)) \in Heights
  BY <1>1, HeightInBound
<1>3. k \in Heights /\ k \in Nat
  BY <1>2, BoundsAssumption DEF ForkPoints, Heights
<1>4. Branch(latest, k) \in Seq(Blocks) /\ Branch(b, k) \in Seq(Blocks)
  BY <1>3, BranchType DEF TypeOK, AllBlocks
<1> QED BY <1>3, <1>4 DEF NewFork, Forks

\* What considering a fork does to the locals.
LEMMA ConsiderForkOutcome ==
  ASSUME TypeOK, NEW t \in Threads, NEW b \in Blocks, NEW margin,
         ConsiderFork(t, b, margin)
  PROVE  /\ UNCHANGED <<ret, processingReorgBlock>>
         /\ \/ UNCHANGED fork /\ (Goto(t, "orphan") \/ Goto(t, "process"))
            \/ \E f \in Forks : /\ fork' = [fork EXCEPT ![t] = f]
                                /\ Goto(t, "reorg") \/ Goto(t, "keep")
<1>1. CASE /\ ForkPoints(Parent(b)) = {}
           /\ Goto(t, "orphan") /\ UNCHANGED fork
  BY <1>1 DEF ConsiderFork
<1>2. ASSUME NEW k \in ForkPoints(Parent(b)),
             IF ActiveBuildable(k)
               THEN LET f == NewFork(b, k)
                    IN /\ fork' = [fork EXCEPT ![t] = f]
                       /\ Goto(t, IF WorkDiff(f) > margin THEN "reorg" ELSE "keep")
               ELSE Goto(t, "process") /\ UNCHANGED fork
      PROVE  \/ UNCHANGED fork /\ Goto(t, "process")
             \/ \E f \in Forks : /\ fork' = [fork EXCEPT ![t] = f]
                                 /\ Goto(t, "reorg") \/ Goto(t, "keep")
  <2>1. NewFork(b, k) \in Forks
    BY NewForkType
  <2> QED BY <1>2, <2>1
<1>3. UNCHANGED <<ret, processingReorgBlock>>
  BY DEF ConsiderFork
<1> QED BY <1>1, <1>2, <1>3 DEF ConsiderFork

\* The ways out of ProcessNewBlock.
LEMMA ProcessNewBlockOutcome ==
  ASSUME TypeOK, NEW t \in Threads, ProcessNewBlock(t)
  PROVE  \E b \in Blocks :
           /\ queue[t] # <<>> /\ b = Head(queue[t])
           /\ queue' = [queue EXCEPT ![t] = Tail(queue[t])]
           /\ blk' = [blk EXCEPT ![t] = b]
           /\ \/ /\ UNCHANGED <<fork, ret, processingReorgBlock>>
                 /\ \E p \in {"process", "orphan", "adopt"} : Goto(t, p)
              \/ /\ UNCHANGED <<ret, processingReorgBlock>>
                 /\ \E f \in Forks : /\ fork' = [fork EXCEPT ![t] = f]
                                     /\ Goto(t, "reorg") \/ Goto(t, "keep")
              \/ /\ UNCHANGED fork
                 /\ ret' = [ret EXCEPT ![t] = "extend"]
                 /\ processingReorgBlock' = TRUE
                 /\ Goto(t, "submit")
<1> DEFINE b == Head(queue[t])
<1>1. b \in Blocks
  BY HeadTailProperties DEF TypeOK, ProcessNewBlock
<1>2. \/ /\ UNCHANGED <<fork, ret, processingReorgBlock>>
         /\ \E p \in {"process", "orphan", "adopt"} : Goto(t, p)
      \/ ConsiderFork(t, b, 0)
      \/ ConsiderFork(t, b, MinWorkForReorg)
      \/ ExtendChain(t, b)
  BY DEF ProcessNewBlock, HandleSameHeightFork
<1> HIDE DEF b
<1>3. ASSUME NEW m, ConsiderFork(t, b, m)
      PROVE  /\ UNCHANGED <<ret, processingReorgBlock>>
             /\ \/ UNCHANGED fork /\ (Goto(t, "orphan") \/ Goto(t, "process"))
                \/ \E f \in Forks : /\ fork' = [fork EXCEPT ![t] = f]
                                    /\ Goto(t, "reorg") \/ Goto(t, "keep")
  BY <1>1, <1>3, ConsiderForkOutcome
<1>4. /\ queue[t] # <<>>
      /\ queue' = [queue EXCEPT ![t] = Tail(queue[t])]
      /\ blk' = [blk EXCEPT ![t] = b]
  BY DEF ProcessNewBlock, b
<1>5. \/ /\ UNCHANGED <<fork, ret, processingReorgBlock>>
         /\ \E p \in {"process", "orphan", "adopt"} : Goto(t, p)
      \/ /\ UNCHANGED <<ret, processingReorgBlock>>
         /\ \E f \in Forks : /\ fork' = [fork EXCEPT ![t] = f]
                             /\ Goto(t, "reorg") \/ Goto(t, "keep")
      \/ /\ UNCHANGED fork
         /\ ret' = [ret EXCEPT ![t] = "extend"]
         /\ processingReorgBlock' = TRUE
         /\ Goto(t, "submit")
  <2>1. CASE ConsiderFork(t, b, 0) \/ ConsiderFork(t, b, MinWorkForReorg)
    BY <1>3, <2>1
  <2>2. CASE ExtendChain(t, b)
    BY <2>2 DEF ExtendChain
  <2> QED BY <1>2, <2>1, <2>2
<1> QED BY <1>1, <1>4, <1>5 DEF b

\* What returning from addBlockInternal does to the locals.
LEMMA FinishType ==
  ASSUME TypeInvariant, NEW t \in Threads, NEW ok \in BOOLEAN,
         pc[t] \in Adding, Finish(t, ok), UNCHANGED <<blk, ret, fork>>
  PROVE  /\ pc' \in [Threads -> PCs]
         /\ processingReorgBlock' \in BOOLEAN
         /\ step' \in [Threads -> Int]
         /\ LocalsOK(t)'
         /\ pc'[t] \in {"connect", "undo", "rollback", "process"}
         /\ \A u \in Threads \ {t} : pc'[u] = pc[u] /\ step'[u] = step[u]
<1> USE DEF TypeInvariant
<1>1. processingReorgBlock' \in BOOLEAN
  BY DEF Finish, TypeOK
<1>2. CASE ret[t] = "reorg"
  <2>1. fork[t] \in Forks /\ step[t] \in 1..Len(fork[t].cand)
    BY <1>2 DEF LocalsOK
  <2>2. Len(fork[t].cand) \in Nat
    BY <2>1, LenProperties DEF Forks
  <2>3. \/ Goto(t, "connect") /\ step' = [step EXCEPT ![t] = @ + 1]
        \/ Goto(t, "undo") /\ step' = [step EXCEPT ![t] = @ - 1]
    BY <1>2 DEF Finish
  <2>4. step[t] + 1 \in Nat \ {0} /\ step[t] - 1 \in 0..Len(fork[t].cand)
    BY <2>1, <2>2
  <2>5. CASE Goto(t, "connect") /\ step' = [step EXCEPT ![t] = @ + 1]
    <3>1. step'[t] \in Nat \ {0} /\ pc'[t] = "connect"
      BY <2>4, <2>5 DEF TypeOK, Goto
    <3>2. LocalsOK(t)'
      BY <2>1, <3>1 DEF LocalsOK, Adding, Committing, Reorganizing
    <3> QED
      BY <1>1, <2>5, <3>1, <3>2 DEF TypeOK, Goto, PCs
  <2>6. CASE Goto(t, "undo") /\ step' = [step EXCEPT ![t] = @ - 1]
    <3>1. step'[t] \in 0..Len(fork[t].cand) /\ pc'[t] = "undo"
      BY <2>4, <2>6 DEF TypeOK, Goto
    <3>2. LocalsOK(t)'
      BY <2>1, <3>1 DEF LocalsOK, Adding, Committing, Reorganizing
    <3> QED
      BY <1>1, <2>6, <3>1, <3>2 DEF TypeOK, Goto, PCs
  <2> QED
    BY <2>3, <2>5, <2>6
<1>3. CASE ret[t] = "rollback"
  <2>1. fork[t] \in Forks /\ step[t] \in Nat \ {0}
    BY <1>3 DEF LocalsOK
  <2>2. Goto(t, "rollback") /\ step' = [step EXCEPT ![t] = @ + 1]
    BY <1>3 DEF Finish
  <2> QED
    BY <1>1, <1>3, <2>1, <2>2
    DEF TypeOK, LocalsOK, Goto, PCs, Adding, Committing, Reorganizing
<1>4. CASE ret[t] \notin {"reorg", "rollback"}
  <2>1. Goto(t, "process") /\ UNCHANGED step
    BY <1>4 DEF Finish
  <2> QED
    BY <1>1, <1>4, <2>1
    DEF TypeOK, LocalsOK, Goto, PCs, Adding, Committing, Reorganizing
<1> QED BY <1>2, <1>3, <1>4

\* A block of the queue is looked at.
LEMMA ProcessNewBlockType ==
  ASSUME TypeInvariant, NEW t \in Threads, ProcessNewBlock(t)
  PROVE  TypeInvariant'
<1> USE DEF TypeInvariant
<1>1. PICK b \in Blocks :
        /\ queue[t] # <<>>
        /\ queue' = [queue EXCEPT ![t] = Tail(queue[t])]
        /\ blk' = [blk EXCEPT ![t] = b]
        /\ \/ /\ UNCHANGED <<fork, ret, processingReorgBlock>>
              /\ \E p \in {"process", "orphan", "adopt"} : Goto(t, p)
           \/ /\ UNCHANGED <<ret, processingReorgBlock>>
              /\ \E f \in Forks : /\ fork' = [fork EXCEPT ![t] = f]
                                  /\ Goto(t, "reorg") \/ Goto(t, "keep")
           \/ /\ UNCHANGED fork
              /\ ret' = [ret EXCEPT ![t] = "extend"]
              /\ processingReorgBlock' = TRUE
              /\ Goto(t, "submit")
  BY ProcessNewBlockOutcome
<1>2. UNCHANGED <<stored, canon, head, overtaken, misplaced, latest, state, syncing, syncTarget,
                  syncRequests, cut, orphanPool, activeForks, rmMu, blockSubmitMu,
                  seen, gap, step, from, todo>>
  BY DEF ProcessNewBlock, chainVars, syncVars, poolVars
<1>3. /\ queue' \in [Threads -> Seq(Blocks)]
      /\ blk' \in [Threads -> Blocks \cup {NoBlock}]
      /\ blk'[t] = b /\ \A u \in Threads \ {t} : blk'[u] = blk[u]
  <2>1. Tail(queue[t]) \in Seq(Blocks)
    BY <1>1, HeadTailProperties DEF TypeOK
  <2> QED BY <1>1, <2>1 DEF TypeOK
<1>4. /\ pc' \in [Threads -> PCs]
      /\ fork' \in [Threads -> Forks \cup {NoFork}]
      /\ ret' \in [Threads -> {"direct", "extend", "reorg", "rollback"}]
      /\ processingReorgBlock' \in BOOLEAN
      /\ \A u \in Threads \ {t} :
           pc'[u] = pc[u] /\ fork'[u] = fork[u] /\ ret'[u] = ret[u]
      /\ \/ pc'[t] \in {"process", "orphan", "adopt"}
         \/ pc'[t] \in {"reorg", "keep"} /\ fork'[t] \in Forks
         \/ pc'[t] = "submit" /\ ret'[t] = "extend"
  <2>1. CASE /\ UNCHANGED <<fork, ret, processingReorgBlock>>
             /\ \E p \in {"process", "orphan", "adopt"} : Goto(t, p)
    BY <2>1 DEF TypeOK, Goto, PCs
  <2>2. ASSUME NEW f \in Forks, UNCHANGED <<ret, processingReorgBlock>>,
               fork' = [fork EXCEPT ![t] = f],
               Goto(t, "reorg") \/ Goto(t, "keep")
        PROVE  <1>4!:
    BY <2>2 DEF TypeOK, Goto, PCs
  <2>3. CASE /\ UNCHANGED fork
             /\ ret' = [ret EXCEPT ![t] = "extend"]
             /\ processingReorgBlock' = TRUE
             /\ Goto(t, "submit")
    BY <2>3 DEF TypeOK, Goto, PCs
  <2> QED BY <1>1, <2>1, <2>2, <2>3
<1>5. TypeOK'
  BY <1>2, <1>3, <1>4 DEF TypeOK
<1>6. LocalsOK(t)'
  BY <1>3, <1>4 DEF LocalsOK, Adding, Committing, Reorganizing
<1> QED BY <1>2, <1>3, <1>4, <1>5, <1>6, OneMoved

\* performReorg disconnects a block.
LEMMA DisconnectBlockType ==
  ASSUME TypeInvariant, NEW t \in Threads, DisconnectBlock(t)
  PROVE  TypeInvariant'
<1> USE DEF TypeInvariant
<1>1. TypeOK'
  <2>1. latest' \in AllBlocks \cup {NoBlock}
    <3>1. CASE step[t] = 0
      BY <3>1 DEF DisconnectBlock, TypeOK
    <3>2. CASE step[t] # 0
      <4> DEFINE h == Height(fork[t].active[step[t]]) - 1
      <4>1. fork[t].active \in Seq(Blocks) /\ step[t] \in 0..Len(fork[t].active)
        BY DEF DisconnectBlock, TypeOK, LocalsOK, Reorganizing, Forks
      <4>2. step[t] \in 1..Len(fork[t].active)
        BY <3>2, <4>1, LenProperties
      <4>3. fork[t].active[step[t]] \in Blocks
        BY <4>1, <4>2, ElementOfSeq
      <4>4. h \in Nat
        BY <4>3, ParentHeight, BoundsAssumption
      <4>5. RevertToHeight(h)
        BY <3>2 DEF DisconnectBlock
      <4> HIDE DEF h
      <4> QED BY <4>4, <4>5, RevertType
    <3> QED BY <3>1, <3>2
  <2>2. step' \in [Threads -> Int]
    <3>1. step' \in {[step EXCEPT ![t] = 1], [step EXCEPT ![t] = @ + 1],
                     [step EXCEPT ![t] = @ - 1]}
      BY DEF DisconnectBlock
    <3>2. step[t] + 1 \in Int /\ step[t] - 1 \in Int
      BY DEF TypeOK
    <3> QED BY <3>1, <3>2 DEF TypeOK
  <2>3. pc' \in [Threads -> PCs]
    <3>1. Goto(t, "connect") \/ Goto(t, "rollback") \/ Goto(t, "disconnect")
      BY DEF DisconnectBlock, TypeOK, Goto
    <3>2. "connect" \in PCs /\ "rollback" \in PCs /\ "disconnect" \in PCs
      BY DEF PCs, Home
    <3> QED BY <3>1, <3>2, GotoType
  <2>4. UNCHANGED <<stored, canon, head, overtaken, misplaced, syncing, syncTarget, syncRequests, cut,
                       orphanPool, activeForks, rmMu, blockSubmitMu, processingReorgBlock,
                       queue, blk, seen, gap, ret, fork, from, todo>>
    BY DEF DisconnectBlock, storeVars, syncVars, poolVars, lockVars,
      callVars, reorgVars
  <2> QED
    BY <2>1, <2>2, <2>3, <2>4 DEF TypeOK
<1>2. LocalsOK(t)'
  <2>1. /\ fork[t] \in Forks /\ fork[t].active \in Seq(Blocks)
        /\ step[t] \in 0..Len(fork[t].active) /\ Len(fork[t].active) \in Nat
    BY LenProperties DEF DisconnectBlock, TypeOK, LocalsOK, Reorganizing, Forks
  <2>2. fork'[t] = fork[t] /\ blk'[t] = blk[t]
    BY DEF DisconnectBlock, reorgVars, callVars
  <2>3. \/ pc'[t] = "connect" /\ step'[t] = 1
        \/ pc'[t] = "rollback" /\ step'[t] = step[t] + 1
        \/ /\ pc'[t] = "disconnect" /\ step'[t] = step[t] - 1
           /\ step[t] # 0
    BY DEF DisconnectBlock, TypeOK, Goto
  <2>4. step[t] + 1 \in Nat \ {0}
    BY <2>1
  <2>5. step[t] # 0 => step[t] - 1 \in 0..Len(fork[t].active)
    BY <2>1
  <2> QED
    BY <2>1, <2>2, <2>3, <2>4, <2>5 DEF LocalsOK, Adding, Committing, Reorganizing
<1>3. \A u \in Threads \ {t} :
        /\ pc'[u] = pc[u] /\ blk'[u] = blk[u] /\ ret'[u] = ret[u]
        /\ fork'[u] = fork[u] /\ step'[u] = step[u]
  BY DEF TypeOK, DisconnectBlock, Goto, storeVars, syncVars, poolVars,
    lockVars, callVars, reorgVars
<1> QED BY <1>1, <1>2, <1>3, OneMoved

\* The rollback disconnects a block.
LEMMA UndoCandidateType ==
  ASSUME TypeInvariant, NEW t \in Threads, UndoCandidate(t)
  PROVE  TypeInvariant'
<1> USE DEF TypeInvariant
<1>1. TypeOK'
  <2>1. latest' \in AllBlocks \cup {NoBlock}
    <3>1. CASE step[t] = 0
      BY <3>1 DEF UndoCandidate, TypeOK
    <3>2. CASE step[t] # 0
      <4> DEFINE h == Height(fork[t].cand[step[t]]) - 1
      <4>1. fork[t].cand \in Seq(Blocks) /\ step[t] \in 0..Len(fork[t].cand)
        BY DEF UndoCandidate, TypeOK, LocalsOK, Reorganizing, Forks
      <4>2. step[t] \in 1..Len(fork[t].cand)
        BY <3>2, <4>1, LenProperties
      <4>3. fork[t].cand[step[t]] \in Blocks
        BY <4>1, <4>2, ElementOfSeq
      <4>4. h \in Nat
        BY <4>3, ParentHeight, BoundsAssumption
      <4>5. RevertToHeight(h)
        BY <3>2 DEF UndoCandidate
      <4> HIDE DEF h
      <4> QED BY <4>4, <4>5, RevertType
    <3> QED BY <3>1, <3>2
  <2>2. step' \in [Threads -> Int]
    <3>1. step' \in {[step EXCEPT ![t] = 1], [step EXCEPT ![t] = @ - 1]}
      BY DEF UndoCandidate
    <3>2. step[t] - 1 \in Int
      BY DEF TypeOK
    <3> QED BY <3>1, <3>2 DEF TypeOK
  <2>3. pc' \in [Threads -> PCs]
    <3>1. Goto(t, "rollback") \/ Goto(t, "undo")
      BY DEF UndoCandidate, TypeOK, Goto
    <3>2. "rollback" \in PCs /\ "undo" \in PCs
      BY DEF PCs, Home
    <3> QED BY <3>1, <3>2, GotoType
  <2>4. UNCHANGED <<stored, canon, head, overtaken, misplaced, syncing, syncTarget, syncRequests, cut,
                       orphanPool, activeForks, rmMu, blockSubmitMu, processingReorgBlock,
                       queue, blk, seen, gap, ret, fork, from, todo>>
    BY DEF UndoCandidate, storeVars, syncVars, poolVars, lockVars, callVars,
      reorgVars
  <2> QED
    BY <2>1, <2>2, <2>3, <2>4 DEF TypeOK
<1>2. LocalsOK(t)'
  <2>1. /\ fork[t] \in Forks /\ fork[t].cand \in Seq(Blocks)
        /\ step[t] \in 0..Len(fork[t].cand) /\ Len(fork[t].cand) \in Nat
    BY LenProperties DEF UndoCandidate, TypeOK, LocalsOK, Reorganizing, Forks
  <2>2. fork'[t] = fork[t] /\ blk'[t] = blk[t]
    BY DEF UndoCandidate, reorgVars, callVars
  <2>3. \/ pc'[t] = "rollback" /\ step'[t] = 1
        \/ pc'[t] = "undo" /\ step'[t] = step[t] - 1 /\ step[t] # 0
    BY DEF UndoCandidate, TypeOK, Goto
  <2>4. step[t] # 0 => step[t] - 1 \in 0..Len(fork[t].cand)
    BY <2>1
  <2> QED
    BY <2>1, <2>2, <2>3, <2>4 DEF LocalsOK, Adding, Committing, Reorganizing
<1>3. \A u \in Threads \ {t} :
        /\ pc'[u] = pc[u] /\ blk'[u] = blk[u] /\ ret'[u] = ret[u]
        /\ fork'[u] = fork[u] /\ step'[u] = step[u]
  BY DEF TypeOK, UndoCandidate, Goto, storeVars, syncVars, poolVars,
    lockVars, callVars, reorgVars
<1> QED BY <1>1, <1>2, <1>3, OneMoved

\* addBlockInternal reads the chain and accepts or rejects.
LEMMA EnterAddBlockType ==
  ASSUME TypeInvariant, NEW t \in Threads, EnterAddBlock(t)
  PROVE  TypeInvariant'
<1> USE DEF TypeInvariant
<1>1. TypeOK'
  <2>1. syncRequests' \subseteq Heights
    <3>1. blk[t] \in Blocks
      BY DEF EnterAddBlock, LocalsOK, Adding, Committing
    <3>2. Height(blk[t]) \in Heights
      BY <3>1, HeightInBound DEF AllBlocks
    <3> QED BY <3>2 DEF TypeOK, EnterAddBlock
  <2>2. blockSubmitMu' \in Threads \cup {NoThread}
    BY DEF TypeOK, EnterAddBlock
  <2>3. seen' \in [Threads -> AllBlocks \cup {NoBlock}]
    BY DEF TypeOK, EnterAddBlock
  <2>4. gap' \in [Threads -> BOOLEAN]
    BY DEF TypeOK, EnterAddBlock
  <2>5. /\ pc' \in [Threads -> PCs]
        /\ processingReorgBlock' \in BOOLEAN
        /\ step' \in [Threads -> Int]
    <3>1. pc[t] \in Adding /\ UNCHANGED <<blk, ret, fork>>
      BY DEF EnterAddBlock, Adding, callVars, reorgVars
    <3>2. \/ /\ (Goto(t, "stuck") \/ Goto(t, "exec"))
             /\ UNCHANGED <<processingReorgBlock, step>>
          \/ \E ok \in BOOLEAN : Finish(t, ok)
      BY DEF EnterAddBlock
    <3>3. CASE \E ok \in BOOLEAN : Finish(t, ok)
      BY <3>1, <3>3, FinishType
    <3> QED BY <3>2, <3>3 DEF TypeOK, Goto, PCs
  <2>6. UNCHANGED <<stored, canon, head, overtaken, misplaced, latest, state, syncing, syncTarget, cut,
                       orphanPool, activeForks, rmMu, queue, blk, ret, fork, from, todo>>
    BY DEF EnterAddBlock, storeVars, chainVars, syncVars, poolVars, lockVars,
      callVars, reorgVars
  <2> QED
    BY <2>1, <2>2, <2>3, <2>4, <2>5, <2>6 DEF TypeOK
<1>2. LocalsOK(t)'
  <2>1. pc[t] \in Adding /\ UNCHANGED <<blk, ret, fork>>
    BY DEF EnterAddBlock, Adding, callVars, reorgVars
  <2>2. \/ /\ (Goto(t, "stuck") \/ Goto(t, "exec"))
           /\ UNCHANGED <<processingReorgBlock, step>>
        \/ \E ok \in BOOLEAN : Finish(t, ok)
    BY DEF EnterAddBlock
  <2>3. CASE \E ok \in BOOLEAN : Finish(t, ok)
    BY <2>1, <2>3, FinishType
  <2> QED BY <2>1, <2>2, <2>3 DEF TypeOK, LocalsOK, Goto, Adding, Committing, Reorganizing
<1>3. \A u \in Threads \ {t} :
        /\ pc'[u] = pc[u] /\ blk'[u] = blk[u] /\ ret'[u] = ret[u]
        /\ fork'[u] = fork[u] /\ step'[u] = step[u]
  <2>1. pc[t] \in Adding /\ UNCHANGED <<blk, ret, fork>>
    BY DEF EnterAddBlock, Adding, callVars, reorgVars
  <2>2. \/ /\ (Goto(t, "stuck") \/ Goto(t, "exec"))
           /\ UNCHANGED <<processingReorgBlock, step>>
        \/ \E ok \in BOOLEAN : Finish(t, ok)
    BY DEF EnterAddBlock
  <2>3. CASE \E ok \in BOOLEAN : Finish(t, ok)
    BY <2>1, <2>3, FinishType
  <2> QED BY <2>1, <2>2, <2>3 DEF TypeOK, Goto
<1> QED BY <1>1, <1>2, <1>3, OneMoved

\* A block is validated and executed.
LEMMA ValidateAndExecuteBlockType ==
  ASSUME TypeInvariant, NEW t \in Threads, ValidateAndExecuteBlock(t)
  PROVE  TypeInvariant'
<1> USE DEF TypeInvariant
<1>1. TypeOK'
  <2>1. blockSubmitMu' \in Threads \cup {NoThread}
    BY DEF TypeOK, ValidateAndExecuteBlock
  <2>2. /\ pc' \in [Threads -> PCs]
        /\ processingReorgBlock' \in BOOLEAN
        /\ step' \in [Threads -> Int]
    <3>1. pc[t] \in Adding /\ UNCHANGED <<blk, ret, fork>>
      BY DEF ValidateAndExecuteBlock, Adding, callVars, reorgVars
    <3>2. (/\ Goto(t, "commit")
             /\ UNCHANGED <<processingReorgBlock, step>>)
          \/ \E ok \in BOOLEAN : Finish(t, ok)
      BY DEF ValidateAndExecuteBlock
    <3>3. CASE \E ok \in BOOLEAN : Finish(t, ok)
      BY <3>1, <3>3, FinishType
    <3> QED BY <3>2, <3>3 DEF TypeOK, Goto, PCs
  <2>3. UNCHANGED <<stored, canon, head, overtaken, misplaced, latest, syncing, syncTarget,
                       syncRequests, cut, orphanPool, activeForks, rmMu, queue, blk, seen, gap,
                       ret, fork, from, todo>>
    BY DEF ValidateAndExecuteBlock, storeVars, chainVars, syncVars, poolVars,
      lockVars, callVars, reorgVars
  <2> QED
    BY <2>1, <2>2, <2>3 DEF TypeOK
<1>2. LocalsOK(t)'
  <2>1. pc[t] \in Adding /\ UNCHANGED <<blk, ret, fork>>
    BY DEF ValidateAndExecuteBlock, Adding, callVars, reorgVars
  <2>2. (/\ Goto(t, "commit")
             /\ UNCHANGED <<processingReorgBlock, step>>)
        \/ \E ok \in BOOLEAN : Finish(t, ok)
    BY DEF ValidateAndExecuteBlock
  <2>3. CASE \E ok \in BOOLEAN : Finish(t, ok)
    BY <2>1, <2>3, FinishType
  <2> QED BY <2>1, <2>2, <2>3 DEF TypeOK, LocalsOK, Goto, Adding, Committing, Reorganizing
<1>3. \A u \in Threads \ {t} :
        /\ pc'[u] = pc[u] /\ blk'[u] = blk[u] /\ ret'[u] = ret[u]
        /\ fork'[u] = fork[u] /\ step'[u] = step[u]
  <2>1. pc[t] \in Adding /\ UNCHANGED <<blk, ret, fork>>
    BY DEF ValidateAndExecuteBlock, Adding, callVars, reorgVars
  <2>2. (/\ Goto(t, "commit")
             /\ UNCHANGED <<processingReorgBlock, step>>)
        \/ \E ok \in BOOLEAN : Finish(t, ok)
    BY DEF ValidateAndExecuteBlock
  <2>3. CASE \E ok \in BOOLEAN : Finish(t, ok)
    BY <2>1, <2>3, FinishType
  <2> QED BY <2>1, <2>2, <2>3 DEF TypeOK, Goto
<1> QED BY <1>1, <1>2, <1>3, OneMoved

\* The block and its canonical hash are written.
LEMMA WritesType ==
  ASSUME TypeInvariant, NEW t \in Threads, WriteBlock(t) \/ WriteCanonicalHash(t)
  PROVE  TypeInvariant'
<1> USE DEF TypeInvariant
<1>1. /\ pc[t] \in Adding
      /\ Goto(t, "canonical") \/ Goto(t, "head")
      /\ UNCHANGED <<head, overtaken, latest, state, syncing, syncTarget, syncRequests,
                     cut, orphanPool, activeForks, rmMu, blockSubmitMu,
                     processingReorgBlock, queue, blk, seen, gap, ret, fork, step,
                     from, todo>>
  BY DEF WriteBlock, WriteCanonicalHash, Adding, Committing, syncVars, poolVars,
         lockVars, callVars, reorgVars
<1>2. blk[t] \in Blocks
  BY <1>1 DEF LocalsOK
<1>3. /\ stored' \subseteq AllBlocks
      /\ canon' \in [Heights -> AllBlocks \cup {NoBlock}]
      /\ misplaced' \in BOOLEAN
  BY <1>2 DEF WriteBlock, WriteCanonicalHash, FillsGapWrongly, TypeOK, AllBlocks
<1>4. pc' \in [Threads -> PCs] /\ pc'[t] \in {"canonical", "head"}
  BY <1>1, GotoType DEF PCs
<1>5. TypeOK'
  BY <1>1, <1>3, <1>4 DEF TypeOK
<1>6. LocalsOK(t)'
  BY <1>1, <1>4 DEF LocalsOK, Adding, Committing, Reorganizing
<1>7. \A u \in Threads \ {t} : pc'[u] = pc[u]
  BY <1>1 DEF Goto, TypeOK
<1> QED BY <1>1, <1>5, <1>6, <1>7, OneMoved

\* The head hash is written, and the commit returns.
LEMMA WriteHeadBlockHashType ==
  ASSUME TypeInvariant, NEW t \in Threads, WriteHeadBlockHash(t)
  PROVE  TypeInvariant'
<1> USE DEF TypeInvariant
<1>1. TypeOK'
  <2>1. /\ head' \in AllBlocks
        /\ latest' \in AllBlocks \cup {NoBlock}
    <3>1. blk[t] \in Blocks
      BY DEF WriteHeadBlockHash, LocalsOK, Adding, Committing
    <3> QED BY <3>1 DEF WriteHeadBlockHash, TypeOK, AllBlocks
  <2>2. /\ syncing' \in BOOLEAN
        /\ blockSubmitMu' \in Threads \cup {NoThread}
    BY DEF TypeOK, WriteHeadBlockHash
  <2>3. /\ pc' \in [Threads -> PCs]
        /\ processingReorgBlock' \in BOOLEAN
        /\ step' \in [Threads -> Int]
    <3>1. pc[t] \in Adding /\ UNCHANGED <<blk, ret, fork>>
      BY DEF WriteHeadBlockHash, Adding, Committing, callVars, reorgVars
    <3>2. \E ok \in BOOLEAN : Finish(t, ok)
      BY DEF WriteHeadBlockHash
    <3>3. CASE \E ok \in BOOLEAN : Finish(t, ok)
      BY <3>1, <3>3, FinishType
    <3> QED BY <3>2, <3>3 DEF TypeOK, Goto, PCs
  <2>4. UNCHANGED <<stored, canon, overtaken, misplaced, state, syncTarget,
                       syncRequests, cut, orphanPool, activeForks, rmMu, queue, blk, seen, gap, ret, fork, from, todo>>
    BY DEF WriteHeadBlockHash, chainVars, syncVars, poolVars, lockVars,
      callVars, reorgVars
  <2> QED
    BY <2>1, <2>2, <2>3, <2>4 DEF TypeOK
<1>2. LocalsOK(t)'
  <2>1. pc[t] \in Adding /\ UNCHANGED <<blk, ret, fork>>
    BY DEF WriteHeadBlockHash, Adding, Committing, callVars, reorgVars
  <2>2. \E ok \in BOOLEAN : Finish(t, ok)
    BY DEF WriteHeadBlockHash
  <2>3. CASE \E ok \in BOOLEAN : Finish(t, ok)
    BY <2>1, <2>3, FinishType
  <2> QED BY <2>1, <2>2, <2>3 DEF TypeOK, LocalsOK, Goto, Adding, Committing, Reorganizing
<1>3. \A u \in Threads \ {t} :
        /\ pc'[u] = pc[u] /\ blk'[u] = blk[u] /\ ret'[u] = ret[u]
        /\ fork'[u] = fork[u] /\ step'[u] = step[u]
  <2>1. pc[t] \in Adding /\ UNCHANGED <<blk, ret, fork>>
    BY DEF WriteHeadBlockHash, Adding, Committing, callVars, reorgVars
  <2>2. \E ok \in BOOLEAN : Finish(t, ok)
    BY DEF WriteHeadBlockHash
  <2>3. CASE \E ok \in BOOLEAN : Finish(t, ok)
    BY <2>1, <2>3, FinishType
  <2> QED BY <2>1, <2>2, <2>3 DEF TypeOK, Goto
<1> QED BY <1>1, <1>2, <1>3, OneMoved

\* A step that moves no goroutine keeps the locals of all.
LEMMA NobodyMoved ==
  ASSUME TypeInvariant, TypeOK', UNCHANGED <<pc, blk, ret, fork, step>>
  PROVE  TypeInvariant'
<1>1. ASSUME NEW u \in Threads PROVE LocalsOK(u)'
  <2>1. LocalsOK(u)
    BY DEF TypeInvariant
  <2> QED BY <2>1, Bystander
<1> QED BY <1>1 DEF TypeInvariant

\* Orphans expire.
LEMMA CleanupExpiredOrphansType ==
  ASSUME TypeInvariant, CleanupExpiredOrphans
  PROVE  TypeInvariant'
<1>1. orphanPool' \in [Blocks -> Nat]
  BY WithoutType DEF CleanupExpiredOrphans
<1>2. UNCHANGED <<stored, canon, head, overtaken, misplaced, latest, state, syncing, syncTarget,
                  syncRequests, cut, activeForks, rmMu, blockSubmitMu,
                  processingReorgBlock, pc, queue, blk, seen, gap, ret, fork,
                  step, from, todo>>
  BY DEF CleanupExpiredOrphans, chainVars, syncVars, lockVars, callVars, reorgVars
<1>3. TypeOK'
  BY <1>1, <1>2 DEF TypeInvariant, TypeOK
<1> QED BY <1>2, <1>3, NobodyMoved

\* Sync mode goes on or off.
LEMMA SyncType ==
  ASSUME TypeInvariant, TriggerSyncFromBlock \/ StartSync \/ StopSync
  PROVE  TypeInvariant'
<1>1. 0 \in Heights
  BY BoundsAssumption DEF Heights
<1>2. CASE TriggerSyncFromBlock
  <2>1. syncing' \in BOOLEAN /\ syncTarget' \in Heights /\ syncRequests' \subseteq Heights
    BY <1>2 DEF TriggerSyncFromBlock, TypeInvariant, TypeOK
  <2>2. UNCHANGED <<stored, canon, head, overtaken, misplaced, latest, state, cut, orphanPool, activeForks,
                    rmMu, blockSubmitMu, processingReorgBlock, pc, queue, blk,
                    seen, gap, ret, fork, step, from, todo>>
    BY <1>2 DEF TriggerSyncFromBlock, chainVars, poolVars, lockVars, callVars, reorgVars
  <2>3. TypeOK'
    BY <2>1, <2>2 DEF TypeInvariant, TypeOK
  <2> QED BY <2>2, <2>3, NobodyMoved
<1>3. CASE StartSync \/ StopSync
  <2>1. syncing' \in BOOLEAN /\ syncTarget' \in Heights
    BY <1>1, <1>3, BoundsAssumption DEF StartSync, StopSync, TypeInvariant, TypeOK
  <2>2. UNCHANGED <<stored, canon, head, overtaken, misplaced, latest, state, syncRequests, cut, orphanPool,
                    activeForks, rmMu, blockSubmitMu, processingReorgBlock, pc,
                    queue, blk, seen, gap, ret, fork, step, from, todo>>
    BY <1>3 DEF StartSync, StopSync, chainVars, poolVars, lockVars, callVars, reorgVars
  <2>3. TypeOK'
    BY <2>1, <2>2 DEF TypeInvariant, TypeOK
  <2> QED BY <2>2, <2>3, NobodyMoved
<1> QED BY <1>2, <1>3

\* The fast sync truncates the chain.
LEMMA TruncationType ==
  ASSUME TypeInvariant,
         TruncateTo \/ CollectCanonicalHash \/ CommitTruncation \/ StoreTruncatedTip
  PROVE  TypeInvariant'
<1> USE DEF TypeInvariant
<1>1. NoCut \in Cuts
  BY BoundsAssumption DEF NoCut, Cuts, Heights
<1>2. UNCHANGED <<head, misplaced, state, syncing, syncTarget, syncRequests, orphanPool,
                  activeForks, rmMu, blockSubmitMu, processingReorgBlock, pc, queue,
                  blk, seen, gap, ret, fork, step, from, todo>>
  BY DEF TruncateTo, CollectCanonicalHash, CommitTruncation, StoreTruncatedTip,
         storeVars, chainVars, poolVars, lockVars, callVars, reorgVars
<1>3. CASE TruncateTo
  <2>1. PICK h \in TruncateHeights :
          cut' = [NoCut EXCEPT !.phase = "collect", !.to = h, !.next = CurrentHeight]
    BY <1>3 DEF TruncateTo
  <2>2. h \in Heights /\ CurrentHeight \in Heights
    BY BoundsAssumption, HeightInBound DEF TypeOK, CurrentHeight
  <2>3. cut' \in Cuts
    BY <1>1, <2>1, <2>2 DEF Cuts
  <2>4. TypeOK'
    BY <1>2, <1>3, <2>3 DEF TruncateTo, chainVars, TypeOK
  <2> QED BY <1>2, <2>4, NobodyMoved
<1>4. CASE CollectCanonicalHash
  <2>1. cut.next \in Heights /\ cut.to \in Heights /\ cut.next > cut.to
    BY <1>4 DEF CollectCanonicalHash, TypeOK, Cuts
  <2>2. cut.next - 1 \in Heights
    BY <2>1, BoundsAssumption DEF Heights
  <2>3. cut' \in Cuts
    BY <1>4, <2>1, <2>2 DEF CollectCanonicalHash, TypeOK, Cuts
  <2>4. TypeOK'
    BY <1>2, <1>4, <2>3 DEF CollectCanonicalHash, chainVars, TypeOK
  <2> QED BY <1>2, <2>4, NobodyMoved
<1>5. CASE CommitTruncation
  <2>1. cut' \in Cuts
    BY <1>5 DEF CommitTruncation, TypeOK, Cuts
  <2>2. /\ stored' \subseteq AllBlocks /\ latest' = latest
        /\ canon' \in [Heights -> AllBlocks \cup {NoBlock}]
    BY <1>5 DEF CommitTruncation, TypeOK
  <2>3. overtaken' \subseteq Blocks
    <3>1. \A t \in Threads : pc[t] = "canonical" => blk[t] \in Blocks
      BY DEF LocalsOK, Adding, Committing
    <3> QED BY <1>5, <3>1 DEF CommitTruncation, TypeOK
  <2>4. TypeOK'
    BY <1>2, <2>1, <2>2, <2>3 DEF TypeOK
  <2> QED BY <1>2, <2>4, NobodyMoved
<1>6. CASE StoreTruncatedTip
  <2>1. latest' \in AllBlocks \cup {NoBlock}
    BY <1>6 DEF StoreTruncatedTip, TypeOK, Cuts
  <2>2. cut' \in Cuts
    BY <1>1, <1>6 DEF StoreTruncatedTip
  <2>3. TypeOK'
    BY <1>2, <1>6, <2>1, <2>2 DEF StoreTruncatedTip, storeVars, TypeOK
  <2> QED BY <1>2, <2>3, NobodyMoved
<1> QED BY <1>3, <1>4, <1>5, <1>6

\* The detector takes its snapshot and works through it.
LEMMA DetectorType ==
  ASSUME TypeInvariant, DetectAndResolveForks \/ NextDetectedFork
  PROVE  TypeInvariant'
<1> USE DEF TypeInvariant
<1>1. Detector \in Threads
  BY DEF Threads
<1>2. CASE DetectAndResolveForks
  <2>1. todo' \subseteq Forks
    BY <1>2, NoForkAssumption DEF DetectAndResolveForks, TypeOK
  <2>2. pc' \in [Threads -> PCs] /\ pc'[Detector] = "scan"
    BY <1>1, <1>2 DEF DetectAndResolveForks, TypeOK, Goto, PCs
  <2>3. UNCHANGED <<stored, canon, head, overtaken, misplaced, latest, state, syncing, syncTarget,
                    syncRequests, cut, orphanPool, activeForks, rmMu, blockSubmitMu,
                    processingReorgBlock, queue, blk, seen, gap, ret, fork,
                    step, from>>
    BY <1>2 DEF DetectAndResolveForks, chainVars, syncVars, poolVars, lockVars,
                callVars, reorgVars
  <2>4. TypeOK'
    BY <2>1, <2>2, <2>3 DEF TypeOK
  <2>5. LocalsOK(Detector)'
    BY <2>2 DEF LocalsOK, Adding, Committing, Reorganizing
  <2>6. \A u \in Threads \ {Detector} : pc'[u] = pc[u]
    BY <1>2 DEF DetectAndResolveForks, TypeOK, Goto
  <2> QED BY <1>1, <2>3, <2>4, <2>5, <2>6, OneMoved
<1>3. CASE NextDetectedFork /\ todo = {}
  <2>1. ForgetLocals(Detector) /\ UNCHANGED todo
    BY <1>3 DEF NextDetectedFork
  <2>2. UNCHANGED <<stored, canon, head, overtaken, misplaced, latest, state, syncing, syncTarget,
                    syncRequests, cut, orphanPool, activeForks, rmMu, blockSubmitMu,
                    processingReorgBlock, queue>>
    BY <1>3 DEF NextDetectedFork, chainVars, syncVars, poolVars, lockVars
  <2>3. TypeOK'
    BY <1>1, <2>1, <2>2 DEF ForgetLocals, Goto, TypeOK, PCs
  <2>4. LocalsOK(Detector)'
    BY <1>1, <2>1 DEF ForgetLocals, Goto, TypeOK, LocalsOK, Adding, Committing, Reorganizing
  <2>5. \A u \in Threads \ {Detector} :
          /\ pc'[u] = pc[u] /\ blk'[u] = blk[u] /\ ret'[u] = ret[u]
          /\ fork'[u] = fork[u] /\ step'[u] = step[u]
    BY <2>1 DEF ForgetLocals, Goto, TypeOK
  <2> QED BY <1>1, <2>3, <2>4, <2>5, OneMoved
<1>4. CASE NextDetectedFork /\ todo # {}
  <2>1. PICK f \in todo : /\ fork' = [fork EXCEPT ![Detector] = f]
                          /\ todo' = todo \ {f}
    BY <1>4 DEF NextDetectedFork
  <2>2. Goto(Detector, "reorg")
    BY <1>4 DEF NextDetectedFork
  <2>3. f \in Forks
    BY <2>1 DEF TypeOK
  <2>4. UNCHANGED <<stored, canon, head, overtaken, misplaced, latest, state, syncing, syncTarget,
                    syncRequests, cut, orphanPool, activeForks, rmMu, blockSubmitMu,
                    processingReorgBlock, queue, blk, seen, gap, ret, step, from>>
    BY <1>4 DEF NextDetectedFork, chainVars, syncVars, poolVars, lockVars, callVars
  <2>5. TypeOK'
    BY <1>1, <2>1, <2>2, <2>3, <2>4 DEF Goto, TypeOK, PCs
  <2>6. LocalsOK(Detector)'
    BY <1>1, <2>1, <2>2, <2>3 DEF Goto, TypeOK, LocalsOK, Adding, Committing, Reorganizing
  <2>7. \A u \in Threads \ {Detector} : pc'[u] = pc[u] /\ fork'[u] = fork[u]
    BY <2>1, <2>2 DEF Goto, TypeOK
  <2> QED BY <1>1, <2>4, <2>5, <2>6, <2>7, OneMoved
<1> QED BY <1>2, <1>3, <1>4

\* Every step keeps the types.
LEMMA TypeStep ==
  ASSUME TypeInvariant, [Next]_vars
  PROVE  TypeInvariant'
<1>1. CASE UNCHANGED vars
  <2>1. TypeOK'
    BY <1>1 DEF vars, TypeInvariant, TypeOK
  <2> QED BY <1>1, <2>1, NobodyMoved DEF vars
<1>2. ASSUME NEW t \in Submitters, NEW b \in Blocks, AddBlock(t, b)
      PROVE  TypeInvariant'
  BY <1>2, AddBlockType DEF Threads
<1>3. ASSUME NEW t \in Threads, ThreadStep(t)
      PROVE  TypeInvariant'
  BY <1>3, ReturnType, ProcessNewBlockType, AddOrphanBlockType,
     TryResolveOrphansType, KeepForkType, StartReorgType, DisconnectBlockType,
     ConnectBlockType, UndoCandidateType, EmergencyRollbackType,
     EnterAddBlockType, ValidateAndExecuteBlockType, WritesType,
     WriteHeadBlockHashType
  DEF ThreadStep
<1> QED
  BY <1>1, <1>2, <1>3, DetectorType, CleanupExpiredOrphansType, SyncType,
     TruncationType DEF Next

\* Every variable keeps its type, and the locals of a goroutine are what the
\* handlers expect where they use them: the branch walks of performReorg and
\* its rollbacks never index outside the recorded branches.
THEOREM TypeCorrect == Spec => []TypeInvariant
<1>1. Init => TypeInvariant
  BY TypeInit
<1>2. TypeInvariant /\ [Next]_vars => TypeInvariant'
  BY TypeStep
<1> QED BY <1>1, <1>2, PTL DEF Spec

-----------------------------------------------------------------------------
(***************************************************************************)
(* The canonical pointers: PointersInvariant is inductive whatever the     *)
(* goroutines and the fast sync do.                                        *)
(***************************************************************************)

\* The height of the tip is a height.
LEMMA TipHeight ==
  ASSUME TypeInvariant
  PROVE  CurrentHeight \in Heights
BY HeightInBound DEF TypeInvariant, TypeOK, CurrentHeight

\* At first genesis alone is canonical, and nothing is being cut.
LEMMA PointersInit == Init => PointersInvariant
BY BoundsAssumption DEF Init, PointersInvariant, PointersSound, NoCut, Heights

\* A step that writes no pointer, deletes no block, and brings no goroutine
\* before the write of a canonical hash keeps the pointers sound.
LEMMA PointersAside ==
  ASSUME PointersInvariant, UNCHANGED <<stored, canon, overtaken, cut>>,
         \A u \in Threads :
           pc'[u] = "canonical" => pc[u] = "canonical" /\ blk'[u] = blk[u]
  PROVE  PointersInvariant'
BY DEF PointersInvariant, PointersSound

\* Who is about to write a canonical hash has stored the block.
LEMMA PointersWriteBlock ==
  ASSUME TypeInvariant, PointersInvariant, NEW t \in Threads, WriteBlock(t)
  PROVE  PointersInvariant'
<1>1. /\ stored' = stored \cup {blk[t]}
      /\ UNCHANGED <<canon, overtaken, cut, blk>>
      /\ Goto(t, "canonical")
  BY DEF WriteBlock, syncVars, callVars
<1>2. PointersSound'
  BY <1>1 DEF PointersInvariant, PointersSound
<1>3. \A u \in Threads \ {t} : pc'[u] = pc[u]
  BY <1>1 DEF Goto, TypeInvariant, TypeOK
<1> QED BY <1>1, <1>2, <1>3 DEF PointersInvariant

\* A canonical hash is written at the height of its block.
LEMMA PointersWriteCanonicalHash ==
  ASSUME TypeInvariant, PointersInvariant, NEW t \in Threads,
         WriteCanonicalHash(t)
  PROVE  PointersInvariant'
<1>1. /\ canon' = [canon EXCEPT ![Height(blk[t])] = blk[t]]
      /\ UNCHANGED <<stored, overtaken, cut, blk>>
      /\ Goto(t, "head") /\ pc[t] = "canonical"
  BY DEF WriteCanonicalHash, syncVars, callVars
<1>2. blk[t] \in Blocks /\ Height(blk[t]) \in 1..MaxHeight
  BY <1>1, ParentHeight DEF TypeInvariant, LocalsOK, Adding, Committing
<1>3. blk[t] \in stored \cup overtaken
  BY <1>1 DEF PointersInvariant
<1>4. 0 \in Heights /\ 0 # Height(blk[t]) /\ \A h \in 1..MaxHeight : h \in Heights
  BY <1>2, BoundsAssumption DEF Heights
<1>5. PointersSound'
  BY <1>1, <1>2, <1>3, <1>4
  DEF PointersInvariant, PointersSound, TypeInvariant, TypeOK
<1>6. pc'[t] = "head" /\ \A u \in Threads \ {t} : pc'[u] = pc[u]
  BY <1>1 DEF Goto, TypeInvariant, TypeOK
<1> QED BY <1>1, <1>5, <1>6 DEF PointersInvariant

\* What a truncation collects is canonical, at the height it is collected for.
LEMMA PointersCollect ==
  ASSUME TypeInvariant, PointersInvariant,
         TruncateTo \/ CollectCanonicalHash \/ StoreTruncatedTip
  PROVE  PointersInvariant'
<1>1. UNCHANGED <<stored, canon, overtaken, pc, blk>>
  BY DEF TruncateTo, CollectCanonicalHash, StoreTruncatedTip, chainVars, storeVars,
         callVars
<1>2. PointersSound'
  BY <1>1 DEF PointersInvariant, PointersSound
<1>3. CASE TruncateTo \/ StoreTruncatedTip
  <2>1. cut'.doomed = [h \in Heights |-> NoBlock]
    <3>1. CASE TruncateTo
      BY <3>1 DEF TruncateTo, NoCut
    <3>2. CASE StoreTruncatedTip
      BY <3>2 DEF StoreTruncatedTip, NoCut
    <3> QED BY <1>3, <3>1, <3>2
  <2> QED BY <1>1, <1>2, <2>1 DEF PointersInvariant
<1>4. CASE CollectCanonicalHash
  <2>1. /\ cut.next \in 1..MaxHeight
        /\ cut.doomed \in [Heights -> AllBlocks \cup {NoBlock}]
        /\ cut'.doomed = [cut.doomed EXCEPT ![cut.next] = canon[cut.next]]
    BY <1>4, BoundsAssumption DEF CollectCanonicalHash, TypeInvariant, TypeOK, Cuts, Heights
  <2>2. canon[cut.next] # NoBlock =>
          canon[cut.next] \in Blocks /\ Height(canon[cut.next]) = cut.next
    BY <2>1 DEF PointersInvariant, PointersSound
  <2>3. \A h \in Heights : cut'.doomed[h] # NoBlock =>
          cut'.doomed[h] \in Blocks /\ Height(cut'.doomed[h]) = h
    BY <2>1, <2>2 DEF PointersInvariant
  <2> QED BY <1>1, <1>2, <2>3 DEF PointersInvariant
<1> QED BY <1>3, <1>4

\* The batch deletes no block of a height whose pointer it leaves, and a block
\* deleted before its canonical hash is written is known to be overtaken.
LEMMA PointersCommitTruncation ==
  ASSUME TypeInvariant, PointersInvariant, CommitTruncation
  PROVE  PointersInvariant'
<1>1. /\ stored' = stored \ DoomedBlocks
      /\ canon' = [h \in Heights |-> IF h \in DoomedHeights THEN NoBlock ELSE canon[h]]
      /\ overtaken' = overtaken \cup {b \in DoomedBlocks :
                         \E t \in Threads : pc[t] = "canonical" /\ blk[t] = b}
      /\ cut'.doomed = cut.doomed
      /\ UNCHANGED <<pc, blk>>
  BY DEF CommitTruncation, callVars, TypeInvariant, TypeOK, Cuts
<1>2. \A d \in DoomedBlocks :
        d \in Blocks /\ \E k \in DoomedHeights : Height(d) = k
  BY DEF DoomedBlocks, DoomedHeights, PointersInvariant
<1>3. Genesis \in stored'
  BY <1>1, <1>2, BlocksAssumption DEF PointersInvariant, PointersSound
<1>4. canon'[0] = Genesis
  <2>1. 0 \in Heights
    BY BoundsAssumption DEF Heights
  <2>2. \A b \in Blocks : Height(b) # 0
    BY ParentHeight
  <2>3. 0 \notin DoomedHeights
    BY <2>1, <2>2 DEF DoomedHeights, PointersInvariant
  <2> QED BY <1>1, <2>1, <2>3 DEF PointersInvariant, PointersSound
<1>5. ASSUME NEW h \in 1..MaxHeight, canon'[h] # NoBlock
      PROVE  /\ canon'[h] \in Blocks /\ Height(canon'[h]) = h
             /\ canon'[h] \in stored' \/ canon'[h] \in overtaken'
  <2>1. h \in Heights
    BY BoundsAssumption DEF Heights
  <2>2. canon'[h] = canon[h] /\ h \notin DoomedHeights
    BY <1>1, <1>5, <2>1
  <2>3. /\ canon[h] \in Blocks /\ Height(canon[h]) = h
        /\ canon[h] \in stored \/ canon[h] \in overtaken
    BY <1>5, <2>2 DEF PointersInvariant, PointersSound
  <2>4. canon[h] \notin DoomedBlocks
    BY <1>2, <2>2, <2>3
  <2> QED BY <1>1, <2>2, <2>3, <2>4
<1>6. ASSUME NEW t \in Threads, pc'[t] = "canonical"
      PROVE  blk'[t] \in stored' \cup overtaken'
  <2>1. pc[t] = "canonical" /\ blk'[t] = blk[t] /\ blk[t] \in stored \cup overtaken
    BY <1>1, <1>6 DEF PointersInvariant
  <2> QED BY <1>1, <2>1
<1> QED BY <1>1, <1>3, <1>4, <1>5, <1>6 DEF PointersInvariant, PointersSound

\* The other steps of a goroutine write no pointer.
LEMMA PointersThread ==
  ASSUME TypeInvariant, PointersInvariant, NEW t \in Threads, ThreadStep(t),
         ~WriteBlock(t), ~WriteCanonicalHash(t)
  PROVE  PointersInvariant'
<1> USE DEF TypeInvariant
<1>1. UNCHANGED <<stored, canon, overtaken, cut>>
  BY DEF ThreadStep, Return, ProcessNewBlock, AddOrphanBlock, TryResolveOrphans,
         KeepFork, StartReorg, DisconnectBlock, ConnectBlock, UndoCandidate,
         EmergencyRollback, EnterAddBlock, ValidateAndExecuteBlock,
         WriteHeadBlockHash, chainVars, storeVars, syncVars
<1>2. \/ pc'[t] # "canonical"
      \/ pc'[t] = pc[t] /\ pc[t] \in {"disconnect", "undo"}
  <2>1. CASE ProcessNewBlock(t)
    <3>1. PICK p \in {"process", "orphan", "adopt", "reorg", "keep", "submit"} :
            Goto(t, p)
      BY <2>1, ProcessNewBlockOutcome
    <3> QED BY <3>1 DEF Goto, TypeOK
  <2>2. CASE \/ Return(t) \/ AddOrphanBlock(t) \/ TryResolveOrphans(t) \/ KeepFork(t)
             \/ StartReorg(t) \/ ConnectBlock(t) \/ EmergencyRollback(t)
    BY <2>2 DEF Return, ForgetLocals, AddOrphanBlock, TryResolveOrphans, KeepFork,
                StartReorg, ConnectBlock, EmergencyRollback, CallAddBlock, Goto, Home,
                TypeOK
  <2>3. CASE DisconnectBlock(t) \/ UndoCandidate(t)
    BY <2>3 DEF DisconnectBlock, UndoCandidate, Goto, TypeOK
  <2>4. CASE \/ EnterAddBlock(t) \/ ValidateAndExecuteBlock(t)
             \/ WriteHeadBlockHash(t)
    BY <2>4 DEF EnterAddBlock, ValidateAndExecuteBlock, WriteHeadBlockHash, Finish,
                Goto, TypeOK
  <2> QED BY <2>1, <2>2, <2>3, <2>4 DEF ThreadStep
<1>3. \A u \in Threads \ {t} : pc'[u] = pc[u] /\ blk'[u] = blk[u]
  <2>1. CASE ProcessNewBlock(t)
    <3>1. PICK b \in Blocks, p \in {"process", "orphan", "adopt", "reorg", "keep",
                                    "submit"} :
            blk' = [blk EXCEPT ![t] = b] /\ Goto(t, p)
      BY <2>1, ProcessNewBlockOutcome
    <3> QED BY <3>1 DEF Goto, TypeOK
  <2>2. CASE \/ Return(t) \/ AddOrphanBlock(t) \/ TryResolveOrphans(t) \/ KeepFork(t)
             \/ StartReorg(t) \/ ConnectBlock(t) \/ EmergencyRollback(t)
    BY <2>2 DEF Return, ForgetLocals, AddOrphanBlock, TryResolveOrphans, KeepFork,
                StartReorg, ConnectBlock, EmergencyRollback, CallAddBlock, Goto,
                TypeOK, callVars
  <2>3. CASE DisconnectBlock(t) \/ UndoCandidate(t)
    BY <2>3 DEF DisconnectBlock, UndoCandidate, Goto, TypeOK, callVars
  <2>4. CASE \/ EnterAddBlock(t) \/ ValidateAndExecuteBlock(t)
             \/ WriteHeadBlockHash(t)
    BY <2>4 DEF EnterAddBlock, ValidateAndExecuteBlock, WriteHeadBlockHash, Finish,
                Goto, TypeOK, callVars
  <2> QED BY <2>1, <2>2, <2>3, <2>4 DEF ThreadStep
<1> QED BY <1>1, <1>2, <1>3, PointersAside

\* Every step keeps the pointers sound.
LEMMA PointersStep ==
  ASSUME TypeInvariant, PointersInvariant, [Next]_vars
  PROVE  PointersInvariant'
<1>1. CASE UNCHANGED vars
  BY <1>1, PointersAside DEF vars
<1>2. ASSUME NEW t \in Submitters, NEW b \in Blocks, AddBlock(t, b)
      PROVE  PointersInvariant'
  <2>1. UNCHANGED <<stored, canon, overtaken, cut>> /\ t \in Threads
    BY <1>2 DEF AddBlock, chainVars, syncVars, Threads
  <2>2. /\ pc'[t] \in {"submit", "process"}
        /\ \A u \in Threads \ {t} : pc'[u] = pc[u] /\ blk'[u] = blk[u]
    BY <1>2, <2>1 DEF AddBlock, Goto, TypeInvariant, TypeOK
  <2> QED BY <2>1, <2>2, PointersAside
<1>3. ASSUME NEW t \in Threads, ThreadStep(t)
      PROVE  PointersInvariant'
  BY <1>3, PointersWriteBlock, PointersWriteCanonicalHash, PointersThread
<1>4. CASE DetectAndResolveForks \/ NextDetectedFork
  <2>1. Detector \in Threads /\ UNCHANGED <<stored, canon, overtaken, cut>>
    BY <1>4 DEF Threads, DetectAndResolveForks, NextDetectedFork, chainVars, syncVars
  <2>2. /\ pc'[Detector] \in {"idle", "scan", "reorg"}
        /\ \A u \in Threads \ {Detector} : pc'[u] = pc[u] /\ blk'[u] = blk[u]
    BY <1>4, <2>1 DEF DetectAndResolveForks, NextDetectedFork, ForgetLocals, Goto,
                      TypeInvariant, TypeOK, callVars
  <2> QED BY <2>1, <2>2, PointersAside
<1>5. CASE \/ CleanupExpiredOrphans \/ TriggerSyncFromBlock \/ StartSync \/ StopSync
  BY <1>5, PointersAside DEF CleanupExpiredOrphans, TriggerSyncFromBlock, StartSync,
                             StopSync, chainVars, syncVars, callVars
<1> QED
  BY <1>1, <1>2, <1>3, <1>4, <1>5, PointersCollect, PointersCommitTruncation
  DEF Next

\* A canonical pointer never names a block of another height, and never dangles
\* but at a block that a truncation had collected, and deleted between its
\* write and that of its canonical hash: GetBlock(height) and HasBlockAtHeight
\* find a block wherever WriteCanonicalHash left a hash, through every
\* reorganization, race and truncation, with no assumption on the blocks.
THEOREM PointersStaySound == Spec => []PointersSound
<1>1. Init => PointersInvariant
  BY PointersInit
<1>2. TypeInvariant /\ PointersInvariant /\ [Next]_vars => PointersInvariant'
  BY PointersStep
<1>3. PointersInvariant => PointersSound
  BY DEF PointersInvariant
<1>4. Spec => []TypeInvariant
  BY TypeCorrect
<1> QED BY <1>1, <1>2, <1>3, <1>4, PTL DEF Spec
-----------------------------------------------------------------------------
(***************************************************************************)
(* The canonical chain stays linked, but for a sync that puts a block on a *)
(* tip that is not its parent: ChainInvariant is inductive when the fast   *)
(* sync does not truncate.  Only the steps of addBlockInternal and of      *)
(* revertToHeight touch what the invariant is about; all others are        *)
(* covered by one lemma.                                                   *)
(***************************************************************************)

\* A goroutine in here has passed the checks of addBlockInternal and holds
\* blockSubmitMu.
Inside == {"exec", "stuck"} \cup Committing

\* Nobody enters or leaves addBlockInternal, and who is inside keeps its locals.
Undisturbed ==
  \A u \in Threads :
    pc[u] \in Inside \/ pc'[u] \in Inside =>
      pc'[u] = pc[u] /\ blk'[u] = blk[u] /\ seen'[u] = seen[u] /\ gap'[u] = gap[u]

\* What ChainInvariant adds to PointersInvariant.
ChainInOrder == MutexHeld /\ Uncut /\ (misplaced \/ Ordered)

\* The goroutine inside addBlockInternal is the only one.
LEMMA OneInside ==
  ASSUME MutexHeld, NEW t \in Threads, pc[t] \in Inside
  PROVE  blockSubmitMu = t /\ \A u \in Threads \ {t} : pc[u] \notin Inside
BY DEF MutexHeld, Inside

\* Initially the chain is the genesis block.
LEMMA ChainInit == Init => ChainInOrder
<1> SUFFICES ASSUME Init PROVE ChainInOrder
  OBVIOUS
<1>1. CurrentHeight = 0
  BY BlocksAssumption DEF Init, CurrentHeight, Height
<1>2. TipOnChain
  BY <1>1, BoundsAssumption DEF Init, TipOnChain, Linked, Heights
<1>3. MutexHeld /\ AdditionInOrder /\ Uncut
  BY DEF Init, MutexHeld, AdditionInOrder, Uncut, Committing
<1> QED BY <1>2, <1>3 DEF ChainInOrder, Ordered

\* A step that leaves the pointers, the tip and whoever is inside
\* addBlockInternal alone keeps the chain in order.
LEMMA Aside ==
  ASSUME ChainInOrder, Undisturbed,
         UNCHANGED <<canon, latest, blockSubmitMu, cut, overtaken, misplaced>>
  PROVE  ChainInOrder'
<1> USE DEF ChainInOrder
<1>1. TipOnChain => TipOnChain'
  BY DEF TipOnChain, Linked, CurrentHeight
<1>2. MutexHeld' /\ Uncut'
  BY DEF MutexHeld, Undisturbed, Inside, Uncut
<1>3. AdditionInOrder => AdditionInOrder'
  BY DEF AdditionInOrder, InOrder, Undisturbed, Inside, Linked, CurrentHeight
<1> QED BY <1>1, <1>2, <1>3 DEF Ordered

\* revertToHeight lowers the tip along the chain: whoever is inside
\* addBlockInternal meanwhile keeps its place.
LEMMA Reverting ==
  ASSUME TypeInvariant, PointersInvariant, ChainInOrder, Undisturbed, NEW h \in Nat,
         RevertToHeight(h),
         UNCHANGED <<canon, blockSubmitMu, cut, overtaken, misplaced>>
  PROVE  ChainInOrder'
<1>1. CASE latest' = latest
  BY <1>1, Aside
<1>2. CASE latest' # latest
  <2>1. /\ ~(h >= CurrentHeight)
        /\ latest' = IF h = 0 THEN NoBlock ELSE canon[h]
        /\ ~ReplayBlocked(h)
    BY <1>2 DEF RevertToHeight
  <2>2. CurrentHeight \in Heights /\ CurrentHeight \in Nat /\ h < CurrentHeight
    BY <2>1, TipHeight, BoundsAssumption DEF Heights
  <2>3. MutexHeld' /\ Uncut'
    BY DEF ChainInOrder, MutexHeld, Undisturbed, Inside, Uncut
  <2>4. ASSUME Ordered PROVE Ordered'
    <3>1. h = 0 \/ (h \in 1..MaxHeight /\ h \in 1..CurrentHeight)
      BY <2>2, BoundsAssumption DEF Heights
    <3>2. CurrentHeight' = h
      <4>1. CASE h = 0
        BY <2>1, <4>1, BlocksAssumption DEF CurrentHeight, Height
      <4>2. CASE h \in 1..MaxHeight /\ h \in 1..CurrentHeight
        <5>1. canon[h] # NoBlock
          BY <2>4, <4>2 DEF Ordered, TipOnChain, Linked
        <5> QED BY <2>1, <4>2, <5>1 DEF PointersInvariant, PointersSound, CurrentHeight
      <4> QED BY <3>1, <4>1, <4>2
    <3>3. TipOnChain'
      <4>1. \A k \in 1..h : k \in 1..CurrentHeight
        BY <2>2
      <4>2. Linked(h)'
        BY <2>4, <4>1 DEF Linked, Ordered, TipOnChain
      <4> QED BY <2>1, <3>2, <4>2 DEF TipOnChain
    <3>4. AdditionInOrder'
      <4> SUFFICES ASSUME NEW t \in Threads, pc'[t] \in {"exec"} \cup Committing
                   PROVE  InOrder(t)'
        BY DEF AdditionInOrder
      <4>1. /\ pc'[t] = pc[t] /\ blk'[t] = blk[t] /\ seen'[t] = seen[t]
            /\ gap'[t] = gap[t] /\ InOrder(t)
        BY <2>4 DEF Undisturbed, Inside, Ordered, AdditionInOrder
      <4>2. Height(seen[t]) \in Nat
        BY HeightInBound DEF TypeInvariant, TypeOK, Heights
      <4>3. CurrentHeight <= Height(seen[t])
        BY <4>1 DEF InOrder
      <4>4. CurrentHeight' <= Height(seen[t]) /\ Height(seen[t]) > 0
        BY <2>2, <3>2, <4>2, <4>3
      <4>5. seen[t] # NoBlock
        BY <4>4, BlocksAssumption DEF Height
      <4> QED BY <4>1, <4>4, <4>5 DEF InOrder, Linked
    <3> QED BY <3>3, <3>4 DEF Ordered
  <2> QED BY <2>3, <2>4 DEF ChainInOrder
<1> QED BY <1>1, <1>2

\* addBlockInternal accepts a block: nobody else is inside.
LEMMA Entering ==
  ASSUME TypeInvariant, ChainInOrder, NEW t \in Threads, EnterAddBlock(t)
  PROVE  ChainInOrder'
<1> USE DEF ChainInOrder
<1>1. /\ UNCHANGED <<canon, latest, blk, cut, overtaken, misplaced>>
      /\ pc[t] = "submit" /\ blockSubmitMu = NoThread
  BY DEF EnterAddBlock, chainVars
<1>2. \A u \in Threads : pc[u] \notin Inside
  BY <1>1, ThreadsAssumption DEF MutexHeld, Inside
<1>3. CASE Rejected(blk[t])
  <2>1. Finish(t, FALSE) /\ UNCHANGED <<blockSubmitMu, seen, gap>>
    BY <1>3 DEF EnterAddBlock
  <2>2. pc'[t] \notin Inside /\ \A u \in Threads \ {t} : pc'[u] = pc[u]
    BY <2>1 DEF Finish, Goto, Inside, Committing, TypeInvariant, TypeOK
  <2>3. Undisturbed
    BY <1>1, <1>2, <2>2 DEF Undisturbed
  <2> QED BY <1>1, <2>1, <2>3, Aside
<1>4. CASE ~Rejected(blk[t])
  <2>1. /\ blockSubmitMu' = t
        /\ seen' = [seen EXCEPT ![t] = latest]
        /\ Goto(t, IF Height(blk[t]) = CurrentHeight THEN "stuck" ELSE "exec")
    BY <1>4 DEF EnterAddBlock
  <2>2. /\ seen'[t] = latest
        /\ pc'[t] = "stuck" \/ (pc'[t] = "exec" /\ Height(blk[t]) # CurrentHeight)
        /\ \A u \in Threads \ {t} : pc'[u] \notin Inside
    BY <1>2, <2>1 DEF Goto, TypeInvariant, TypeOK
  <2>3. TipOnChain => TipOnChain'
    BY <1>1 DEF TipOnChain, Linked, CurrentHeight
  <2>4. MutexHeld' /\ Uncut'
    BY <1>1, <2>1, <2>2 DEF MutexHeld, Inside, Uncut
  <2>5. ASSUME TipOnChain PROVE AdditionInOrder'
    <3> SUFFICES ASSUME pc'[t] = "exec" PROVE InOrder(t)'
      BY <2>2 DEF AdditionInOrder, Inside, Committing
    <3>1. blk[t] \in Blocks
      BY <1>1 DEF TypeInvariant, LocalsOK, Adding, Committing
    <3>2. Height(blk[t]) \in Nat /\ CurrentHeight \in Nat
      BY <3>1, HeightInBound, TipHeight DEF Heights, AllBlocks
    <3>3. /\ ~(Height(blk[t]) < CurrentHeight)
          /\ ~(Height(blk[t]) > CurrentHeight + 1)
          /\ Height(blk[t]) # CurrentHeight
      BY <1>4, <2>2 DEF Rejected
    <3>4. Height(blk[t]) = CurrentHeight + 1
      BY <3>2, <3>3
    <3>5. CurrentHeight' = CurrentHeight /\ Height(seen'[t]) = CurrentHeight
      BY <1>1, <2>2 DEF CurrentHeight
    <3>6. Linked(CurrentHeight)' /\ (latest # NoBlock => canon[CurrentHeight] = latest)
      BY <1>1, <2>5, <3>5 DEF TipOnChain, Linked
    <3> QED
      BY <1>1, <2>2, <3>2, <3>4, <3>5, <3>6 DEF InOrder, Committing
  <2> QED BY <1>1, <2>3, <2>4, <2>5 DEF Ordered
<1> QED BY <1>3, <1>4

\* A block that executes and does not fill a gap is a child of the canonical
\* block that was the tip when it was checked.
LEMMA Executing ==
  ASSUME TypeInvariant, ChainInOrder, NEW t \in Threads,
         ValidateAndExecuteBlock(t)
  PROVE  ChainInOrder'
<1> USE DEF ChainInOrder
<1>1. /\ UNCHANGED <<canon, latest, blk, seen, gap, cut, overtaken, misplaced>>
      /\ pc[t] = "exec"
  BY DEF ValidateAndExecuteBlock, storeVars, callVars, syncVars
<1>2. blockSubmitMu = t /\ \A u \in Threads \ {t} : pc[u] \notin Inside
  BY <1>1, OneInside DEF Inside
<1>3. TipOnChain => TipOnChain'
  BY <1>1 DEF TipOnChain, Linked, CurrentHeight
<1>4. \/ pc'[t] \notin Inside
      \/ pc'[t] = "commit" /\ blockSubmitMu' = t /\ ExtendsTip(t)
  BY <1>2 DEF ValidateAndExecuteBlock, Finish, Goto, Inside, Committing,
              TypeInvariant, TypeOK
<1>5. \A u \in Threads \ {t} : pc'[u] = pc[u]
  BY DEF ValidateAndExecuteBlock, Finish, Goto, TypeInvariant, TypeOK
<1>6. MutexHeld' /\ Uncut'
  BY <1>1, <1>2, <1>4, <1>5 DEF MutexHeld, Inside, Uncut
<1>7. ASSUME AdditionInOrder PROVE AdditionInOrder'
  <2> SUFFICES ASSUME pc'[t] = "commit" PROVE InOrder(t)'
    BY <1>2, <1>4, <1>5 DEF AdditionInOrder, Inside
  <2>1. InOrder(t)
    BY <1>1, <1>7 DEF AdditionInOrder
  <2>2. Parent(blk[t]) # NoBlock
    <3>1. blk[t] \in Blocks
      BY <1>1 DEF TypeInvariant, LocalsOK, Adding
    <3> QED BY <3>1, ParentHeight, BlocksAssumption DEF AllBlocks
  <2>3. ~gap[t] => Parent(blk[t]) = canon[Height(seen[t])]
    BY <1>4, <2>1, <2>2 DEF ExtendsTip, InOrder, Inside, Committing
  <2> QED BY <1>1, <2>1, <2>3 DEF InOrder, Linked, CurrentHeight
<1> QED BY <1>1, <1>3, <1>6, <1>7 DEF Ordered

\* The first write of a commit touches neither pointers nor tip.
LEMMA WritingBlock ==
  ASSUME TypeInvariant, ChainInOrder, NEW t \in Threads, WriteBlock(t)
  PROVE  ChainInOrder'
<1> USE DEF ChainInOrder
<1>1. /\ UNCHANGED <<canon, latest, blk, seen, gap, cut, overtaken, misplaced,
                     blockSubmitMu>>
      /\ pc[t] = "commit" /\ Goto(t, "canonical")
  BY DEF WriteBlock, callVars, syncVars, lockVars
<1>2. pc'[t] = "canonical" /\ \A u \in Threads \ {t} : pc'[u] = pc[u]
  BY <1>1 DEF Goto, TypeInvariant, TypeOK
<1>3. MutexHeld' /\ Uncut'
  BY <1>1, <1>2 DEF MutexHeld, Uncut, Committing
<1>4. TipOnChain => TipOnChain'
  BY <1>1 DEF TipOnChain, Linked, CurrentHeight
<1>5. AdditionInOrder => AdditionInOrder'
  <2>1. ASSUME NEW u \in Threads, InOrder(u), pc'[u] = pc[u] PROVE InOrder(u)'
    BY <1>1, <2>1 DEF InOrder, Linked, CurrentHeight
  <2>2. InOrder(t) => InOrder(t)'
    BY <1>1, <1>2 DEF InOrder, Linked, CurrentHeight, Committing
  <2> QED BY <1>1, <1>2, <2>1, <2>2 DEF AdditionInOrder, Committing
<1> QED BY <1>1, <1>3, <1>4, <1>5 DEF Ordered

\* The canonical hash is written just above the block's parent, or it is
\* misplaced.
LEMMA WritingCanonicalHash ==
  ASSUME TypeInvariant, ChainInOrder, NEW t \in Threads, WriteCanonicalHash(t)
  PROVE  ChainInOrder'
<1> USE DEF ChainInOrder
<1> DEFINE b == blk[t]
           n == Height(seen[t])
<1>1. /\ UNCHANGED <<latest, blk, seen, gap, cut, overtaken, blockSubmitMu>>
      /\ pc[t] = "canonical" /\ Goto(t, "head")
      /\ canon' = [canon EXCEPT ![Height(b)] = b]
      /\ misplaced' = (misplaced \/ FillsGapWrongly(t))
  BY DEF WriteCanonicalHash, callVars, syncVars, lockVars
<1>2. blockSubmitMu = t /\ \A u \in Threads \ {t} : pc[u] \notin Inside
  BY <1>1, OneInside DEF Inside, Committing
<1>3. pc'[t] = "head" /\ \A u \in Threads \ {t} : pc'[u] = pc[u]
  BY <1>1 DEF Goto, TypeInvariant, TypeOK
<1>4. MutexHeld' /\ Uncut'
  BY <1>1, <1>3 DEF MutexHeld, Uncut, Committing
<1>5. ASSUME Ordered, ~misplaced' PROVE Ordered'
  <2>1. b \in Blocks /\ Height(b) \in 1..MaxHeight
    BY <1>1, ParentHeight DEF TypeInvariant, LocalsOK, Adding, Committing
  <2>2. InOrder(t)
    BY <1>1, <1>5 DEF Ordered, AdditionInOrder, Committing
  <2>3. /\ n \in Nat /\ CurrentHeight \in Nat /\ CurrentHeight <= n
        /\ Height(b) = n + 1 /\ Linked(n)
    BY <2>2, HeightInBound, TipHeight DEF InOrder, Heights, TypeInvariant, TypeOK
  <2>4. Parent(b) = canon[n]
    <3>1. CASE ~gap[t]
      BY <1>1, <2>2, <3>1 DEF InOrder, Committing
    <3>2. CASE gap[t]
      <4>1. canon[Height(b) - 1] = Parent(b)
        BY <1>1, <1>5, <3>2 DEF FillsGapWrongly
      <4>2. Height(b) - 1 = n
        BY <2>3
      <4> QED BY <4>1, <4>2
    <3> QED BY <3>1, <3>2
  <2>5. n + 1 \in Heights /\ b # NoBlock
    BY <2>1, <2>3, BlocksAssumption, BoundsAssumption DEF Heights
  <2> HIDE DEF b, n
  <2>6. canon'[n + 1] = b /\ \A k \in 0..n : canon'[k] = canon[k]
    <3>1. \A k \in 0..n : k \in Heights /\ k # n + 1
      BY <2>3, <2>5, BoundsAssumption DEF Heights
    <3> QED BY <1>1, <2>3, <2>5, <3>1 DEF TypeInvariant, TypeOK
  <2>7. ASSUME NEW h \in 1..(n + 1)
        PROVE  canon'[h] # NoBlock /\ Parent(canon'[h]) = canon'[h - 1]
    <3>1. CASE h = n + 1
      BY <2>3, <2>4, <2>5, <2>6, <3>1
    <3>2. CASE h # n + 1
      <4>1. h \in 1..n /\ h \in 0..n /\ h - 1 \in 0..n
        BY <2>3, <3>2
      <4> QED BY <2>3, <2>6, <4>1 DEF Linked
    <3> QED BY <3>1, <3>2
  <2>8. TipOnChain'
    <3>1. CurrentHeight' = CurrentHeight /\ CurrentHeight \in 0..n
      BY <1>1, <2>3 DEF CurrentHeight
    <3>2. Linked(CurrentHeight)'
      <4>1. \A h \in 1..CurrentHeight : h \in 1..(n + 1)
        BY <2>3
      <4> QED BY <2>7, <3>1, <4>1 DEF Linked
    <3>3. latest # NoBlock => canon[CurrentHeight] = latest
      BY <1>5 DEF Ordered, TipOnChain
    <3> QED BY <1>1, <2>6, <3>1, <3>2, <3>3 DEF TipOnChain
  <2>9. InOrder(t)'
    <3>1. /\ CurrentHeight' = CurrentHeight
          /\ blk'[t] = b /\ Height(seen'[t]) = n /\ seen'[t] = seen[t]
      BY <1>1 DEF CurrentHeight, b, n
    <3>2. canon'[n] = canon[n]
      BY <2>3, <2>6
    <3>3. /\ seen[t] # NoBlock => canon[n] = seen[t]
          /\ seen[t] = NoBlock => latest = NoBlock
      BY <2>2 DEF InOrder, n
    <3>4. Linked(Height(seen[t]))'
      <4>1. \A h \in 1..n : h \in 1..(n + 1)
        BY <2>3
      <4> QED BY <2>7, <3>1, <4>1 DEF Linked
    <3>5. Linked(Height(blk[t]))' /\ canon'[Height(b)] = b
      BY <2>3, <2>6, <2>7, <3>1 DEF Linked
    <3>6. Parent(b) = canon'[n]
      BY <2>4, <3>2
    <3> QED BY <1>1, <2>3, <3>1, <3>2, <3>3, <3>4, <3>5, <3>6 DEF InOrder
  <2>10. AdditionInOrder'
    BY <1>2, <1>3, <2>9 DEF AdditionInOrder, Inside
  <2> QED BY <2>8, <2>10 DEF Ordered
<1> QED BY <1>1, <1>4, <1>5

\* The tip becomes the block that was made canonical.
LEMMA WritingHead ==
  ASSUME TypeInvariant, ChainInOrder, NEW t \in Threads, WriteHeadBlockHash(t)
  PROVE  ChainInOrder'
<1> USE DEF ChainInOrder
<1>1. /\ UNCHANGED <<canon, blk, cut, overtaken, misplaced>>
      /\ pc[t] = "head" /\ latest' = blk[t] /\ blockSubmitMu' = NoThread
  BY DEF WriteHeadBlockHash, callVars
<1>2. blockSubmitMu = t /\ \A u \in Threads \ {t} : pc[u] \notin Inside
  BY <1>1, OneInside DEF Inside, Committing
<1>3. \A u \in Threads : pc'[u] \notin Inside
  <2>1. pc'[t] \notin Inside /\ \A u \in Threads \ {t} : pc'[u] = pc[u]
    BY DEF WriteHeadBlockHash, Finish, Goto, Inside, Committing, TypeInvariant, TypeOK
  <2> QED BY <1>2, <2>1
<1>4. MutexHeld' /\ Uncut' /\ AdditionInOrder'
  BY <1>1, <1>3 DEF MutexHeld, Uncut, AdditionInOrder, Inside
<1>5. Ordered => TipOnChain'
  BY <1>1 DEF Ordered, AdditionInOrder, InOrder, TipOnChain, Linked, CurrentHeight,
              Committing
<1> QED BY <1>1, <1>4, <1>5 DEF Ordered

\* The steps of a goroutine that neither move the tip nor enter or leave
\* addBlockInternal.
LEMMA StepAside ==
  ASSUME TypeInvariant, ChainInOrder, NEW t \in Threads,
         \/ Return(t) \/ ProcessNewBlock(t) \/ AddOrphanBlock(t)
         \/ TryResolveOrphans(t) \/ KeepFork(t) \/ StartReorg(t)
         \/ ConnectBlock(t) \/ EmergencyRollback(t)
  PROVE  ChainInOrder'
<1> DEFINE Quiet == /\ UNCHANGED <<canon, latest, blockSubmitMu, cut, overtaken,
                                   misplaced>>
                    /\ pc[t] \notin Inside /\ pc'[t] \notin Inside
                    /\ \A u \in Threads \ {t} :
                         /\ pc'[u] = pc[u] /\ blk'[u] = blk[u]
                         /\ seen'[u] = seen[u] /\ gap'[u] = gap[u]
<1> USE DEF TypeInvariant
<1>1. ASSUME Quiet PROVE ChainInOrder'
  BY <1>1, Aside DEF Undisturbed
<1>2. CASE Return(t)
  BY <1>1, <1>2 DEF Return, ForgetLocals, Goto, Inside, Committing, TypeOK, chainVars,
                    lockVars, syncVars
<1>3. CASE ProcessNewBlock(t)
  <2>1. PICK b \in Blocks, p \in {"process", "orphan", "adopt", "reorg", "keep",
                                  "submit"} :
          blk' = [blk EXCEPT ![t] = b] /\ Goto(t, p)
    BY <1>3, ProcessNewBlockOutcome
  <2>2. /\ UNCHANGED <<canon, latest, blockSubmitMu, seen, gap, cut, overtaken,
                       misplaced>>
        /\ pc[t] = "process"
    BY <1>3 DEF ProcessNewBlock, chainVars, syncVars
  <2> QED BY <1>1, <2>1, <2>2 DEF Goto, Inside, Committing, TypeOK
<1>4. CASE AddOrphanBlock(t) \/ TryResolveOrphans(t)
  BY <1>1, <1>4 DEF AddOrphanBlock, TryResolveOrphans, Goto, Inside, Committing,
                    TypeOK, chainVars, lockVars, callVars, syncVars
<1>5. CASE KeepFork(t)
  BY <1>1, <1>5 DEF KeepFork, Goto, Home, Inside, Committing, TypeOK, chainVars,
                    lockVars, callVars, syncVars
<1>6. CASE StartReorg(t)
  <2>1. Goto(t, Home(t)) \/ Goto(t, "disconnect")
    BY <1>6 DEF StartReorg
  <2>2. /\ UNCHANGED <<canon, latest, blockSubmitMu, blk, seen, gap, cut, overtaken,
                       misplaced>>
        /\ pc[t] = "reorg"
    BY <1>6 DEF StartReorg, chainVars, callVars, syncVars
  <2> QED BY <1>1, <2>1, <2>2 DEF Goto, Home, Inside, Committing, TypeOK
<1>7. CASE ConnectBlock(t) \/ EmergencyRollback(t)
  <2>1. Goto(t, Home(t)) \/ Goto(t, "rollback") \/ Goto(t, "submit")
    BY <1>7 DEF ConnectBlock, EmergencyRollback, CallAddBlock
  <2>2. /\ UNCHANGED <<canon, latest, blockSubmitMu, seen, gap, cut, overtaken,
                       misplaced>>
        /\ pc[t] \in {"connect", "rollback"}
        /\ \A u \in Threads \ {t} : blk'[u] = blk[u]
    BY <1>7 DEF ConnectBlock, EmergencyRollback, CallAddBlock, TypeOK, chainVars,
                reorgVars, syncVars
  <2> QED BY <1>1, <2>1, <2>2 DEF Goto, Home, Inside, Committing, TypeOK
<1> QED BY <1>2, <1>3, <1>4, <1>5, <1>6, <1>7

\* A reorganization or a rollback disconnects a block.
LEMMA Disconnecting ==
  ASSUME TypeInvariant, PointersInvariant, ChainInOrder, NEW t \in Threads,
         DisconnectBlock(t) \/ UndoCandidate(t)
  PROVE  ChainInOrder'
<1> USE DEF TypeInvariant
<1>1. /\ UNCHANGED <<canon, blockSubmitMu, blk, seen, gap, fork, cut, overtaken,
                     misplaced>>
      /\ pc[t] \in {"disconnect", "undo"}
  BY DEF DisconnectBlock, UndoCandidate, storeVars, lockVars, callVars, syncVars
<1>2. /\ pc'[t] \in {"disconnect", "undo", "connect", "rollback"}
      /\ \A u \in Threads \ {t} : pc'[u] = pc[u]
  BY DEF DisconnectBlock, UndoCandidate, Goto, TypeOK
<1>3. Undisturbed
  BY <1>1, <1>2 DEF Undisturbed, Inside, Committing
<1>4. CASE UNCHANGED <<latest, state>>
  BY <1>1, <1>3, <1>4, Aside
<1>5. CASE DisconnectBlock(t) /\ step[t] # 0
  <2> DEFINE h == Height(fork[t].active[step[t]]) - 1
  <2>1. fork[t].active \in Seq(Blocks) /\ step[t] \in 0..Len(fork[t].active)
    BY <1>5 DEF DisconnectBlock, LocalsOK, Reorganizing, Forks
  <2>2. step[t] \in 1..Len(fork[t].active)
    BY <1>5, <2>1, LenProperties
  <2>3. fork[t].active[step[t]] \in Blocks
    BY <2>1, <2>2, ElementOfSeq
  <2>4. h \in Nat
    BY <2>3, ParentHeight, BoundsAssumption
  <2>5. RevertToHeight(h)
    BY <1>5 DEF DisconnectBlock
  <2> HIDE DEF h
  <2> QED BY <1>1, <1>3, <2>4, <2>5, Reverting
<1>6. CASE UndoCandidate(t) /\ step[t] # 0
  <2> DEFINE h == Height(fork[t].cand[step[t]]) - 1
  <2>1. fork[t].cand \in Seq(Blocks) /\ step[t] \in 0..Len(fork[t].cand)
    BY <1>6 DEF UndoCandidate, LocalsOK, Reorganizing, Forks
  <2>2. step[t] \in 1..Len(fork[t].cand)
    BY <1>6, <2>1, LenProperties
  <2>3. fork[t].cand[step[t]] \in Blocks
    BY <2>1, <2>2, ElementOfSeq
  <2>4. h \in Nat
    BY <2>3, ParentHeight, BoundsAssumption
  <2>5. RevertToHeight(h)
    BY <1>6 DEF UndoCandidate
  <2> HIDE DEF h
  <2> QED BY <1>1, <1>3, <2>4, <2>5, Reverting
<1>7. step[t] = 0 => UNCHANGED <<latest, state>>
  BY DEF DisconnectBlock, UndoCandidate
<1> QED BY <1>4, <1>5, <1>6, <1>7

\* No truncation begins, and none is under way.
LEMMA NeverCuts ==
  ASSUME TruncateHeights = {}, Uncut
  PROVE  /\ ~TruncateTo /\ ~CollectCanonicalHash
         /\ ~CommitTruncation /\ ~StoreTruncatedTip
BY DEF TruncateTo, CollectCanonicalHash, CommitTruncation, StoreTruncatedTip, Uncut,
       NoCut

\* Every step keeps the chain linked, or puts a block where its parent is not.
LEMMA ChainStep ==
  ASSUME TruncateHeights = {}, TypeInvariant, PointersInvariant, ChainInOrder,
         [Next]_vars
  PROVE  ChainInOrder'
<1>1. CASE UNCHANGED vars
  BY <1>1, Aside DEF vars, Undisturbed
<1>2. ASSUME NEW t \in Submitters, NEW b \in Blocks, AddBlock(t, b)
      PROVE  ChainInOrder'
  <2>1. t \in Threads
    BY DEF Threads
  <2>2. /\ UNCHANGED <<canon, latest, blockSubmitMu, seen, gap, cut, overtaken,
                       misplaced>>
        /\ pc[t] = "idle"
    BY <1>2 DEF AddBlock, chainVars, lockVars, syncVars
  <2>3. /\ pc'[t] \in {"submit", "process"}
        /\ \A u \in Threads \ {t} : pc'[u] = pc[u] /\ blk'[u] = blk[u]
    BY <1>2, <2>1 DEF AddBlock, Goto, TypeInvariant, TypeOK
  <2> QED BY <2>2, <2>3, Aside DEF Undisturbed, Inside, Committing
<1>3. ASSUME NEW t \in Threads, ThreadStep(t)
      PROVE  ChainInOrder'
  BY <1>3, StepAside, Disconnecting, Entering, Executing, WritingBlock,
     WritingCanonicalHash, WritingHead
  DEF ThreadStep
<1>4. CASE DetectAndResolveForks \/ NextDetectedFork
  <2>1. Detector \in Threads
    BY DEF Threads
  <2>2. /\ UNCHANGED <<canon, latest, blockSubmitMu, cut, overtaken, misplaced>>
        /\ pc[Detector] \in {"idle", "scan"}
        /\ pc'[Detector] \in {"idle", "scan", "reorg"}
        /\ \A u \in Threads \ {Detector} :
             /\ pc'[u] = pc[u] /\ blk'[u] = blk[u]
             /\ seen'[u] = seen[u] /\ gap'[u] = gap[u]
    BY <1>4, <2>1 DEF DetectAndResolveForks, NextDetectedFork, ForgetLocals, Goto,
                      TypeInvariant, TypeOK, chainVars, lockVars, callVars, syncVars
  <2> QED BY <2>2, Aside DEF Undisturbed, Inside, Committing
<1>5. CASE \/ CleanupExpiredOrphans \/ TriggerSyncFromBlock
           \/ StartSync \/ StopSync
  BY <1>5, Aside DEF CleanupExpiredOrphans, TriggerSyncFromBlock, StartSync,
                     StopSync, Undisturbed, chainVars, lockVars, callVars, syncVars
<1>6. Uncut
  BY DEF ChainInOrder
<1> QED BY <1>1, <1>2, <1>3, <1>4, <1>5, <1>6, NeverCuts DEF Next

\* The chain part of the invariant says what CanonicalChainLinked says.
LEMMA LinkedChain ==
  ASSUME TypeInvariant, ChainInvariant
  PROVE  CanonicalChainLinked
<1>1. CASE misplaced
  BY <1>1 DEF CanonicalChainLinked
<1>2. CASE TipOnChain
  <2>1. CurrentHeight \in Heights
    BY TipHeight
  <2>2. ASSUME NEW h \in 1..CurrentHeight
        PROVE  /\ canon[h] \in stored \cap Blocks
               /\ Height(canon[h]) = h
               /\ Parent(canon[h]) = canon[h - 1]
    <3>1. h \in 1..MaxHeight
      BY <2>1, BoundsAssumption DEF Heights
    <3>2. canon[h] # NoBlock /\ Parent(canon[h]) = canon[h - 1]
      BY <1>2 DEF TipOnChain, Linked
    <3> QED BY <3>1, <3>2 DEF ChainInvariant, Uncut, PointersInvariant, PointersSound
  <2> QED BY <1>2, <2>2 DEF CanonicalChainLinked, TipOnChain
<1> QED BY <1>1, <1>2 DEF ChainInvariant, Ordered

\* The pointers, the tip, blockSubmitMu and the additions under way stay in step
\* with each other, for any block tree, whatever states its blocks lead to, and
\* any number of goroutines that submit, when the fast sync does not truncate
\* and has put no block above another block than its parent (addBlockInternal,
\* handleDirectExtension, performReorg, revertToHeight).
THEOREM ChainInvariantHolds ==
  ASSUME TruncateHeights = {}
  PROVE  Spec => []ChainInvariant
<1>1. Init => ChainInOrder
  BY ChainInit
<1>2. TypeInvariant /\ PointersInvariant /\ ChainInOrder /\ [Next]_vars => ChainInOrder'
  BY ChainStep
<1>3. Spec => []TypeInvariant
  BY TypeCorrect
<1>4. Init => PointersInvariant
  BY PointersInit
<1>5. TypeInvariant /\ PointersInvariant /\ [Next]_vars => PointersInvariant'
  BY PointersStep
<1>6. PointersInvariant /\ ChainInOrder => ChainInvariant
  BY DEF ChainInOrder, ChainInvariant
<1> QED BY <1>1, <1>2, <1>3, <1>4, <1>5, <1>6, PTL DEF Spec

\* What GetBlock(height) answers is then one chain up to the tip, whatever
\* reorganizations, rollbacks and races went before, until a sync fills a gap
\* above a tip that is not the block's parent.
THEOREM ChainStaysLinked ==
  ASSUME TruncateHeights = {}
  PROVE  Spec => []CanonicalChainLinked
<1>1. TypeInvariant /\ ChainInvariant => CanonicalChainLinked
  BY LinkedChain
<1>2. Spec => []TypeInvariant
  BY TypeCorrect
<1>3. Spec => []ChainInvariant
  BY ChainInvariantHolds
<1> QED BY <1>1, <1>2, <1>3, PTL

-----------------------------------------------------------------------------
(* Ancestors, and their work. *)

\* The ancestors of a block, up to the block itself.
LEMMA AncestorIs ==
  ASSUME NEW x \in AllBlocks, NEW h \in 0..Height(x)
  PROVE  /\ Height(x) \in Nat /\ h \in Nat
         /\ Ancestor(x, h) \in AllBlocks
         /\ Height(Ancestor(x, h)) = h
         /\ h >= 1 => /\ x \in Blocks /\ Ancestor(x, h) \in Blocks
                      /\ Path[Ancestor(x, h)] = SubSeq(Path[x], 1, h)
<1>1. Height(x) \in Nat /\ h \in Nat
  BY HeightInBound, BoundsAssumption DEF Heights, AllBlocks
<1>2. CASE h = 0
  BY <1>1, <1>2, BlocksAssumption DEF Ancestor, AllBlocks, Height
<1>3. CASE h >= 1
  <2>1. x \in Blocks
    BY <1>1, <1>3 DEF Height
  <2>2. Path[x] \in Seq(Blocks) /\ Height(x) = Len(Path[x])
    BY <2>1, ParentHeight
  <2>3. h \in 1..Len(Path[x])
    BY <1>1, <1>3, <2>2
  <2>4. Path[x][h] \in Blocks /\ Path[Path[x][h]] = SubSeq(Path[x], 1, h)
    BY <2>1, <2>2, <2>3, PathAssumption, ElementOfSeq
  <2>5. Len(SubSeq(Path[x], 1, h)) = h
    BY <2>2, <2>3, SubSeqProperties, LenProperties
  <2>6. Ancestor(x, h) = Path[x][h]
    BY <1>1, <1>3 DEF Ancestor
  <2> QED BY <1>1, <2>1, <2>4, <2>5, <2>6 DEF AllBlocks, Height
<1> QED BY <1>1, <1>2, <1>3

\* An ancestor of an ancestor is an ancestor.
LEMMA AncestorOfAncestor ==
  ASSUME NEW x \in AllBlocks, NEW k \in 0..Height(x), NEW h \in 0..k
  PROVE  Ancestor(Ancestor(x, k), h) = Ancestor(x, h)
<1>1. Height(x) \in Nat /\ k \in Nat
  BY AncestorIs
<1>2. CASE h = 0
  BY <1>2 DEF Ancestor
<1>3. CASE h >= 1
  <2>1. /\ x \in Blocks /\ Ancestor(x, k) \in Blocks
        /\ Path[Ancestor(x, k)] = SubSeq(Path[x], 1, k)
    BY <1>1, <1>3, AncestorIs
  <2>2. Path[x] \in Seq(Blocks) /\ Height(x) = Len(Path[x])
    BY <2>1, ParentHeight
  <2>3. SubSeq(Path[x], 1, k)[h] = Path[x][h]
    BY <1>1, <1>3, <2>2, SubSeqProperties
  <2> QED BY <1>1, <1>3, <2>1, <2>3 DEF Ancestor
<1> QED BY <1>1, <1>2, <1>3

\* A block is its own ancestor at its height.
LEMMA AncestorAtTop ==
  ASSUME NEW x \in AllBlocks
  PROVE  Ancestor(x, Height(x)) = x
<1>1. CASE x = Genesis
  BY <1>1, BlocksAssumption DEF Ancestor, Height
<1>2. CASE x \in Blocks
  BY <1>2, ParentHeight, PathAssumption DEF Ancestor, Height
<1> QED BY <1>1, <1>2 DEF AllBlocks

\* The parent is the ancestor one below.
LEMMA ParentIsAncestor ==
  ASSUME NEW x \in Blocks
  PROVE  Parent(x) = Ancestor(x, Height(x) - 1)
BY ParentHeight DEF Parent, Ancestor, Height

\* The ancestors of the parent are those of the block.
LEMMA AncestorOfParent ==
  ASSUME NEW x \in Blocks, NEW h \in 0..(Height(x) - 1)
  PROVE  Ancestor(Parent(x), h) = Ancestor(x, h)
<1>1. x \in AllBlocks /\ Height(x) - 1 \in 0..Height(x)
  BY ParentHeight DEF AllBlocks
<1> QED BY <1>1, ParentIsAncestor, AncestorOfAncestor

\* Ancestors at successive heights are parent and child.
LEMMA ParentOfAncestor ==
  ASSUME NEW x \in AllBlocks, NEW h \in 1..Height(x)
  PROVE  Parent(Ancestor(x, h)) = Ancestor(x, h - 1)
<1>1. /\ Height(x) \in Nat /\ h \in 0..Height(x) /\ h - 1 \in 0..h /\ h >= 1
  BY AncestorIs, HeightInBound, BoundsAssumption DEF Heights, AllBlocks
<1>2. Ancestor(x, h) \in Blocks /\ Height(Ancestor(x, h)) = h
  BY <1>1, AncestorIs
<1>3. Parent(Ancestor(x, h)) = Ancestor(Ancestor(x, h), h - 1)
  BY <1>2, ParentIsAncestor
<1> QED BY <1>1, <1>3, AncestorOfAncestor

\* The blocks of a branch, and how many they are.
LEMMA BranchIs ==
  ASSUME NEW x \in AllBlocks, NEW k \in Nat
  PROVE  /\ Branch(x, k) \in Seq(Blocks)
         /\ Len(Branch(x, k)) = IF k <= Height(x) THEN Height(x) - k ELSE 0
         /\ \A i \in 1..Len(Branch(x, k)) :
              /\ k + i \in 1..Height(x)
              /\ Branch(x, k)[i] = Ancestor(x, k + i)
<1>1. Branch(x, k) \in Seq(Blocks) /\ Height(x) \in Nat
  BY BranchType, HeightInBound, BoundsAssumption DEF AllBlocks, Heights
<1>2. CASE x \notin Blocks
  BY <1>1, <1>2 DEF Branch, Height
<1>3. CASE x \in Blocks
  <2>1. Path[x] \in Seq(Blocks) /\ Height(x) = Len(Path[x])
    BY <1>3, ParentHeight
  <2>2. Branch(x, k) = SubSeq(Path[x], k + 1, Len(Path[x]))
    BY <1>3 DEF Branch
  <2>3. CASE k < Height(x)
    <3>1. /\ Len(Branch(x, k)) = Height(x) - k
          /\ \A i \in 1..(Height(x) - k) : Branch(x, k)[i] = Path[x][k + i]
      <4> DEFINE s == Path[x]
      <4>1. s \in Seq(Blocks) /\ Len(s) \in Nat /\ k < Len(s) /\ Height(x) = Len(s)
        BY <2>1, <2>3, <1>1
      <4>2. Branch(x, k) = SubSeq(s, k + 1, Len(s))
        BY <2>2
      <4> HIDE DEF s
      <4>3. /\ Len(SubSeq(s, k + 1, Len(s))) = Len(s) - k
            /\ \A i \in 1..(Len(s) - k) : SubSeq(s, k + 1, Len(s))[i] = s[k + i]
        <5> DEFINE m == k + 1
        <5>1. m \in 1..(Len(s) + 1) /\ Len(s) \in m..Len(s) /\ m = k + 1
          BY <4>1
        <5> HIDE DEF m
        <5>2. /\ Len(SubSeq(s, m, Len(s))) = Len(s) - m + 1
              /\ \A i \in 1..(Len(s) - m + 1) : SubSeq(s, m, Len(s))[i] = s[m + i - 1]
          BY <4>1, <5>1, SubSeqProperties
        <5>3. Len(s) - m + 1 = Len(s) - k /\ \A i \in Int : m + i - 1 = k + i
          BY <4>1, <5>1
        <5> QED BY <5>1, <5>2, <5>3
      <4> QED BY <4>1, <4>2, <4>3 DEF s
    <3>2. \A i \in 1..(Height(x) - k) :
            k + i \in 1..Height(x) /\ Ancestor(x, k + i) = Path[x][k + i]
      BY <1>1, <2>3 DEF Ancestor
    <3> QED BY <1>1, <2>3, <3>1, <3>2
  <2>4. CASE k >= Height(x)
    <3>1. Branch(x, k) = <<>>
      <4>1. k + 1 > Len(Path[x])
        BY <1>1, <2>1, <2>4
      <4> QED BY <1>1, <2>1, <2>2, <4>1, SubSeqProperties
    <3> QED BY <1>1, <2>4, <3>1
  <2> QED BY <1>1, <2>3, <2>4
<1> QED BY <1>2, <1>3

\* The work of a chain of blocks, as a sum over its positions.
Works(chain) == [i \in DOMAIN chain |-> CalculateBlockWork(chain[i])]

LEMMA WorkIs ==
  ASSUME NEW chain \in Seq(Blocks)
  PROVE  /\ CalculateChainWork(chain) = SumFunctionOnSet(Works(chain), 1..Len(chain))
         /\ \A i \in 1..Len(chain) :
              /\ Works(chain)[i] = CalculateBlockWork(chain[i])
              /\ Works(chain)[i] \in Int
         /\ Summable(Works(chain), 1..Len(chain))
         /\ CalculateChainWork(chain) \in Int
<1>1. DOMAIN chain = 1..Len(chain) /\ Len(chain) \in Nat
  BY LenProperties
<1>2. DOMAIN Works(chain) = 1..Len(chain)
  BY <1>1 DEF Works
<1>3. CalculateChainWork(chain) = SumFunctionOnSet(Works(chain), 1..Len(chain))
  BY <1>2 DEF CalculateChainWork, SumFunction, Works
<1>4. ASSUME NEW i \in 1..Len(chain)
      PROVE  /\ Works(chain)[i] = CalculateBlockWork(chain[i])
             /\ Works(chain)[i] \in Int
  <2>1. chain[i] \in Blocks
    BY ElementOfSeq
  <2>2. CalculateBlockWork(chain[i]) \in Int
    BY <2>1, HeaderAssumption DEF CalculateBlockWork
  <2> QED BY <1>1, <2>2 DEF Works
<1>5. Summable(Works(chain), 1..Len(chain))
  <2>1. IsFiniteSet(1..Len(chain))
    BY <1>1, FS_Interval
  <2> QED BY <1>4, <2>1 DEF Summable
<1> QED BY <1>3, <1>4, <1>5, SumType

\* The work of a chain is that of an ancestor and of the branch above it.
LEMMA WorkUpTo ==
  ASSUME NEW x \in AllBlocks, NEW k \in 0..Height(x)
  PROVE  TotalWork(x) = TotalWork(Ancestor(x, k)) + CalculateChainWork(Branch(x, k))
<1> DEFINE n == Height(x) - k
           all == Works(Branch(x, 0))
           low == Works(Branch(Ancestor(x, k), 0))
           top == Works(Branch(x, k))
<1>1. /\ Height(x) \in Nat /\ k \in Nat /\ n \in Nat /\ k + n = Height(x)
      /\ Ancestor(x, k) \in AllBlocks /\ Height(Ancestor(x, k)) = k
  BY AncestorIs
<1>2. /\ Branch(x, 0) \in Seq(Blocks) /\ Len(Branch(x, 0)) = k + n
      /\ \A i \in 1..(k + n) : Branch(x, 0)[i] = Ancestor(x, i)
  BY <1>1, BranchIs
<1>3. /\ Branch(x, k) \in Seq(Blocks) /\ Len(Branch(x, k)) = n
      /\ \A i \in 1..n : Branch(x, k)[i] = Ancestor(x, k + i)
  BY <1>1, BranchIs
<1>4. /\ Branch(Ancestor(x, k), 0) \in Seq(Blocks)
      /\ Len(Branch(Ancestor(x, k), 0)) = k
      /\ \A i \in 1..k : Branch(Ancestor(x, k), 0)[i] = Ancestor(x, i)
  <2>1. /\ Branch(Ancestor(x, k), 0) \in Seq(Blocks)
        /\ Len(Branch(Ancestor(x, k), 0)) = k
        /\ \A i \in 1..k : Branch(Ancestor(x, k), 0)[i] = Ancestor(Ancestor(x, k), i)
    <3> DEFINE y == Ancestor(x, k)
    <3>1. y \in AllBlocks /\ Height(y) = k /\ k \in Nat
      BY <1>1
    <3> HIDE DEF y
    <3>2. /\ Branch(y, 0) \in Seq(Blocks) /\ Len(Branch(y, 0)) = k
          /\ \A i \in 1..k : Branch(y, 0)[i] = Ancestor(y, i)
      BY <3>1, BranchIs
    <3> QED BY <3>2 DEF y
  <2>2. \A i \in 1..k : i \in 0..k
    BY <1>1
  <2> QED BY <2>1, <2>2, AncestorOfAncestor
<1>5. /\ TotalWork(x) = SumFunctionOnSet(all, 1..(k + n))
      /\ \A i \in 1..(k + n) : /\ all[i] = CalculateBlockWork(Ancestor(x, i))
                               /\ all[i] \in Int
  BY <1>2, WorkIs DEF TotalWork
<1>6. /\ TotalWork(Ancestor(x, k)) = SumFunctionOnSet(low, 1..k)
      /\ Summable(low, 1..k)
      /\ \A i \in 1..k : low[i] = CalculateBlockWork(Ancestor(x, i))
  BY <1>4, WorkIs DEF TotalWork
<1>7. /\ CalculateChainWork(Branch(x, k)) = SumFunctionOnSet(top, 1..n)
      /\ \A i \in 1..n : /\ top[i] = CalculateBlockWork(Ancestor(x, k + i))
                         /\ top[i] \in Int
  BY <1>3, WorkIs
<1> HIDE DEF n, all, low, top
<1> DEFINE T == {m \in 0..n : SumFunctionOnSet(all, 1..(k + m)) =
                                SumFunctionOnSet(all, 1..k) + SumFunctionOnSet(top, 1..m)}
<1>8. Summable(all, 1..k) /\ SumFunctionOnSet(all, 1..k) \in Int
  <2>1. Summable(all, 1..k)
    <3>1. \A i \in 1..k : i \in 1..(k + n)
      BY <1>1
    <3>2. IsFiniteSet(1..k)
      BY <1>1, FS_Interval
    <3> QED BY <1>5, <3>1, <3>2 DEF Summable
  <2> QED BY <2>1, SumType
<1>9. \A m \in 0..n : SumFunctionOnSet(top, 1..m) \in Int
  <2>1. ASSUME NEW m \in 0..n PROVE Summable(top, 1..m)
    <3>1. 1 \in Int /\ m \in Int
      BY <1>1
    <3>2. IsFiniteSet(1..m)
      BY <3>1, FS_Interval
    <3>3. \A i \in 1..m : i \in 1..n
      BY <1>1
    <3> QED BY <1>7, <3>2, <3>3 DEF Summable
  <2> QED BY <2>1, SumType
<1>10. 0 \in T
  <2>1. 1..0 = {} /\ k + 0 = k /\ 0 \in 0..n
    BY <1>1
  <2>2. SumFunctionOnSet(top, 1..0) = 0
    BY <2>1, SumEmpty
  <2> QED BY <1>8, <2>1, <2>2
<1>11. ASSUME NEW m \in 0..n, m < n, m \in T PROVE m + 1 \in T
  <2>1. /\ m + 1 \in 1..n /\ k + (m + 1) \in 1..(k + n) /\ m \in Int /\ k + m \in Int
        /\ k + (m + 1) = (k + m) + 1 /\ 1 <= m + 1 /\ 1 <= (k + m) + 1
    BY <1>1, <1>11
  <2>2. SumFunctionOnSet(all, 1..((k + m) + 1)) =
          SumFunctionOnSet(all, 1..(k + m)) + all[(k + m) + 1]
    <3>1. \A i \in 1..((k + m) + 1) : all[i] \in Int
      BY <1>1, <1>5, <2>1
    <3> QED BY <2>1, <3>1, SumNext
  <2>3. SumFunctionOnSet(top, 1..(m + 1)) = SumFunctionOnSet(top, 1..m) + top[m + 1]
    <3>1. \A i \in 1..(m + 1) : top[i] \in Int
      BY <1>1, <1>7, <2>1
    <3> QED BY <2>1, <3>1, SumNext
  <2>4. all[(k + m) + 1] = top[m + 1] /\ top[m + 1] \in Int
    BY <1>5, <1>7, <2>1
  <2>5. SumFunctionOnSet(all, 1..(k + m)) =
          SumFunctionOnSet(all, 1..k) + SumFunctionOnSet(top, 1..m)
    BY <1>11
  <2>6. SumFunctionOnSet(top, 1..m) \in Int
    BY <1>9
  <2>7. SumFunctionOnSet(all, 1..(k + (m + 1))) =
          SumFunctionOnSet(all, 1..k) + SumFunctionOnSet(top, 1..(m + 1))
    BY <1>8, <2>1, <2>2, <2>3, <2>4, <2>5, <2>6
  <2> QED BY <2>1, <2>7
<1>12. n \in T
  <2>1. \A m \in 0..n : m \in T
    <3> HIDE DEF T
    <3> QED BY <1>1, <1>10, <1>11, UpTo
  <2> QED BY <1>1, <2>1
<1>13. SumFunctionOnSet(low, 1..k) = SumFunctionOnSet(all, 1..k)
  <2>1. \A i \in 1..k : low[i] = all[i]
    BY <1>1, <1>5, <1>6
  <2> QED BY <1>6, <1>8, <2>1, SumSame
<1> QED BY <1>5, <1>6, <1>7, <1>12, <1>13

\* Two blocks that grow from the same one are compared by their branches.
LEMMA WorkCompared ==
  ASSUME NEW x \in AllBlocks, NEW y \in AllBlocks,
         NEW k \in 0..Height(x), k \in 0..Height(y), Ancestor(x, k) = Ancestor(y, k),
         CalculateChainWork(Branch(y, k)) > CalculateChainWork(Branch(x, k))
  PROVE  TotalWork(y) > TotalWork(x)
<1>1. k \in Nat /\ Ancestor(x, k) \in AllBlocks
  BY AncestorIs
<1>2. /\ CalculateChainWork(Branch(x, k)) \in Int
      /\ CalculateChainWork(Branch(y, k)) \in Int
      /\ TotalWork(Ancestor(x, k)) \in Int
  BY <1>1, BranchIs, WorkIs DEF TotalWork
<1>3. /\ TotalWork(x) = TotalWork(Ancestor(x, k)) + CalculateChainWork(Branch(x, k))
      /\ TotalWork(y) = TotalWork(Ancestor(x, k)) + CalculateChainWork(Branch(y, k))
  BY WorkUpTo
<1> QED BY <1>2, <1>3

-----------------------------------------------------------------------------
(* What a new fork looks like. *)

\* What is stored is a block or genesis, and so are its ancestors.
LEMMA StoredAncestors ==
  ASSUME TypeInvariant, StoreClosed, NEW x \in stored, NEW h \in 0..Height(x)
  PROVE  x \in AllBlocks /\ Ancestor(x, h) \in stored
<1>1. x \in AllBlocks
  BY DEF TypeInvariant, TypeOK
<1>2. CASE x \in Blocks
  BY <1>1, <1>2 DEF StoreClosed
<1>3. CASE x = Genesis
  <2>1. h = 0
    BY <1>3, BlocksAssumption DEF Height
  <2> QED BY <1>1, <1>3, <2>1 DEF Ancestor
<1> QED BY <1>1, <1>2, <1>3 DEF AllBlocks

\* There is one block of height 1, and all others come after it.
LEMMA TrunkAncestor ==
  ASSUME OneTrunk, NEW x \in AllBlocks, NEW y \in AllBlocks,
         Height(x) >= 1, Height(y) >= 1
  PROVE  Ancestor(x, 1) = Ancestor(y, 1)
<1>1. Height(x) \in Nat /\ Height(y) \in Nat
  BY HeightInBound, BoundsAssumption DEF Heights, AllBlocks
<1>2. /\ Ancestor(x, 1) \in Blocks /\ Height(Ancestor(x, 1)) = 1
      /\ Ancestor(y, 1) \in Blocks /\ Height(Ancestor(y, 1)) = 1
  BY <1>1, AncestorIs
<1> QED BY <1>2 DEF OneTrunk

\* A fork that ProcessNewBlock opens leaves the active chain above genesis.
LEMMA ForkAboveGenesis ==
  ASSUME OneTrunk, TypeInvariant, PointersSound, overtaken = {}, StoreClosed,
         TipSound, latest = Genesis => stored = {Genesis},
         NEW b \in Blocks, b \notin stored,
         canon[Height(b)] # NoBlock \/ Parent(b) # latest,
         NEW k \in ForkPoints(Parent(b)), \A j \in ForkPoints(Parent(b)) : j <= k
  PROVE  k \in 1..(Height(b) - 1)
<1> DEFINE p == Parent(b)
<1>1. /\ p \in AllBlocks /\ Height(p) = Height(b) - 1 /\ Height(b) \in 1..MaxHeight
      /\ Height(p) \in Nat /\ b \in AllBlocks
  BY ParentHeight, BoundsAssumption DEF AllBlocks
<1>2. /\ k \in 0..Height(p) /\ Height(p) - k < MaxForkDepth
      /\ \A j \in k..Height(p) : Ancestor(p, j) \in stored
  BY DEF ForkPoints
<1>3. k # 0
  <2> SUFFICES ASSUME k = 0 PROVE FALSE
    OBVIOUS
  <2>1. p \in stored
    BY <1>1, <1>2, AncestorAtTop
  <2>2. latest \in stored /\ latest \in AllBlocks
    BY DEF TipSound, TypeInvariant, TypeOK
  <2>3. CASE latest = Genesis
    <3>1. stored = {Genesis}
      BY <2>3
    <3>2. p = latest /\ Height(b) = 1
      BY <1>1, <2>1, <2>3, <3>1, BlocksAssumption DEF Height
    <3>3. canon[1] # NoBlock => canon[1] \in stored \cap Blocks
      BY <1>1, <3>2 DEF PointersSound
    <3> QED BY <3>1, <3>2, <3>3, BlocksAssumption
  <2>4. CASE latest \in Blocks
    <3>1. CurrentHeight >= 1 /\ CurrentHeight \in Nat
      BY <2>4, ParentHeight, BoundsAssumption DEF CurrentHeight
    <3>2. canon[1] = Ancestor(latest, 1) /\ Ancestor(latest, 1) \in stored
      BY <2>2, <3>1, StoredAncestors DEF TipSound, CurrentHeight
    <3>3. CASE Height(b) = 1
      <4>1. Ancestor(b, 1) = b
        BY <1>1, <3>3, AncestorAtTop
      <4>2. Ancestor(b, 1) = Ancestor(latest, 1)
        BY <1>1, <2>2, <3>1, <3>3, TrunkAncestor DEF CurrentHeight
      <4> QED BY <3>2, <4>1, <4>2
    <3>4. CASE Height(b) # 1
      <4>1. Height(p) >= 1
        BY <1>1, <3>4
      <4>2. Ancestor(p, 1) = Ancestor(latest, 1)
        BY <1>1, <2>2, <3>1, <4>1, TrunkAncestor DEF CurrentHeight
      <4>3. Height(p) - 1 < MaxForkDepth
        BY <1>1, <1>2, BoundsAssumption
      <4>4. \A j \in 1..Height(p) : Ancestor(p, j) \in stored
        BY <1>1, <1>2
      <4>5. 1 \in ForkPoints(p)
        BY <1>1, <3>2, <4>1, <4>2, <4>3, <4>4 DEF ForkPoints
      <4> QED BY <4>5
    <3> QED BY <3>3, <3>4
  <2> QED BY <2>2, <2>3, <2>4 DEF AllBlocks
<1> QED BY <1>1, <1>2, <1>3

\* Such a fork fits the tip, when its candidate is the heavier branch.
LEMMA NewForkFits ==
  ASSUME OneTrunk, TypeInvariant, PointersSound, overtaken = {}, StoreClosed,
         TipSound, latest = Genesis => stored = {Genesis},
         NEW b \in Blocks, b \notin stored,
         canon[Height(b)] # NoBlock \/ Parent(b) # latest,
         NEW k \in ForkPoints(Parent(b)), \A j \in ForkPoints(Parent(b)) : j <= k,
         WorkDiff(NewFork(b, k)) > 0
  PROVE  ForkFits(NewFork(b, k), latest)
<1> DEFINE f == NewFork(b, k)
           n == Height(b)
<1>1. /\ n \in Nat /\ b \in AllBlocks /\ k \in Nat /\ k >= 1 /\ k < n
  BY ForkAboveGenesis, ParentHeight, BoundsAssumption DEF AllBlocks
<1>2. latest \in stored /\ latest \in AllBlocks /\ Height(latest) \in Nat
  BY HeightInBound, BoundsAssumption DEF TipSound, TypeInvariant, TypeOK, AllBlocks, Heights
<1>3. f.height = k /\ f.active = Branch(latest, k) /\ f.cand = Branch(b, k)
  BY DEF NewFork
<1>4. /\ Branch(b, k) \in Seq(Blocks)
      /\ Len(Branch(b, k)) = n - k
      /\ \A i \in 1..(n - k) : /\ k + i \in 1..n
                               /\ Branch(b, k)[i] = Ancestor(b, k + i)
  BY <1>1, BranchIs
<1>5. canon[k] = Ancestor(b, k)
  <2>1. canon[k] = Ancestor(Parent(b), k) /\ k \in 0..(n - 1)
    BY <1>1 DEF ForkPoints
  <2> QED BY <2>1, AncestorOfParent
<1>6. WorkDiff(f) = CalculateChainWork(Branch(b, k)) - CalculateChainWork(Branch(latest, k))
  BY <1>3 DEF WorkDiff
<1> HIDE DEF f, n
<1>7. Len(f.cand) = n - k /\ n - k >= 1 /\ n - k \in Nat
  BY <1>1, <1>3, <1>4
<1>8. ASSUME NEW i \in 1..Len(f.cand)
      PROVE  f.cand[i] = Ancestor(b, k + i) /\ Height(f.cand[i]) = k + i
  <2>1. f.cand[i] = Ancestor(b, k + i) /\ k + i \in 0..Height(b)
    BY <1>1, <1>3, <1>4, <1>7 DEF n
  <2> QED BY <1>1, <2>1, AncestorIs
<1>9. ASSUME NEW i \in 1..Len(f.cand)
      PROVE  Parent(f.cand[i]) = Ancestor(b, k + (i - 1))
  <2>1. k + i \in 1..Height(b) /\ (k + i) - 1 = k + (i - 1)
    BY <1>1, <1>4, <1>7 DEF n
  <2> QED BY <1>1, <1>8, <2>1, ParentOfAncestor
<1>10. \A i \in 2..Len(f.cand) : Parent(f.cand[i]) = f.cand[i - 1]
  <2> SUFFICES ASSUME NEW i \in 2..Len(f.cand) PROVE Parent(f.cand[i]) = f.cand[i - 1]
    OBVIOUS
  <2>1. i \in 1..Len(f.cand) /\ i - 1 \in 1..Len(f.cand)
    BY <1>7
  <2> QED BY <1>8, <1>9, <2>1
<1>11. ASSUME k <= Height(latest)
       PROVE  /\ Parent(f.cand[1]) = Ancestor(latest, k)
              /\ TotalWork(f.cand[Len(f.cand)]) > TotalWork(latest)
  <2>1. canon[k] = Ancestor(latest, k)
    BY <1>1, <1>2, <1>11 DEF TipSound, CurrentHeight
  <2>2. 1 \in 1..Len(f.cand) /\ Len(f.cand) \in 1..Len(f.cand)
    BY <1>7
  <2>3. Parent(f.cand[1]) = Ancestor(b, k)
    <3>1. k + (1 - 1) = k
      BY <1>1
    <3> QED BY <1>9, <2>2, <3>1
  <2>4. f.cand[Len(f.cand)] = b
    <3>1. k + Len(f.cand) = Height(b)
      BY <1>1, <1>7 DEF n
    <3> QED BY <1>1, <1>8, <2>2, <3>1, AncestorAtTop
  <2>5. CalculateChainWork(Branch(b, k)) > CalculateChainWork(Branch(latest, k))
    <3>1. /\ CalculateChainWork(Branch(b, k)) \in Int
          /\ CalculateChainWork(Branch(latest, k)) \in Int
      BY <1>1, <1>2, BranchIs, WorkIs
    <3> QED BY <1>6, <3>1 DEF f
  <2>6. k \in 0..Height(latest) /\ k \in 0..Height(b)
    BY <1>1, <1>2, <1>11 DEF n
  <2>7. TotalWork(b) > TotalWork(latest)
    BY <1>1, <1>2, <1>5, <2>1, <2>5, <2>6, WorkCompared
  <2> QED BY <1>5, <2>1, <2>3, <2>4, <2>7
<1>12. \A i \in 1..Len(f.cand) : Height(f.cand[i]) = f.height + i
  BY <1>3, <1>8
<1>13. ForkFits(f, latest)
  BY <1>1, <1>2, <1>3, <1>7, <1>10, <1>11, <1>12 DEF ForkFits
<1> QED BY <1>13 DEF f

-----------------------------------------------------------------------------
(* The steps of the goroutine at work. *)

\* No goroutine but t is at work.
Alone(t) == \A u \in Threads \ {t} : pc[u] = "idle"

LEMMA GotoAlone ==
  ASSUME TypeOK, NEW t \in Threads, NEW p, Goto(t, p)
  PROVE  pc'[t] = p /\ (Alone(t) => Alone(t)')
BY DEF TypeOK, Goto, Alone

LEMMA AtWorkAlone ==
  ASSUME OneAtATime, NEW t \in Threads, pc[t] # "idle"
  PROVE  Alone(t)
BY DEF OneAtATime, Alone

\* It is enough to look at the goroutine at work.
LEMMA SequentialFrom ==
  ASSUME NEW t \in Threads, Alone(t)', SequentialPhase(t)', pc'[t] # "stuck",
         StoreClosed', TipSound', FreshStore', FlagAttended', StateKept'
  PROVE  SequentialInvariant'
<1>1. NoSelfDeadlock'
  BY DEF NoSelfDeadlock, Alone
<1>2. ASSUME NEW u \in Threads PROVE SequentialPhase(u)'
  <2>1. CASE u = t
    BY <2>1
  <2>2. CASE pc'[u] = "idle"
    BY <2>2 DEF SequentialPhase, ChildOfTip, Adding, Committing
  <2> QED BY <2>1, <2>2 DEF Alone
<1> QED BY <1>1, <1>2 DEF SequentialInvariant

\* A step that leaves the chain and the state alone.
LEMMA SequentialAside ==
  ASSUME SequentialInvariant, NEW t \in Threads, Alone(t), Alone(t)',
         UNCHANGED <<stored, canon, latest, state>>,
         pc[t] \notin Committing, pc'[t] \notin Committing \cup {"stuck"},
         processingReorgBlock' => pc'[t] \in Adding,
         pc'[t] \in Adding => ret'[t] # "direct",
         SequentialPhase(t)'
  PROVE  SequentialInvariant'
<1>1. StoreClosed' /\ TipSound' /\ FreshStore'
  BY DEF SequentialInvariant, StoreClosed, TipSound, FreshStore, CurrentHeight, Alone,
         Committing
<1>2. FlagAttended'
  BY DEF FlagAttended, Alone, Adding, Committing
<1>3. \A u \in Threads : pc[u] \notin Committing /\ pc'[u] \notin Committing
  BY DEF Alone, Committing
<1>4. StateKept'
  BY <1>3 DEF SequentialInvariant, StateKept, StateMatchesTip
<1> QED BY <1>1, <1>2, <1>4, SequentialFrom

\* The flag is down when nobody is adding a block.
LEMMA FlagDown ==
  ASSUME SequentialInvariant, NEW t \in Threads, Alone(t), pc[t] \notin Adding
  PROVE  ~processingReorgBlock
BY DEF SequentialInvariant, FlagAttended, Alone, Adding, Committing

\* A control state about which the invariant says nothing.
Plain == {"idle", "process", "orphan", "adopt", "resolve", "keep", "scan"}

LEMMA SequentialPlain ==
  ASSUME TypeInvariant, SequentialInvariant, NEW t \in Threads, Alone(t), Alone(t)',
         UNCHANGED <<stored, canon, latest, state>>, pc[t] \notin Adding,
         UNCHANGED processingReorgBlock, pc'[t] \in Plain
  PROVE  SequentialInvariant'
<1>1. SequentialPhase(t)'
  BY DEF SequentialPhase, ChildOfTip, Adding, Committing, Plain
<1>2. /\ pc'[t] \notin Adding /\ pc'[t] \notin Committing \cup {"stuck"}
      /\ pc[t] \notin Committing
  BY DEF Plain, Adding, Committing
<1>3. ~processingReorgBlock'
  BY FlagDown
<1> QED BY <1>1, <1>2, <1>3, SequentialAside

\* A block is handed in: the flag is down, so it goes to the manager.
LEMMA SequentialAddBlock ==
  ASSUME TypeInvariant, SequentialInvariant, OneAtATime', NEW t \in Threads,
         NEW b \in Blocks, AddBlock(t, b)
  PROVE  SequentialInvariant'
<1>1. pc[t] = "idle" /\ UNCHANGED <<stored, canon, latest, state, processingReorgBlock>>
  BY DEF AddBlock, chainVars, lockVars
<1>2. Goto(t, "submit") \/ Goto(t, "process")
  BY DEF AddBlock
<1>3. pc'[t] # "idle" /\ \A u \in Threads \ {t} : pc'[u] = pc[u]
  BY <1>2 DEF Goto, TypeInvariant, TypeOK
<1>4. Alone(t)' /\ Alone(t)
  BY <1>3 DEF OneAtATime, Alone
<1>5. ~processingReorgBlock
  BY <1>1, <1>4, FlagDown DEF Adding, Committing
<1>6. pc'[t] = "process"
  BY <1>5, GotoAlone DEF AddBlock, TypeInvariant
<1> QED BY <1>1, <1>4, <1>6, SequentialPlain DEF Plain, Adding, Committing

\* The steps that lead to a plain control state and touch nothing else.
LEMMA SequentialQuiet ==
  ASSUME TypeInvariant, SequentialInvariant, NEW t \in Threads, Alone(t),
         \/ Return(t) \/ AddOrphanBlock(t) \/ TryResolveOrphans(t) \/ KeepFork(t)
  PROVE  SequentialInvariant'
<1>1. /\ UNCHANGED <<stored, canon, latest, state, processingReorgBlock>>
      /\ pc[t] \notin Adding
  BY DEF Return, AddOrphanBlock, TryResolveOrphans, KeepFork, chainVars, lockVars,
         Adding, Committing
<1>2. \E p \in Plain : Goto(t, p)
  BY DEF Return, ForgetLocals, AddOrphanBlock, TryResolveOrphans, KeepFork, Home, Plain
<1>3. Alone(t)' /\ pc'[t] \in Plain
  BY <1>2, GotoAlone DEF TypeInvariant
<1> QED BY <1>1, <1>3, SequentialPlain

\* The ways out of ProcessNewBlock, with what led there.
LEMMA ConsiderForkCases ==
  ASSUME TypeOK, NEW t \in Threads, NEW b \in Blocks, NEW margin \in Nat,
         ConsiderFork(t, b, margin)
  PROVE  /\ UNCHANGED <<ret, processingReorgBlock>>
         /\ \/ \E p \in Plain : Goto(t, p)
            \/ \E k \in ForkPoints(Parent(b)) :
                 /\ \A j \in ForkPoints(Parent(b)) : j <= k
                 /\ fork' = [fork EXCEPT ![t] = NewFork(b, k)]
                 /\ WorkDiff(NewFork(b, k)) > margin
                 /\ Goto(t, "reorg")
<1>1. UNCHANGED <<ret, processingReorgBlock>>
  BY DEF ConsiderFork
<1>2. CASE Goto(t, "orphan")
  BY <1>1, <1>2 DEF Plain
<1>3. ASSUME NEW k \in ForkPoints(Parent(b)),
             \A j \in ForkPoints(Parent(b)) : j <= k,
             IF ActiveBuildable(k)
               THEN LET f == NewFork(b, k)
                    IN /\ fork' = [fork EXCEPT ![t] = f]
                       /\ Goto(t, IF WorkDiff(f) > margin THEN "reorg" ELSE "keep")
               ELSE Goto(t, "process") /\ UNCHANGED fork
      PROVE  \/ \E p \in Plain : Goto(t, p)
             \/ /\ fork' = [fork EXCEPT ![t] = NewFork(b, k)]
                /\ WorkDiff(NewFork(b, k)) > margin
                /\ Goto(t, "reorg")
  BY <1>3 DEF Plain
<1> QED BY <1>1, <1>2, <1>3 DEF ConsiderFork

LEMMA ProcessNewBlockCases ==
  ASSUME TypeOK, NEW t \in Threads, ProcessNewBlock(t)
  PROVE  \E b \in Blocks :
           /\ blk' = [blk EXCEPT ![t] = b]
           /\ \/ UNCHANGED processingReorgBlock /\ \E p \in Plain : Goto(t, p)
              \/ /\ b \notin stored
                 /\ canon[Height(b)] # NoBlock \/ Parent(b) # latest
                 /\ UNCHANGED processingReorgBlock
                 /\ ConsiderFork(t, b, 0) \/ ConsiderFork(t, b, MinWorkForReorg)
              \/ /\ Parent(b) = latest
                 /\ ret' = [ret EXCEPT ![t] = "extend"]
                 /\ Goto(t, "submit")
<1> DEFINE b == Head(queue[t])
<1>1. b \in Blocks
  BY HeadTailProperties DEF TypeOK, ProcessNewBlock
<1>2. blk' = [blk EXCEPT ![t] = b]
  BY DEF ProcessNewBlock
<1>3. \/ UNCHANGED processingReorgBlock /\ \E p \in {"process", "orphan", "adopt"} : Goto(t, p)
      \/ /\ b \notin stored /\ canon[Height(b)] # NoBlock
         /\ ConsiderFork(t, b, 0)
      \/ /\ b \notin stored /\ Parent(b) # latest
         /\ ConsiderFork(t, b, MinWorkForReorg)
      \/ Parent(b) = latest /\ ExtendChain(t, b)
  BY DEF ProcessNewBlock, HandleSameHeightFork
<1> HIDE DEF b
<1>4. ASSUME NEW m, ConsiderFork(t, b, m) PROVE UNCHANGED processingReorgBlock
  BY <1>4 DEF ConsiderFork
<1>5. ExtendChain(t, b) =>
        \/ UNCHANGED processingReorgBlock /\ Goto(t, "process")
        \/ ret' = [ret EXCEPT ![t] = "extend"] /\ Goto(t, "submit")
  BY DEF ExtendChain
<1>6. \/ UNCHANGED processingReorgBlock /\ \E p \in Plain : Goto(t, p)
      \/ /\ b \notin stored
         /\ canon[Height(b)] # NoBlock \/ Parent(b) # latest
         /\ UNCHANGED processingReorgBlock
         /\ ConsiderFork(t, b, 0) \/ ConsiderFork(t, b, MinWorkForReorg)
      \/ /\ Parent(b) = latest
         /\ ret' = [ret EXCEPT ![t] = "extend"]
         /\ Goto(t, "submit")
  BY <1>3, <1>4, <1>5 DEF Plain
<1> QED BY <1>1, <1>2, <1>6 DEF b

\* A block of the queue is looked at.
LEMMA SequentialProcessNewBlock ==
  ASSUME OneTrunk, TypeInvariant, PointersSound, overtaken = {}, SequentialInvariant,
         NEW t \in Threads, Alone(t), ProcessNewBlock(t)
  PROVE  SequentialInvariant'
<1> USE DEF TypeInvariant
<1>1. /\ UNCHANGED <<stored, canon, latest, state>>
      /\ pc[t] = "process" /\ pc[t] \notin Adding /\ pc[t] \notin Committing
  BY DEF ProcessNewBlock, chainVars, Adding, Committing
<1>2. PICK b \in Blocks :
        /\ blk' = [blk EXCEPT ![t] = b]
        /\ \/ UNCHANGED processingReorgBlock /\ \E p \in Plain : Goto(t, p)
           \/ /\ b \notin stored
              /\ canon[Height(b)] # NoBlock \/ Parent(b) # latest
              /\ UNCHANGED processingReorgBlock
              /\ ConsiderFork(t, b, 0) \/ ConsiderFork(t, b, MinWorkForReorg)
           \/ /\ Parent(b) = latest
              /\ ret' = [ret EXCEPT ![t] = "extend"]
              /\ Goto(t, "submit")
  BY ProcessNewBlockCases
<1>3. ASSUME UNCHANGED processingReorgBlock, NEW p \in Plain, Goto(t, p)
      PROVE  SequentialInvariant'
  BY <1>1, <1>3, GotoAlone, SequentialPlain
<1>4. ASSUME b \notin stored, canon[Height(b)] # NoBlock \/ Parent(b) # latest,
             UNCHANGED processingReorgBlock,
             NEW m \in Nat, ConsiderFork(t, b, m)
      PROVE  SequentialInvariant'
  <2>1. \/ \E p \in Plain : Goto(t, p)
        \/ \E k \in ForkPoints(Parent(b)) :
             /\ \A j \in ForkPoints(Parent(b)) : j <= k
             /\ fork' = [fork EXCEPT ![t] = NewFork(b, k)]
             /\ WorkDiff(NewFork(b, k)) > m
             /\ Goto(t, "reorg")
    BY <1>4, ConsiderForkCases
  <2>2. ASSUME NEW k \in ForkPoints(Parent(b)),
               \A j \in ForkPoints(Parent(b)) : j <= k,
               fork' = [fork EXCEPT ![t] = NewFork(b, k)],
               WorkDiff(NewFork(b, k)) > m, Goto(t, "reorg")
        PROVE  SequentialInvariant'
    <3>1. pc'[t] = "reorg" /\ Alone(t)'
      BY <2>2, GotoAlone
    <3>2. k \in Nat /\ WorkDiff(NewFork(b, k)) \in Int
      <4>1. k \in Nat
        BY ParentHeight, HeightInBound, BoundsAssumption DEF ForkPoints, Heights
      <4>2. latest \in AllBlocks
        BY DEF SequentialInvariant, TipSound, TypeOK
      <4>3. /\ CalculateChainWork(Branch(b, k)) \in Int
            /\ CalculateChainWork(Branch(latest, k)) \in Int
        BY <4>1, <4>2, BranchIs, WorkIs DEF AllBlocks
      <4> QED BY <4>1, <4>3 DEF WorkDiff, NewFork
    <3>3. WorkDiff(NewFork(b, k)) > 0
      BY <1>4, <2>2, <3>2
    <3>4. ForkFits(NewFork(b, k), latest)
      <4>1. latest = Genesis => stored = {Genesis}
        BY <1>1 DEF SequentialInvariant, FreshStore, Alone
      <4> QED BY <1>4, <2>2, <3>3, <4>1, NewForkFits DEF SequentialInvariant
    <3>5. fork'[t] = NewFork(b, k)
      BY <2>2 DEF TypeOK
    <3>6. ForkFits(fork[t], latest)'
      BY <1>1, <3>4, <3>5 DEF ForkFits
    <3>7. SequentialPhase(t)'
      BY <3>1, <3>6 DEF SequentialPhase, ChildOfTip, Adding, Committing
    <3>8. ~processingReorgBlock'
      BY <1>1, <1>4, FlagDown
    <3> QED BY <1>1, <3>1, <3>7, <3>8, SequentialAside DEF Adding, Committing
  <2> QED BY <1>3, <1>4, <2>1, <2>2
<1>5. CASE /\ Parent(b) = latest
           /\ ret' = [ret EXCEPT ![t] = "extend"]
           /\ Goto(t, "submit")
  <2>1. pc'[t] = "submit" /\ Alone(t)'
    BY <1>5, GotoAlone
  <2>2. blk'[t] = b /\ ret'[t] = "extend"
    BY <1>2, <1>5 DEF TypeOK
  <2>3. SequentialPhase(t)'
    BY <1>1, <1>5, <2>1, <2>2 DEF SequentialPhase, ChildOfTip, Adding, Committing
  <2> QED BY <1>1, <2>1, <2>2, <2>3, SequentialAside DEF Adding, Committing
<1>6. 0 \in Nat /\ MinWorkForReorg \in Nat
  BY BoundsAssumption
<1> QED BY <1>2, <1>3, <1>4, <1>5, <1>6

\* performReorg starts from the tip it is to replace.
LEMMA SequentialStartReorg ==
  ASSUME TypeInvariant, SequentialInvariant, NEW t \in Threads, Alone(t),
         StartReorg(t)
  PROVE  SequentialInvariant'
<1> USE DEF TypeInvariant
<1>1. /\ UNCHANGED <<stored, canon, latest, state, processingReorgBlock, fork>>
      /\ pc[t] = "reorg" /\ pc[t] \notin Adding
  BY DEF StartReorg, chainVars, Adding, Committing
<1>2. CASE Goto(t, Home(t))
  <2>1. Alone(t)' /\ pc'[t] \in Plain
    BY <1>2, GotoAlone DEF Home, Plain
  <2> QED BY <1>1, <2>1, SequentialPlain
<1>3. CASE /\ ~(Len(fork[t].active) > MaxReorgDepth)
           /\ step' = [step EXCEPT ![t] = Len(fork[t].active)]
           /\ from' = [from EXCEPT ![t] = latest]
           /\ Goto(t, "disconnect")
  <2> DEFINE f == fork[t]
  <2>1. pc'[t] = "disconnect" /\ Alone(t)'
    BY <1>3, GotoAlone
  <2>2. ForkFits(f, latest)
    BY <1>1 DEF SequentialInvariant, SequentialPhase
  <2>3. f \in Forks
    BY <1>1 DEF LocalsOK, Reorganizing
  <2>4. /\ latest \in AllBlocks /\ Height(latest) \in Nat /\ f.height \in Nat
        /\ f.active = Branch(latest, f.height)
    BY <2>2, <2>3, HeightInBound, BoundsAssumption
    DEF ForkFits, TypeOK, Forks, Heights, AllBlocks
  <2>5. Low(f, latest) + Len(f.active) = Height(latest) /\ Len(f.active) \in Nat
    BY <2>4, BranchIs DEF Low
  <2>6. step'[t] = Len(f.active) /\ from'[t] = latest
    BY <1>3 DEF TypeOK
  <2>7. OnActive(f, latest, Len(f.active))
    BY <2>4, <2>5, AncestorAtTop DEF OnActive
  <2>8. Len(f.active) <= MaxReorgDepth
    BY <1>3, <2>5, BoundsAssumption
  <2>9. ReorgInOrder(t)'
    <3>1. ForkFits(fork[t], from[t])'
      BY <1>1, <2>2, <2>6 DEF ForkFits
    <3>2. OnActive(fork[t], from[t], step[t])'
      BY <1>1, <2>6, <2>7 DEF OnActive
    <3> QED BY <1>1, <2>1, <2>8, <3>1, <3>2 DEF ReorgInOrder, Adding, Committing
  <2>10. SequentialPhase(t)'
    BY <2>1, <2>9 DEF SequentialPhase, ChildOfTip, Committing
  <2>11. ~processingReorgBlock'
    BY <1>1, FlagDown
  <2> QED BY <1>1, <2>1, <2>10, <2>11, SequentialAside DEF Adding, Committing
<1> QED BY <1>2, <1>3 DEF StartReorg

\* revertToHeight to below the tip goes to the ancestor there, and to its state:
\* the canonical blocks are the ancestors of the tip, and none pays fees.
LEMMA RevertDown ==
  ASSUME TypeInvariant, StoreClosed, TipSound, FeePaying = {},
         NEW h \in Nat, h >= 1, h < CurrentHeight,
         RevertToHeight(h), UNCHANGED <<stored, canon>>
  PROVE  /\ latest' = Ancestor(latest, h) /\ latest' \in Blocks
         /\ Height(latest') = h
         /\ ~RevertFails(h)
         /\ state' = Root(latest')
         /\ StoreClosed' /\ TipSound' /\ FreshStore'
<1>1. /\ latest \in stored /\ latest \in AllBlocks /\ CurrentHeight = Height(latest)
      /\ CurrentHeight \in Nat
  BY HeightInBound, BoundsAssumption
  DEF TipSound, TypeInvariant, TypeOK, CurrentHeight, Heights, AllBlocks
<1>2. \A k \in 0..CurrentHeight : canon[k] = Ancestor(latest, k) /\ canon[k] \in stored
  BY <1>1, StoredAncestors DEF TipSound
<1>3. ~ReplayBlocked(h)
  <2>1. \A k \in 1..h : k \in 0..CurrentHeight
    BY <1>1
  <2> QED BY <1>2, <2>1 DEF ReplayBlocked
<1>4. \A k \in 1..h : /\ canon[k] \notin FeePaying
                      /\ Root(Parent(canon[k])) = Root(canon[k - 1])
  <2> SUFFICES ASSUME NEW k \in 1..h PROVE Parent(canon[k]) = canon[k - 1]
    OBVIOUS
  <2>1. k \in 1..Height(latest) /\ k \in 0..CurrentHeight /\ k - 1 \in 0..CurrentHeight
    BY <1>1
  <2> QED BY <1>1, <1>2, <2>1, ParentOfAncestor
<1>5. latest' = canon[h] /\ state' = Root(canon[h]) /\ ~RevertFails(h)
  <2>1. ~(h >= CurrentHeight) /\ h # 0 /\ ~(h > CurrentHeight)
    BY <1>1
  <2> QED BY <1>3, <1>4, <2>1 DEF RevertToHeight, ReplayedState, RevertFails
<1>6. h \in 0..Height(latest)
  BY <1>1
<1>7. /\ latest' = Ancestor(latest, h) /\ latest' \in Blocks /\ latest' \in stored
      /\ Height(latest') = h
  BY <1>1, <1>2, <1>5, <1>6, AncestorIs
<1>8. StoreClosed'
  BY DEF StoreClosed
<1>9. TipSound'
  <2>1. \A k \in 0..h : canon[k] = Ancestor(latest', k)
    <3> SUFFICES ASSUME NEW k \in 0..h PROVE canon[k] = Ancestor(latest', k)
      OBVIOUS
    <3>1. k \in 0..CurrentHeight
      BY <1>1
    <3> QED BY <1>1, <1>2, <1>6, <1>7, <3>1, AncestorOfAncestor
  <2> QED BY <1>7, <2>1, BlocksAssumption DEF TipSound, CurrentHeight
<1>10. FreshStore'
  BY <1>7, BlocksAssumption DEF FreshStore
<1> QED BY <1>5, <1>7, <1>8, <1>9, <1>10

\* A step of performReorg outside addBlockInternal that goes on with the
\* reorganization.
Walking == {"disconnect", "connect", "undo", "rollback"}

LEMMA SequentialWalk ==
  ASSUME TypeInvariant, SequentialInvariant, NEW t \in Threads, Alone(t), Alone(t)',
         pc[t] \in Walking, pc'[t] \in Walking,
         UNCHANGED processingReorgBlock,
         StoreClosed', TipSound', FreshStore', state' = Root(latest'), ReorgInOrder(t)'
  PROVE  SequentialInvariant'
<1>1. ~processingReorgBlock'
  BY FlagDown DEF Walking, Adding, Committing
<1>2. FlagAttended'
  BY <1>1 DEF FlagAttended, Alone, Walking, Adding, Committing
<1>3. StateKept'
  BY DEF StateKept, StateMatchesTip, Alone, Walking, Committing
<1>4. SequentialPhase(t)'
  BY DEF SequentialPhase, ChildOfTip, Walking, Committing
<1> QED BY <1>2, <1>3, <1>4, SequentialFrom DEF Walking

\* While nobody commits, the state is that of the tip.
LEMMA StateOfTip ==
  ASSUME SequentialInvariant, NEW t \in Threads, Alone(t), pc[t] \notin Committing
  PROVE  state = Root(latest)
BY DEF SequentialInvariant, StateKept, StateMatchesTip, Alone, Committing

\* While nobody commits, a step that leaves the store and the tip alone keeps
\* what is said of them.
LEMMA ChainKept ==
  ASSUME SequentialInvariant, NEW t \in Threads, Alone(t), pc[t] \notin Committing,
         UNCHANGED <<stored, canon, latest>>
  PROVE  StoreClosed' /\ TipSound' /\ FreshStore'
BY DEF SequentialInvariant, StoreClosed, TipSound, FreshStore, CurrentHeight, Alone,
       Committing

\* The fork and the positions of a reorganization under way.
LEMMA ReorgLocals ==
  ASSUME TypeInvariant, NEW t \in Threads, ForkFits(fork[t], from[t]),
         fork[t] \in Forks
  PROVE  /\ from[t] \in AllBlocks /\ Height(from[t]) \in Nat
         /\ fork[t].height \in Nat /\ fork[t].height >= 1
         /\ fork[t].active \in Seq(Blocks) /\ fork[t].cand \in Seq(Blocks)
         /\ Len(fork[t].active) \in Nat /\ Len(fork[t].cand) \in Nat
         /\ Low(fork[t], from[t]) \in Nat
         /\ Low(fork[t], from[t]) + Len(fork[t].active) = Height(from[t])
         /\ \A i \in 1..Len(fork[t].active) :
              /\ Low(fork[t], from[t]) = fork[t].height
              /\ fork[t].height + i \in 1..Height(from[t])
              /\ fork[t].active[i] = Ancestor(from[t], fork[t].height + i)
<1> DEFINE f == fork[t]
           x == from[t]
<1>1. x \in AllBlocks /\ Height(x) \in Nat
  BY HeightInBound, BoundsAssumption DEF ForkFits, TypeInvariant, TypeOK, Heights, AllBlocks
<1>2. /\ f.height \in Nat /\ f.height >= 1
      /\ f.active \in Seq(Blocks) /\ f.cand \in Seq(Blocks)
      /\ Len(f.active) \in Nat /\ Len(f.cand) \in Nat
  BY BoundsAssumption, LenProperties DEF Forks, Heights, ForkFits
<1>3. f.active = Branch(x, f.height)
  BY DEF ForkFits
<1> HIDE DEF f, x
<1>4. /\ Len(f.active) = IF f.height <= Height(x) THEN Height(x) - f.height ELSE 0
      /\ \A i \in 1..Len(f.active) :
           /\ f.height + i \in 1..Height(x)
           /\ f.active[i] = Ancestor(x, f.height + i)
  BY <1>1, <1>2, <1>3, BranchIs
<1>5. Low(f, x) = IF f.height <= Height(x) THEN f.height ELSE Height(x)
  BY DEF Low
<1>6. /\ Low(f, x) \in Nat
      /\ Low(f, x) + Len(f.active) = Height(x)
      /\ Len(f.active) >= 1 => Low(f, x) = f.height
  BY <1>1, <1>2, <1>4, <1>5
<1>7. \A i \in 1..Len(f.active) : Len(f.active) >= 1
  BY <1>2
<1> QED BY <1>1, <1>2, <1>4, <1>6, <1>7 DEF f, x

\* A block of the active branch is disconnected.
LEMMA SequentialDisconnect ==
  ASSUME FeePaying = {}, TypeInvariant, SequentialInvariant,
         NEW t \in Threads, Alone(t), DisconnectBlock(t)
  PROVE  SequentialInvariant'
<1> USE DEF TypeInvariant
<1> DEFINE f == fork[t]
           x == from[t]
           low == Low(f, x)
           i == step[t]
<1>1. /\ pc[t] = "disconnect"
      /\ UNCHANGED <<stored, canon, processingReorgBlock, fork, from>>
  BY DEF DisconnectBlock, storeVars, lockVars
<1>2. ReorgInOrder(t) /\ StoreClosed /\ TipSound
  BY <1>1 DEF SequentialInvariant, SequentialPhase
<1>3. ForkFits(f, x) /\ Len(f.active) <= MaxReorgDepth /\ OnActive(f, x, i)
  BY <1>1, <1>2 DEF ReorgInOrder
<1>4. f \in Forks /\ i \in 0..Len(f.active)
  BY <1>1 DEF LocalsOK, Reorganizing
<1>5. state = Root(latest)
  BY <1>1, StateOfTip DEF Committing
<1>6. CASE i = 0
  <2>1. step'[t] = 1 /\ pc'[t] = "connect" /\ Alone(t)' /\ UNCHANGED <<latest, state>>
    BY <1>6, GotoAlone DEF DisconnectBlock, TypeOK
  <2>2. OnCandidate(f, x, 0)
    BY <1>3, <1>6 DEF OnCandidate
  <2>3. ReorgInOrder(t)'
    <3>1. ForkFits(fork[t], from[t])'
      BY <1>1, <1>3 DEF ForkFits
    <3>2. OnCandidate(fork[t], from[t], step[t] - 1)'
      BY <1>1, <2>1, <2>2 DEF OnCandidate, OnActive
    <3> QED BY <1>1, <1>3, <2>1, <3>1, <3>2 DEF ReorgInOrder, Adding, Committing
  <2>4. StoreClosed' /\ TipSound' /\ FreshStore'
    BY <1>1, <2>1, ChainKept DEF Committing
  <2> QED BY <1>1, <1>5, <2>1, <2>3, <2>4, SequentialWalk DEF Walking
<1>7. CASE i # 0
  <2> DEFINE h == Height(f.active[i]) - 1
  <2>1. /\ low \in Nat /\ low = f.height /\ low >= 1 /\ i \in Nat /\ i >= 1
        /\ low + i \in 1..Height(x) /\ x \in AllBlocks /\ Height(x) \in Nat
        /\ f.active[i] = Ancestor(x, low + i)
    <3>1. i \in 1..Len(f.active)
      BY <1>3, <1>4, <1>7, ReorgLocals
    <3> QED BY <1>3, <1>4, <3>1, ReorgLocals
  <2>2. latest = Ancestor(x, low + i) /\ low + i \in 0..Height(x)
    BY <1>3, <2>1 DEF OnActive
  <2>3. latest \in AllBlocks /\ CurrentHeight = low + i /\ f.active[i] = latest
    BY <2>1, <2>2, AncestorIs DEF CurrentHeight
  <2>4. h = low + (i - 1)
    BY <2>1, <2>3 DEF CurrentHeight
  <2>5. /\ RevertToHeight(h)
        /\ IF RevertFails(h)
             THEN step' = [step EXCEPT ![t] = @ + 1] /\ Goto(t, "rollback")
             ELSE step' = [step EXCEPT ![t] = @ - 1] /\ UNCHANGED pc
    BY <1>7 DEF DisconnectBlock
  <2> HIDE DEF h
  <2>6. h \in Nat /\ h >= 1 /\ h < CurrentHeight
    BY <2>1, <2>3, <2>4
  <2>7. /\ latest' = Ancestor(latest, h) /\ ~RevertFails(h) /\ state' = Root(latest')
        /\ StoreClosed' /\ TipSound' /\ FreshStore'
    BY <1>1, <1>2, <2>5, <2>6, RevertDown
  <2>8. step'[t] = i - 1 /\ pc'[t] = "disconnect" /\ Alone(t)'
    BY <1>1, <2>5, <2>7 DEF TypeOK, Alone
  <2>9. OnActive(fork[t], from[t], step[t])'
    <3>1. latest' = Ancestor(x, h)
      <4>1. h \in 0..(low + i)
        BY <2>1, <2>4
      <4> QED BY <2>1, <2>2, <2>7, <4>1, AncestorOfAncestor
    <3>2. i - 1 >= 0 /\ low + (i - 1) <= Height(x) /\ latest' = Ancestor(x, low + (i - 1))
      BY <2>1, <2>4, <3>1
    <3> QED BY <1>1, <2>8, <3>2 DEF OnActive, Low
  <2>10. ReorgInOrder(t)'
    <3>1. ForkFits(fork[t], from[t])'
      BY <1>1, <1>3 DEF ForkFits
    <3> QED BY <1>1, <1>3, <2>8, <2>9, <3>1 DEF ReorgInOrder, Adding, Committing
  <2> QED BY <1>1, <2>7, <2>8, <2>10, SequentialWalk DEF Walking
<1> QED BY <1>6, <1>7

\* The next block of the candidate grows from the tip, or is far above it.
LEMMA NextCandidate ==
  ASSUME TypeInvariant, NEW t \in Threads, ForkFits(fork[t], from[t]),
         fork[t] \in Forks, NEW i \in 1..Len(fork[t].cand),
         OnCandidate(fork[t], from[t], i - 1)
  PROVE  /\ fork[t].cand[i] \in Blocks /\ i \in Nat /\ i >= 1
         /\ Height(fork[t].cand[i]) = fork[t].height + i
         /\ \/ Parent(fork[t].cand[i]) = latest /\ fork[t].height <= Height(from[t])
            \/ i = 1 /\ Height(fork[t].cand[i]) > CurrentHeight + 1
<1> DEFINE f == fork[t]
           x == from[t]
<1>1. /\ x \in AllBlocks /\ Height(x) \in Nat
      /\ f.height \in Nat /\ f.height >= 1
      /\ f.cand \in Seq(Blocks) /\ Len(f.cand) \in Nat
  BY ReorgLocals
<1>2. f.cand[i] \in Blocks /\ i \in Nat /\ i >= 1
  BY <1>1, ElementOfSeq
<1>3. Height(f.cand[i]) = f.height + i
  BY DEF ForkFits
<1>4. CASE i = 1
  <2>1. i - 1 = 0
    BY <1>4
  <2>2. OnActive(f, x, 0)
    BY <1>1, <2>1 DEF OnCandidate
  <2>3. CASE f.height <= Height(x)
    <3>1. Low(f, x) = f.height /\ f.height + 0 = f.height
      BY <1>1, <2>3 DEF Low
    <3>2. latest = Ancestor(x, f.height)
      BY <2>2, <3>1 DEF OnActive
    <3>3. Parent(f.cand[1]) = Ancestor(x, f.height)
      BY <2>3 DEF ForkFits
    <3> QED BY <1>2, <1>3, <1>4, <2>3, <3>2, <3>3
  <2>4. CASE ~(f.height <= Height(x))
    <3>1. Low(f, x) = Height(x) /\ Height(x) + 0 = Height(x)
      BY <1>1, <2>4 DEF Low
    <3>2. latest = x
      BY <1>1, <2>2, <3>1, AncestorAtTop DEF OnActive
    <3>3. Height(f.cand[i]) > CurrentHeight + 1
      BY <1>1, <1>3, <1>4, <2>4, <3>2 DEF CurrentHeight
    <3> QED BY <1>2, <1>3, <1>4, <3>3
  <2> QED BY <2>3, <2>4
<1>5. CASE i # 1
  <2>1. i \in 2..Len(f.cand) /\ i - 1 # 0
    BY <1>1, <1>2, <1>5
  <2>2. latest = f.cand[i - 1] /\ f.height <= Height(x)
    BY <2>1 DEF OnCandidate
  <2>3. Parent(f.cand[i]) = f.cand[i - 1]
    BY <2>1 DEF ForkFits
  <2> QED BY <1>2, <1>3, <2>2, <2>3
<1> QED BY <1>4, <1>5

\* A block of the candidate is handed to addBlockInternal, or none is left.
LEMMA SequentialConnect ==
  ASSUME TypeInvariant, SequentialInvariant, NEW t \in Threads, Alone(t),
         ConnectBlock(t)
  PROVE  SequentialInvariant'
<1> USE DEF TypeInvariant
<1> DEFINE f == fork[t]
           x == from[t]
           i == step[t]
<1>1. /\ pc[t] = "connect"
      /\ UNCHANGED <<stored, canon, latest, state, fork, from>>
  BY DEF ConnectBlock, chainVars
<1>2. ReorgInOrder(t) /\ StoreClosed /\ TipSound
  BY <1>1 DEF SequentialInvariant, SequentialPhase
<1>3. ForkFits(f, x) /\ Len(f.active) <= MaxReorgDepth /\ OnCandidate(f, x, i - 1)
  BY <1>1, <1>2 DEF ReorgInOrder
<1>4. f \in Forks /\ i \in Nat \ {0} /\ Len(f.cand) \in Nat
  BY <1>1, LenProperties DEF LocalsOK, Reorganizing, Forks
<1>5. ForkFits(fork[t], from[t])'
  BY <1>1, <1>3 DEF ForkFits
<1>6. CASE i > Len(f.cand)
  <2>1. Goto(t, Home(t)) /\ UNCHANGED processingReorgBlock
    BY <1>6 DEF ConnectBlock
  <2>2. Alone(t)' /\ pc'[t] \in Plain
    BY <2>1, GotoAlone DEF Home, Plain
  <2> QED BY <1>1, <2>1, <2>2, SequentialPlain DEF Adding, Committing
<1>7. CASE ~(i > Len(f.cand))
  <2> DEFINE b == f.cand[i]
  <2>1. i \in 1..Len(f.cand)
    BY <1>4, <1>7
  <2>2. /\ b \in Blocks
        /\ \/ Parent(b) = latest
           \/ i = 1 /\ Height(b) > CurrentHeight + 1
    BY <1>3, <1>4, <2>1, NextCandidate
  <2>3. CASE Parent(b) \notin stored
    <3>1. step'[t] = 1 /\ pc'[t] = "rollback" /\ Alone(t)'
          /\ UNCHANGED processingReorgBlock
      BY <1>7, <2>3, GotoAlone DEF ConnectBlock, TypeOK
    <3>2. i = 1
      BY <1>2, <2>2, <2>3 DEF TipSound
    <3>3. OnActive(f, x, 0)
      BY <1>3, <1>4, <3>2 DEF OnCandidate
    <3>4. OnActive(fork[t], from[t], step[t] - 1)'
      <4>1. step'[t] - 1 = 0
        BY <3>1
      <4> QED BY <1>1, <3>3, <4>1 DEF OnActive
    <3>5. ReorgInOrder(t)'
      BY <1>1, <1>3, <1>5, <3>1, <3>4 DEF ReorgInOrder, Adding, Committing
    <3>6. StoreClosed' /\ TipSound' /\ FreshStore' /\ state' = Root(latest')
      BY <1>1, StateOfTip, ChainKept DEF Committing
    <3> QED BY <1>1, <3>1, <3>5, <3>6, SequentialWalk DEF Walking
  <2>4. CASE Parent(b) \in stored
    <3>1. CallAddBlock(t, b, "reorg") /\ UNCHANGED step
      BY <1>7, <2>4 DEF ConnectBlock
    <3>2. pc'[t] = "submit" /\ Alone(t)' /\ blk'[t] = b /\ ret'[t] = "reorg"
      BY <3>1, GotoAlone DEF CallAddBlock, TypeOK
    <3>3. OnCandidate(fork[t], from[t], step[t] - 1)'
      BY <1>1, <1>3, <3>1 DEF OnCandidate, OnActive
    <3>4. ReorgInOrder(t)'
      BY <1>1, <1>3, <1>5, <2>1, <3>1, <3>2, <3>3 DEF ReorgInOrder, Adding, Committing
    <3>5. SequentialPhase(t)'
      BY <1>1, <2>2, <3>2, <3>4 DEF SequentialPhase, ChildOfTip, CurrentHeight, Committing
    <3> QED BY <1>1, <3>2, <3>5, SequentialAside DEF Adding, Committing
  <2> QED BY <2>3, <2>4
<1> QED BY <1>6, <1>7

\* A block of the candidate is taken off again.
LEMMA SequentialUndo ==
  ASSUME FeePaying = {}, TypeInvariant, SequentialInvariant,
         NEW t \in Threads, Alone(t), UndoCandidate(t)
  PROVE  SequentialInvariant'
<1> USE DEF TypeInvariant
<1> DEFINE f == fork[t]
           x == from[t]
           i == step[t]
<1>1. /\ pc[t] = "undo"
      /\ UNCHANGED <<stored, canon, processingReorgBlock, fork, from>>
  BY DEF UndoCandidate, storeVars, lockVars
<1>2. ReorgInOrder(t) /\ StoreClosed /\ TipSound
  BY <1>1 DEF SequentialInvariant, SequentialPhase
<1>3. ForkFits(f, x) /\ Len(f.active) <= MaxReorgDepth /\ OnCandidate(f, x, i)
  BY <1>1, <1>2 DEF ReorgInOrder
<1>4. f \in Forks /\ i \in 0..Len(f.cand)
  BY <1>1 DEF LocalsOK, Reorganizing
<1>5. /\ x \in AllBlocks /\ Height(x) \in Nat
      /\ f.height \in Nat /\ f.height >= 1
      /\ f.cand \in Seq(Blocks) /\ Len(f.cand) \in Nat
  BY <1>3, <1>4, ReorgLocals
<1>6. ForkFits(fork[t], from[t])'
  BY <1>1, <1>3 DEF ForkFits
<1>7. CASE i = 0
  <2>1. step'[t] = 1 /\ pc'[t] = "rollback" /\ Alone(t)' /\ UNCHANGED <<latest, state>>
    BY <1>7, GotoAlone DEF UndoCandidate, TypeOK
  <2>2. OnActive(f, x, 0)
    BY <1>3, <1>7, <1>5 DEF OnCandidate
  <2>3. OnActive(fork[t], from[t], step[t] - 1)'
    <3>1. step'[t] - 1 = 0
      BY <2>1
    <3> QED BY <1>1, <2>1, <2>2, <3>1 DEF OnActive
  <2>4. ReorgInOrder(t)'
    BY <1>1, <1>3, <1>6, <2>1, <2>3 DEF ReorgInOrder, Adding, Committing
  <2>5. StoreClosed' /\ TipSound' /\ FreshStore' /\ state' = Root(latest')
    BY <1>1, <2>1, StateOfTip, ChainKept DEF Committing
  <2> QED BY <1>1, <2>1, <2>4, <2>5, SequentialWalk DEF Walking
<1>8. CASE i # 0
  <2> DEFINE h == Height(f.cand[i]) - 1
  <2>1. /\ latest = f.cand[i] /\ f.height <= Height(x)
        /\ i \in 1..Len(f.cand) /\ i \in Nat /\ i >= 1
    BY <1>3, <1>4, <1>5, <1>8 DEF OnCandidate
  <2>2. /\ Height(f.cand[i]) = f.height + i
        /\ i = 1 => Parent(f.cand[i]) = Ancestor(x, f.height)
        /\ i # 1 => Parent(f.cand[i]) = f.cand[i - 1]
    <3> HIDE DEF f, x, i
    <3>1. /\ \A j \in 1..Len(f.cand) : Height(f.cand[j]) = f.height + j
          /\ \A j \in 2..Len(f.cand) : Parent(f.cand[j]) = f.cand[j - 1]
          /\ Parent(f.cand[1]) = Ancestor(x, f.height)
      BY <1>3, <2>1 DEF ForkFits
    <3>2. i # 1 => i \in 2..Len(f.cand)
      BY <1>5, <2>1
    <3> QED BY <2>1, <3>1, <3>2
  <2>3. f.cand[i] \in Blocks
    BY <1>5, <2>1, ElementOfSeq
  <2>4. /\ h \in Nat /\ h >= 1 /\ h < CurrentHeight /\ h = f.height + (i - 1)
    BY <1>5, <2>1, <2>2 DEF CurrentHeight
  <2>5. RevertToHeight(h) /\ step' = [step EXCEPT ![t] = @ - 1] /\ UNCHANGED pc
    BY <1>8 DEF UndoCandidate
  <2>6. /\ latest' = Ancestor(latest, h) /\ state' = Root(latest')
        /\ StoreClosed' /\ TipSound' /\ FreshStore'
    <3> HIDE DEF h
    <3> QED BY <1>1, <1>2, <2>4, <2>5, RevertDown
  <2>7. latest' = Parent(f.cand[i])
    BY <2>1, <2>3, <2>6, ParentIsAncestor
  <2>8. step'[t] = i - 1 /\ pc'[t] = "undo" /\ Alone(t)'
    BY <1>1, <2>5 DEF TypeOK, Alone
  <2>9. OnCandidate(fork[t], from[t], step[t])'
    <3>1. CASE i = 1
      <4>1. Low(f, x) = f.height /\ f.height + 0 = f.height
        BY <1>5, <2>1 DEF Low
      <4>2. step'[t] = 0 /\ latest' = Ancestor(x, Low(f, x) + 0) /\ Low(f, x) + 0 <= Height(x)
        BY <2>1, <2>2, <2>7, <2>8, <3>1, <4>1
      <4> QED BY <1>1, <4>2 DEF OnCandidate, OnActive, Low
    <3>2. CASE i # 1
      <4>1. i - 1 \in 1..Len(f.cand) /\ latest' = f.cand[i - 1]
        BY <1>5, <2>1, <2>2, <2>7, <3>2
      <4> QED BY <1>1, <2>1, <2>8, <4>1 DEF OnCandidate
    <3> QED BY <3>1, <3>2
  <2>10. ReorgInOrder(t)'
    BY <1>1, <1>3, <1>6, <2>8, <2>9 DEF ReorgInOrder, Adding, Committing
  <2> QED BY <1>1, <2>6, <2>8, <2>10, SequentialWalk DEF Walking
<1> QED BY <1>7, <1>8

\* The next block of the active branch grows from the tip.
LEMMA NextActive ==
  ASSUME TypeInvariant, NEW t \in Threads, ForkFits(fork[t], from[t]),
         fork[t] \in Forks, NEW i \in 1..Len(fork[t].active),
         OnActive(fork[t], from[t], i - 1)
  PROVE  /\ fork[t].active[i] \in Blocks
         /\ Parent(fork[t].active[i]) = latest
         /\ fork[t].active[i] = Ancestor(from[t], Low(fork[t], from[t]) + i)
         /\ Low(fork[t], from[t]) + i \in 0..Height(from[t])
<1> DEFINE f == fork[t]
           x == from[t]
           low == Low(f, x)
<1>1. /\ x \in AllBlocks /\ Height(x) \in Nat
      /\ low \in Nat /\ low = f.height
      /\ f.active \in Seq(Blocks) /\ Len(f.active) \in Nat
      /\ low + i \in 1..Height(x)
      /\ f.active[i] = Ancestor(x, low + i)
  BY ReorgLocals
<1>2. f.active[i] \in Blocks /\ i \in Nat
  BY <1>1, ElementOfSeq
<1>3. latest = Ancestor(x, low + (i - 1))
  BY DEF OnActive
<1> HIDE DEF low, f, x
<1>4. (low + i) - 1 = low + (i - 1) /\ low + i \in 0..Height(x)
  BY <1>1, <1>2
<1>5. Parent(f.active[i]) = latest
  BY <1>1, <1>3, <1>4, ParentOfAncestor
<1> QED BY <1>1, <1>2, <1>4, <1>5 DEF low, f, x

\* A block of the active branch is handed in again, or none is left.
LEMMA SequentialRollback ==
  ASSUME TypeInvariant, SequentialInvariant, NEW t \in Threads, Alone(t),
         EmergencyRollback(t)
  PROVE  SequentialInvariant'
<1> USE DEF TypeInvariant
<1> DEFINE f == fork[t]
           x == from[t]
           i == step[t]
<1>1. /\ pc[t] = "rollback"
      /\ UNCHANGED <<stored, canon, latest, state, fork, step, from>>
  BY DEF EmergencyRollback, chainVars, reorgVars
<1>2. ReorgInOrder(t)
  BY <1>1 DEF SequentialInvariant, SequentialPhase
<1>3. ForkFits(f, x) /\ Len(f.active) <= MaxReorgDepth /\ OnActive(f, x, i - 1)
  BY <1>1, <1>2 DEF ReorgInOrder
<1>4. f \in Forks /\ i \in Nat \ {0} /\ Len(f.active) \in Nat
  BY <1>1, LenProperties DEF LocalsOK, Reorganizing, Forks
<1>5. CASE i > Len(f.active)
  <2>1. Goto(t, Home(t)) /\ UNCHANGED processingReorgBlock
    BY <1>5 DEF EmergencyRollback
  <2>2. Alone(t)' /\ pc'[t] \in Plain
    BY <2>1, GotoAlone DEF Home, Plain
  <2> QED BY <1>1, <2>1, <2>2, SequentialPlain DEF Adding, Committing
<1>6. CASE ~(i > Len(f.active))
  <2> DEFINE b == f.active[i]
  <2>1. i \in 1..Len(f.active)
    BY <1>4, <1>6
  <2>2. b \in Blocks /\ Parent(b) = latest
    BY <1>3, <1>4, <2>1, NextActive
  <2>3. CallAddBlock(t, b, "rollback")
    BY <1>6 DEF EmergencyRollback
  <2>4. pc'[t] = "submit" /\ Alone(t)' /\ blk'[t] = b /\ ret'[t] = "rollback"
    BY <2>3, GotoAlone DEF CallAddBlock, TypeOK
  <2>5. ReorgInOrder(t)'
    <3>1. ForkFits(fork[t], from[t])'
      BY <1>1, <1>3 DEF ForkFits
    <3>2. OnActive(fork[t], from[t], step[t] - 1)'
      BY <1>1, <1>3 DEF OnActive
    <3> QED BY <1>1, <1>3, <2>1, <2>4, <3>1, <3>2 DEF ReorgInOrder, Adding, Committing
  <2>6. SequentialPhase(t)'
    BY <1>1, <2>2, <2>4, <2>5 DEF SequentialPhase, ChildOfTip, Committing
  <2> QED BY <1>1, <2>4, <2>6, SequentialAside DEF Adding, Committing
<1> QED BY <1>5, <1>6

\* addBlockInternal refuses a new block, or one of the candidate.
LEMMA SequentialRefused ==
  ASSUME TypeInvariant, SequentialInvariant, NEW t \in Threads, Alone(t),
         pc[t] \in {"submit", "exec"}, ret[t] # "rollback", Finish(t, FALSE),
         UNCHANGED <<stored, canon, latest, state, blk, ret, fork, from>>
  PROVE  SequentialInvariant'
<1> USE DEF TypeInvariant
<1>1. ret[t] \in {"extend", "reorg"} /\ pc[t] \in Adding /\ pc[t] \notin Committing
  BY DEF SequentialInvariant, FlagAttended, TypeOK, Adding, Committing
<1>2. processingReorgBlock' = FALSE
  BY <1>1 DEF Finish
<1>3. CASE ret[t] = "extend"
  <2>1. Goto(t, "process")
    BY <1>3 DEF Finish
  <2>2. pc'[t] = "process" /\ Alone(t)'
    BY <2>1, GotoAlone
  <2>3. SequentialPhase(t)'
    BY <2>2 DEF SequentialPhase, ChildOfTip, Adding, Committing
  <2> QED BY <1>1, <1>2, <2>2, <2>3, SequentialAside DEF Adding, Committing
<1>4. CASE ret[t] = "reorg"
  <2> DEFINE f == fork[t]
             x == from[t]
             i == step[t]
  <2>1. Goto(t, "undo") /\ step' = [step EXCEPT ![t] = @ - 1]
    BY <1>4 DEF Finish
  <2>2. pc'[t] = "undo" /\ step'[t] = i - 1 /\ Alone(t)'
    BY <2>1, GotoAlone DEF TypeOK
  <2>3. /\ ForkFits(f, x) /\ Len(f.active) <= MaxReorgDepth
        /\ OnCandidate(f, x, i - 1)
    BY <1>1, <1>4 DEF SequentialInvariant, SequentialPhase, ReorgInOrder
  <2>4. ForkFits(fork[t], from[t])'
    BY <2>3 DEF ForkFits
  <2>5. OnCandidate(fork[t], from[t], step[t])'
    BY <2>2, <2>3 DEF OnCandidate, OnActive
  <2>6. ReorgInOrder(t)'
    BY <2>2, <2>3, <2>4, <2>5 DEF ReorgInOrder, Adding, Committing
  <2>7. SequentialPhase(t)'
    BY <2>2, <2>6 DEF SequentialPhase, ChildOfTip, Adding, Committing
  <2> QED BY <1>1, <1>2, <2>2, <2>7, SequentialAside DEF Adding, Committing
<1> QED BY <1>1, <1>3, <1>4

\* addBlockInternal takes the tip's child, and refuses no block of a rollback.
LEMMA SequentialEnter ==
  ASSUME TypeInvariant, SequentialInvariant, NEW t \in Threads, Alone(t),
         EnterAddBlock(t)
  PROVE  SequentialInvariant'
<1> USE DEF TypeInvariant
<1> DEFINE b == blk[t]
<1>1. /\ pc[t] = "submit"
      /\ UNCHANGED <<stored, canon, latest, state, blk, ret, fork, from>>
  BY DEF EnterAddBlock, chainVars
<1>2. b \in Blocks /\ Height(b) \in Nat /\ Height(b) >= 1 /\ Height(Parent(b)) = Height(b) - 1
  BY <1>1, ParentHeight, BoundsAssumption DEF LocalsOK, Adding, Committing
<1>3. latest \in stored /\ CurrentHeight \in Nat
  BY TipHeight, BoundsAssumption DEF SequentialInvariant, TipSound, Heights
<1>4. SequentialPhase(t) /\ ChildOfTip(t)
  BY DEF SequentialInvariant, SequentialPhase
<1>5. Parent(b) = latest => ~Rejected(b) /\ Height(b) = CurrentHeight + 1
  <2> SUFFICES ASSUME Parent(b) = latest
               PROVE  ~Rejected(b) /\ Height(b) = CurrentHeight + 1
    OBVIOUS
  <2>1. Height(b) = CurrentHeight + 1
    BY <1>2 DEF CurrentHeight
  <2>2. ParentFound(b)
    BY <1>3 DEF ParentFound
  <2> QED BY <1>3, <2>1, <2>2 DEF Rejected
<1>6. CASE Rejected(b)
  <2>1. ret[t] # "rollback"
    BY <1>1, <1>4, <1>5, <1>6 DEF ChildOfTip, Committing
  <2>2. Finish(t, FALSE)
    BY <1>6 DEF EnterAddBlock
  <2> QED BY <1>1, <2>1, <2>2, SequentialRefused
<1>7. CASE ~Rejected(b)
  <2>1. Parent(b) = latest
    <3>1. ~(Height(b) > CurrentHeight + 1)
      BY <1>7 DEF Rejected
    <3> QED BY <1>1, <1>4, <3>1 DEF ChildOfTip, Committing
  <2>2. Height(b) # CurrentHeight
    BY <1>3, <1>5, <2>1
  <2>3. /\ seen' = [seen EXCEPT ![t] = latest]
        /\ Goto(t, "exec") /\ UNCHANGED <<processingReorgBlock, step>>
    BY <1>7, <2>2 DEF EnterAddBlock
  <2>4. pc'[t] = "exec" /\ Alone(t)' /\ seen'[t] = latest
    BY <2>3, GotoAlone DEF TypeOK
  <2>5. ChildOfTip(t)'
    BY <1>1, <2>1, <2>4 DEF ChildOfTip, Committing
  <2>6. ReorgInOrder(t) => ReorgInOrder(t)'
    <3>1. ForkFits(fork[t], from[t]) => ForkFits(fork[t], from[t])'
      BY <1>1 DEF ForkFits
    <3>2. OnCandidate(fork[t], from[t], step[t] - 1) => OnCandidate(fork[t], from[t], step[t] - 1)'
      BY <1>1, <2>3 DEF OnCandidate, OnActive
    <3>3. OnActive(fork[t], from[t], step[t] - 1) => OnActive(fork[t], from[t], step[t] - 1)'
      BY <1>1, <2>3 DEF OnActive
    <3> QED BY <1>1, <2>3, <2>4, <3>1, <3>2, <3>3 DEF ReorgInOrder, Adding, Committing
  <2>7. SequentialPhase(t)'
    BY <1>1, <1>4, <2>4, <2>5, <2>6 DEF SequentialPhase, Adding, Committing
  <2>8. pc'[t] \in Adding => ret'[t] # "direct"
    BY <1>1 DEF SequentialInvariant, FlagAttended, Adding, Committing
  <2> QED BY <1>1, <2>4, <2>7, <2>8, SequentialAside DEF Adding, Committing
<1> QED BY <1>6, <1>7

\* A block of the active branch was valid when it was stored.
LEMMA ActiveValid ==
  ASSUME TypeInvariant, StoreClosed, NEW t \in Threads, ReorgInOrder(t),
         pc[t] \in Adding, ret[t] = "rollback"
  PROVE  blk[t] \notin Malformed \cup BadRoot
<1> DEFINE f == fork[t]
           x == from[t]
           i == step[t]
<1>1. /\ ForkFits(f, x) /\ OnActive(f, x, i - 1)
      /\ i <= Len(f.active) /\ blk[t] = f.active[i]
  BY DEF ReorgInOrder
<1>2. f \in Forks /\ i \in Nat \ {0} /\ Len(f.active) \in Nat
  BY LenProperties DEF TypeInvariant, LocalsOK, Forks
<1>3. i \in 1..Len(f.active)
  BY <1>1, <1>2
<1>4. /\ f.active[i] = Ancestor(x, Low(f, x) + i)
      /\ Low(f, x) + i \in 0..Height(x)
  BY <1>1, <1>2, <1>3, NextActive
<1>5. f.active[i] \in stored
  BY <1>1, <1>4, StoredAncestors DEF ForkFits
<1> QED BY <1>1, <1>5 DEF StoreClosed

\* A step from execution towards the new tip.
LEMMA SequentialCommitting ==
  ASSUME TypeInvariant, SequentialInvariant, NEW t \in Threads, Alone(t),
         pc[t] \in {"exec"} \cup Committing, NEW p \in Committing, Goto(t, p),
         stored \subseteq stored',
         UNCHANGED <<latest, blk, ret, fork, step, from, processingReorgBlock>>,
         state' = Root(blk[t]), StoreClosed', TipSound', FreshStore', ChildOfTip(t)'
  PROVE  SequentialInvariant'
<1>1. pc'[t] = p /\ Alone(t)' /\ p \notin {"stuck", "reorg"} \cup Walking
  BY GotoAlone DEF TypeInvariant, Committing, Walking
<1>2. SequentialPhase(t)
  BY DEF SequentialInvariant
<1>3. ReorgInOrder(t) => ReorgInOrder(t)'
  <2>1. ForkFits(fork[t], from[t]) => ForkFits(fork[t], from[t])'
    BY DEF ForkFits
  <2>2. OnCandidate(fork[t], from[t], step[t] - 1) => OnCandidate(fork[t], from[t], step[t] - 1)'
    BY DEF OnCandidate, OnActive
  <2>3. OnActive(fork[t], from[t], step[t] - 1) => OnActive(fork[t], from[t], step[t] - 1)'
    BY DEF OnActive
  <2> QED BY <1>1, <2>1, <2>2, <2>3 DEF ReorgInOrder, Adding, Committing, Walking
<1>4. SequentialPhase(t)'
  BY <1>1, <1>2, <1>3 DEF SequentialPhase, Adding, Committing, Walking
<1>5. FlagAttended'
  BY <1>1 DEF SequentialInvariant, FlagAttended, Alone, Adding, Committing
<1>6. StateKept'
  BY <1>1 DEF StateKept, StateMatchesTip, Alone, Committing
<1> QED BY <1>1, <1>4, <1>5, <1>6, SequentialFrom

\* The block is executed on the state of its parent, the tip.
LEMMA SequentialExecute ==
  ASSUME TypeInvariant, SequentialInvariant, NEW t \in Threads, Alone(t),
         ValidateAndExecuteBlock(t)
  PROVE  SequentialInvariant'
<1> USE DEF TypeInvariant
<1> DEFINE b == blk[t]
<1>1. /\ pc[t] = "exec"
      /\ UNCHANGED <<stored, canon, latest, blk, seen, gap, ret, fork, from>>
  BY DEF ValidateAndExecuteBlock, storeVars, callVars
<1>2. SequentialPhase(t) /\ Parent(b) = latest /\ seen[t] = latest /\ StoreClosed /\ TipSound
  BY <1>1 DEF SequentialInvariant, SequentialPhase, ChildOfTip, Committing
<1>3. state = Root(Parent(b))
  BY <1>1, <1>2, StateOfTip DEF Committing
<1>4. CASE ~Executable(b)
  <2>1. UNCHANGED state /\ Finish(t, FALSE)
    BY <1>4 DEF ValidateAndExecuteBlock
  <2>2. b \in Malformed \cup BadRoot
    BY <1>3, <1>4 DEF Executable
  <2>3. ret[t] # "rollback"
    BY <1>1, <1>2, <2>2, ActiveValid DEF SequentialPhase, Adding, Committing
  <2> QED BY <1>1, <2>1, <2>3, SequentialRefused
<1>5. CASE Executable(b)
  <2>1. /\ state' = Root(b) /\ Goto(t, "commit")
        /\ UNCHANGED <<processingReorgBlock, step>>
    BY <1>2, <1>5 DEF ValidateAndExecuteBlock, ExtendsTip
  <2>2. pc'[t] = "commit" /\ Alone(t)'
    BY <2>1, GotoAlone
  <2>3. ChildOfTip(t)'
    BY <1>1, <1>2, <1>5, <2>2 DEF ChildOfTip, Executable, Committing
  <2>4. StoreClosed' /\ TipSound' /\ FreshStore'
    BY <1>1, ChainKept DEF Committing
  <2> QED BY <1>1, <2>1, <2>3, <2>4, SequentialCommitting DEF Committing
<1> QED BY <1>4, <1>5

\* The block being committed is the tip's child, and shares its ancestors.
LEMMA TipChild ==
  ASSUME TypeInvariant, SequentialInvariant, NEW t \in Threads, pc[t] \in Committing
  PROVE  /\ blk[t] \in Blocks /\ blk[t] \in AllBlocks /\ Height(blk[t]) \in 1..MaxHeight
         /\ Height(blk[t]) = CurrentHeight + 1 /\ CurrentHeight \in Nat
         /\ latest \in stored /\ latest \in AllBlocks /\ Height(latest) = CurrentHeight
         /\ Parent(blk[t]) = latest /\ seen[t] = latest
         /\ blk[t] \notin Malformed \cup BadRoot
         /\ state = Root(blk[t])
         /\ \A h \in 0..CurrentHeight : Ancestor(blk[t], h) = Ancestor(latest, h)
<1> DEFINE b == blk[t]
<1>1. /\ Parent(b) = latest /\ seen[t] = latest /\ b \notin Malformed \cup BadRoot
      /\ TipSound /\ state = Root(b)
  BY DEF SequentialInvariant, SequentialPhase, ChildOfTip, StateKept, Committing
<1>2. b \in Blocks
  BY DEF TypeInvariant, LocalsOK, Adding
<1>3. /\ b \in AllBlocks /\ Height(b) \in 1..MaxHeight
      /\ Height(b) = CurrentHeight + 1 /\ CurrentHeight \in Nat
      /\ latest \in stored /\ Height(latest) = CurrentHeight
  BY <1>1, <1>2, ParentHeight, TipHeight, BoundsAssumption
  DEF CurrentHeight, TipSound, AllBlocks, Heights
<1>4. \A h \in 0..CurrentHeight : Ancestor(b, h) = Ancestor(latest, h)
  <2>1. \A h \in 0..CurrentHeight : h \in 0..(Height(b) - 1)
    BY <1>3
  <2> QED BY <1>1, <1>2, <2>1, AncestorOfParent
<1>5. latest \in AllBlocks
  BY <1>3 DEF TypeInvariant, TypeOK
<1> QED BY <1>1, <1>2, <1>3, <1>4, <1>5

\* The block is stored with its ancestors.
LEMMA SequentialWriteBlock ==
  ASSUME TypeInvariant, SequentialInvariant, NEW t \in Threads, Alone(t),
         WriteBlock(t)
  PROVE  SequentialInvariant'
<1> DEFINE b == blk[t]
<1>1. /\ pc[t] = "commit" /\ Goto(t, "canonical") /\ stored' = stored \cup {b}
      /\ UNCHANGED <<canon, latest, state, blk, seen, ret, fork, step, from,
                     processingReorgBlock>>
  BY DEF WriteBlock, lockVars, callVars, reorgVars
<1>2. /\ b \in Blocks /\ b \in AllBlocks /\ Height(b) = CurrentHeight + 1
      /\ CurrentHeight \in Nat /\ latest \in stored /\ Height(latest) = CurrentHeight
      /\ Parent(b) = latest /\ seen[t] = latest /\ b \notin Malformed \cup BadRoot
      /\ state = Root(b)
      /\ \A h \in 0..CurrentHeight : Ancestor(b, h) = Ancestor(latest, h)
  BY <1>1, TipChild DEF Committing
<1>3. StoreClosed /\ TipSound
  BY DEF SequentialInvariant
<1>4. StoreClosed'
  <2>1. \A h \in 0..Height(b) : Ancestor(b, h) \in stored'
    <3> SUFFICES ASSUME NEW h \in 0..Height(b) PROVE Ancestor(b, h) \in stored'
      OBVIOUS
    <3>1. CASE h = Height(b)
      BY <1>1, <1>2, <3>1, AncestorAtTop
    <3>2. CASE h # Height(b)
      <4>1. h \in 0..CurrentHeight
        BY <1>2, <3>2
      <4> QED BY <1>1, <1>2, <1>3, <4>1, StoredAncestors
    <3> QED BY <3>1, <3>2
  <2> QED BY <1>1, <1>2, <1>3, <2>1 DEF StoreClosed
<1>5. TipSound'
  BY <1>1, <1>3 DEF TipSound, CurrentHeight
<1>6. pc'[t] = "canonical" /\ Alone(t)'
  BY <1>1, GotoAlone DEF TypeInvariant
<1>7. FreshStore'
  BY <1>6 DEF FreshStore
<1>8. ChildOfTip(t)'
  BY <1>1, <1>2, <1>6 DEF ChildOfTip, Committing
<1> QED BY <1>1, <1>2, <1>4, <1>5, <1>7, <1>8, SequentialCommitting DEF Committing

\* Its canonical hash is written above the tip.
LEMMA SequentialWriteCanonicalHash ==
  ASSUME TypeInvariant, SequentialInvariant, NEW t \in Threads, Alone(t),
         WriteCanonicalHash(t)
  PROVE  SequentialInvariant'
<1> DEFINE b == blk[t]
<1>1. /\ pc[t] = "canonical" /\ Goto(t, "head")
      /\ canon' = [canon EXCEPT ![Height(b)] = b]
      /\ UNCHANGED <<stored, latest, state, blk, seen, ret, fork, step, from,
                     processingReorgBlock>>
  BY DEF WriteCanonicalHash, lockVars, callVars, reorgVars
<1>2. /\ b \in Blocks /\ Height(b) \in 1..MaxHeight /\ Height(b) = CurrentHeight + 1
      /\ CurrentHeight \in Nat
      /\ Parent(b) = latest /\ seen[t] = latest /\ b \notin Malformed \cup BadRoot
      /\ state = Root(b)
  BY <1>1, TipChild DEF Committing
<1>3. StoreClosed /\ TipSound /\ b \in stored
  BY <1>1 DEF SequentialInvariant, SequentialPhase, ChildOfTip, Committing
<1>4. StoreClosed'
  BY <1>1, <1>3 DEF StoreClosed
<1>5. /\ canon'[Height(b)] = b
      /\ \A h \in 0..CurrentHeight : canon'[h] = canon[h]
  BY <1>1, <1>2, BoundsAssumption DEF TypeInvariant, TypeOK, Heights
<1>6. TipSound'
  BY <1>1, <1>3, <1>5 DEF TipSound, CurrentHeight
<1>7. pc'[t] = "head" /\ Alone(t)'
  BY <1>1, GotoAlone DEF TypeInvariant
<1>8. FreshStore'
  BY <1>7 DEF FreshStore
<1>9. ChildOfTip(t)'
  BY <1>1, <1>2, <1>3, <1>5, <1>7 DEF ChildOfTip, Committing
<1> QED BY <1>1, <1>2, <1>4, <1>6, <1>8, <1>9, SequentialCommitting DEF Committing

\* The block becomes the tip, and the caller goes on.
LEMMA SequentialWriteHead ==
  ASSUME TypeInvariant, SequentialInvariant, NEW t \in Threads, Alone(t),
         WriteHeadBlockHash(t)
  PROVE  SequentialInvariant'
<1> USE DEF TypeInvariant
<1> DEFINE b == blk[t]
           f == fork[t]
           x == from[t]
           i == step[t]
<1>1. /\ pc[t] = "head" /\ pc[t] \in Adding
      /\ latest' = b
      /\ UNCHANGED <<stored, canon, state, blk, ret, fork, from>>
  BY DEF WriteHeadBlockHash, callVars, Adding, Committing
<1>2. /\ SequentialPhase(t) /\ b \in stored /\ canon[Height(b)] = b
      /\ StoreClosed /\ TipSound
  BY <1>1 DEF SequentialInvariant, SequentialPhase, ChildOfTip, Committing
<1>3. /\ b \in Blocks /\ b \in AllBlocks /\ Height(b) = CurrentHeight + 1
      /\ CurrentHeight \in Nat /\ state = Root(b)
      /\ \A h \in 0..CurrentHeight : Ancestor(b, h) = Ancestor(latest, h)
  BY <1>1, TipChild DEF Committing
<1>4. Finish(t, TRUE)
  BY <1>3 DEF WriteHeadBlockHash
<1>5. StoreClosed'
  BY <1>1, <1>2 DEF StoreClosed
<1>6. FreshStore'
  BY <1>1, <1>3, BlocksAssumption DEF FreshStore
<1>7. TipSound'
  <2>1. CurrentHeight' = CurrentHeight + 1
    BY <1>1, <1>3 DEF CurrentHeight
  <2>2. ASSUME NEW h \in 0..(CurrentHeight + 1) PROVE canon[h] = Ancestor(b, h)
    <3>1. CASE h = Height(b)
      BY <1>2, <1>3, <3>1, AncestorAtTop
    <3>2. CASE h # Height(b)
      <4>1. h \in 0..CurrentHeight
        BY <1>3, <3>2
      <4> QED BY <1>2, <1>3, <4>1 DEF TipSound
    <3> QED BY <3>1, <3>2
  <2> QED BY <1>1, <1>2, <2>1, <2>2 DEF TipSound
<1>8. ret[t] \in {"extend", "reorg", "rollback"}
  BY <1>1 DEF SequentialInvariant, FlagAttended, TypeOK
<1>9. processingReorgBlock' = FALSE
  BY <1>4, <1>8 DEF Finish
<1>10. ASSUME NEW p, Goto(t, p), p \in Walking \cup {"process"}, SequentialPhase(t)'
       PROVE  SequentialInvariant'
  <2>1. Alone(t)' /\ pc'[t] = p
    BY <1>10, GotoAlone
  <2>2. FlagAttended'
    BY <1>9, <1>10, <2>1 DEF FlagAttended, Alone, Adding, Committing, Walking
  <2>3. StateKept'
    BY <1>1, <1>3, <1>10, <2>1 DEF StateKept, StateMatchesTip, Alone, Walking, Committing
  <2> QED BY <1>5, <1>6, <1>7, <1>10, <2>1, <2>2, <2>3, SequentialFrom DEF Walking
<1>11. CASE ret[t] = "extend"
  <2>1. Goto(t, "process")
    BY <1>4, <1>11 DEF Finish
  <2>2. SequentialPhase(t)'
    BY <2>1, GotoAlone DEF SequentialPhase, ChildOfTip, Adding, Committing
  <2> QED BY <1>10, <2>1, <2>2
<1>12. ReorgInOrder(t) => ForkFits(f, x) /\ ForkFits(fork[t], from[t])'
  BY <1>1 DEF ReorgInOrder, ForkFits
<1>13. CASE ret[t] = "reorg"
  <2>1. Goto(t, "connect") /\ step' = [step EXCEPT ![t] = @ + 1]
    BY <1>4, <1>13 DEF Finish
  <2>2. pc'[t] = "connect" /\ step'[t] = i + 1
    BY <2>1, GotoAlone DEF TypeOK
  <2>3. /\ ReorgInOrder(t) /\ Len(f.active) <= MaxReorgDepth
        /\ OnCandidate(f, x, i - 1) /\ b = f.cand[i]
    BY <1>1, <1>2, <1>13 DEF SequentialPhase, ReorgInOrder
  <2>4. f \in Forks /\ i \in 1..Len(f.cand)
    BY <1>1, <1>13 DEF LocalsOK
  <2>5. f.height <= Height(x) /\ i \in Nat
    <3>1. ~(Height(b) > CurrentHeight + 1)
      BY <1>3
    <3> QED BY <1>12, <2>3, <2>4, <3>1, NextCandidate
  <2>6. OnCandidate(fork[t], from[t], step[t] - 1)'
    <3>1. step'[t] - 1 = i
      BY <2>2, <2>5
    <3> QED BY <1>1, <2>3, <2>4, <2>5, <3>1 DEF OnCandidate
  <2>7. ReorgInOrder(t)'
    BY <1>1, <1>12, <2>2, <2>3, <2>6 DEF ReorgInOrder, Adding, Committing
  <2>8. SequentialPhase(t)'
    BY <2>2, <2>7 DEF SequentialPhase, ChildOfTip, Committing
  <2> QED BY <1>10, <2>1, <2>8 DEF Walking
<1>14. CASE ret[t] = "rollback"
  <2>1. Goto(t, "rollback") /\ step' = [step EXCEPT ![t] = @ + 1]
    BY <1>4, <1>14 DEF Finish
  <2>2. pc'[t] = "rollback" /\ step'[t] = i + 1
    BY <2>1, GotoAlone DEF TypeOK
  <2>3. /\ ReorgInOrder(t) /\ Len(f.active) <= MaxReorgDepth
        /\ OnActive(f, x, i - 1) /\ b = f.active[i] /\ i <= Len(f.active)
    BY <1>1, <1>2, <1>14 DEF SequentialPhase, ReorgInOrder
  <2>4. f \in Forks /\ i \in Nat \ {0} /\ Len(f.active) \in Nat
    BY <1>1, <1>14, LenProperties DEF LocalsOK, Forks
  <2>5. i \in 1..Len(f.active)
    BY <2>3, <2>4
  <2>6. b = Ancestor(x, Low(f, x) + i) /\ Low(f, x) + i \in 0..Height(x)
    BY <1>12, <2>3, <2>4, <2>5, NextActive
  <2>7. OnActive(fork[t], from[t], step[t] - 1)'
    <3>1. step'[t] - 1 = i /\ i >= 0
      BY <2>2, <2>4
    <3>2. Low(f, x) + i <= Height(x)
      BY <2>6
    <3> QED BY <1>1, <2>6, <3>1, <3>2 DEF OnActive, Low
  <2>8. ReorgInOrder(t)'
    BY <1>1, <1>12, <2>2, <2>3, <2>7 DEF ReorgInOrder, Adding, Committing
  <2>9. SequentialPhase(t)'
    BY <2>2, <2>8 DEF SequentialPhase, ChildOfTip, Committing
  <2> QED BY <1>10, <2>1, <2>9 DEF Walking
<1> QED BY <1>8, <1>11, <1>13, <1>14

\* Initially there is the genesis block, and nobody is at work.
LEMMA SequentialInit == Init => SequentialInvariant
<1> SUFFICES ASSUME Init PROVE SequentialInvariant
  OBVIOUS
<1>1. CurrentHeight = 0 /\ Height(Genesis) = 0
  BY BlocksAssumption DEF Init, CurrentHeight, Height
<1>2. StoreClosed
  <2>1. Genesis \notin Malformed \cup BadRoot
    BY HeaderAssumption, BlocksAssumption
  <2> QED BY <1>1, <2>1 DEF Init, StoreClosed, Ancestor
<1>3. TipSound
  <2>1. canon[0] = Genesis
    BY BoundsAssumption DEF Init, Heights
  <2> QED BY <1>1, <2>1 DEF Init, TipSound, Ancestor
<1>4. FreshStore /\ FlagAttended /\ StateKept /\ NoSelfDeadlock
  BY BlocksAssumption
  DEF Init, FreshStore, FlagAttended, StateKept, StateMatchesTip, NoSelfDeadlock,
      Adding, Committing, Root
<1>5. ASSUME NEW t \in Threads PROVE SequentialPhase(t)
  BY DEF Init, SequentialPhase, ChildOfTip, Adding, Committing
<1> QED BY <1>2, <1>3, <1>4, <1>5 DEF SequentialInvariant

\* Every step of one goroutine at a time keeps the invariant.
LEMMA SequentialStep ==
  ASSUME OneTrunk, FeePaying = {}, TruncateHeights = {},
         TypeInvariant, PointersSound, Uncut, SequentialInvariant,
         OneAtATime, OneAtATime', [Next]_vars
  PROVE  SequentialInvariant'
<1>1. ASSUME UNCHANGED <<stored, canon, latest, state, processingReorgBlock, pc, blk,
                         seen, ret, fork, step, from>>
      PROVE  SequentialInvariant'
  <2>1. /\ StoreClosed' /\ TipSound' /\ FreshStore'
        /\ FlagAttended' /\ StateKept' /\ NoSelfDeadlock'
    BY <1>1 DEF SequentialInvariant, StoreClosed, TipSound, FreshStore,
                FlagAttended, StateKept,
                StateMatchesTip, NoSelfDeadlock, CurrentHeight
  <2>2. ASSUME NEW t \in Threads PROVE SequentialPhase(t)'
    <3>1. SequentialPhase(t)
      BY DEF SequentialInvariant
    <3>2. ReorgInOrder(t) => ReorgInOrder(t)'
      BY <1>1 DEF ReorgInOrder, ForkFits, OnCandidate, OnActive
    <3> QED BY <1>1, <3>1, <3>2 DEF SequentialPhase, ForkFits, ChildOfTip,
                                    CurrentHeight, Committing
  <2> QED BY <2>1, <2>2 DEF SequentialInvariant
<1>2. ASSUME NEW t \in Submitters, NEW b \in Blocks, AddBlock(t, b)
      PROVE  SequentialInvariant'
  BY <1>2, SequentialAddBlock DEF Threads
<1>3. ASSUME NEW t \in Threads, ThreadStep(t)
      PROVE  SequentialInvariant'
  <2>1. pc[t] # "idle"
    BY <1>3 DEF ThreadStep, Return, ProcessNewBlock, AddOrphanBlock,
                TryResolveOrphans, KeepFork, StartReorg, DisconnectBlock,
                ConnectBlock, UndoCandidate, EmergencyRollback, EnterAddBlock,
                ValidateAndExecuteBlock, WriteBlock, WriteCanonicalHash,
                WriteHeadBlockHash
  <2>2. Alone(t)
    BY <2>1, AtWorkAlone
  <2>3. overtaken = {}
    BY DEF Uncut
  <2> QED BY <1>3, <2>2, <2>3, SequentialQuiet, SequentialProcessNewBlock,
             SequentialStartReorg, SequentialDisconnect, SequentialConnect,
             SequentialUndo, SequentialRollback, SequentialEnter,
             SequentialExecute, SequentialWriteBlock, SequentialWriteCanonicalHash,
             SequentialWriteHead DEF ThreadStep
<1>4. ~DetectAndResolveForks /\ ~NextDetectedFork
  BY DEF DetectAndResolveForks, NextDetectedFork, OneAtATime, Goto, Threads,
         TypeInvariant, TypeOK
<1>5. CASE \/ CleanupExpiredOrphans \/ TriggerSyncFromBlock
           \/ StartSync \/ StopSync
  BY <1>1, <1>5 DEF CleanupExpiredOrphans, TriggerSyncFromBlock, StartSync,
                    StopSync, chainVars, lockVars, callVars, reorgVars
<1>6. CASE UNCHANGED vars
  BY <1>1, <1>6 DEF vars
<1> QED BY <1>2, <1>3, <1>4, <1>5, <1>6, NeverCuts DEF Next

\* Goroutines that do not overlap keep the store closed under parents, the tip on
\* the canonical chain, the account state with the tip, and every reorganization
\* and rollback on the branches it walks (addBlockInternal, performReorg,
\* emergencyRollbackFrom, revertToHeight).
THEOREM SequentialInvariantHolds ==
  ASSUME OneTrunk, FeePaying = {}, TruncateHeights = {}
  PROVE  Spec /\ []OneAtATime => []SequentialInvariant
<1>1. Init => SequentialInvariant
  BY SequentialInit
<1>2. /\ TypeInvariant /\ PointersSound /\ Uncut /\ SequentialInvariant
      /\ OneAtATime /\ OneAtATime' /\ [Next]_vars
      => SequentialInvariant'
  BY SequentialStep
<1>3. Spec => []TypeInvariant
  BY TypeCorrect
<1>4. Spec => []PointersSound
  BY PointersStaySound
<1>5. Spec => []ChainInvariant
  BY ChainInvariantHolds
<1>6. ChainInvariant => Uncut
  BY DEF ChainInvariant
<1> QED BY <1>1, <1>2, <1>3, <1>4, <1>5, <1>6, PTL DEF Spec

\* Who gives rm.mu back is the goroutine at work.
LEMMA WhoReleases ==
  ASSUME TypeInvariant, OneAtATime, [Next]_vars, NEW t \in Threads,
         pc[t] \in Walking, rmMu = t, rmMu' = NoThread
  PROVE  /\ UNCHANGED latest
         /\ \/ ConnectBlock(t) /\ step[t] > Len(fork[t].cand)
            \/ EmergencyRollback(t) /\ step[t] > Len(fork[t].active)
<1>1. t # NoThread /\ rmMu' # rmMu
  BY ThreadsAssumption
<1>2. ASSUME NEW u \in Threads, ThreadStep(u)
      PROVE  \/ ConnectBlock(u) /\ step[u] > Len(fork[u].cand)
             \/ EmergencyRollback(u) /\ step[u] > Len(fork[u].active)
             \/ rmMu' = u
  BY <1>1, <1>2
  DEF ThreadStep, Return, ProcessNewBlock, AddOrphanBlock, TryResolveOrphans,
      KeepFork, StartReorg, DisconnectBlock, ConnectBlock, UndoCandidate,
      EmergencyRollback, EnterAddBlock, ValidateAndExecuteBlock,
      WriteBlock, WriteCanonicalHash, WriteHeadBlockHash, lockVars
<1>3. PICK u \in Threads : ThreadStep(u)
  BY <1>1 DEF Next, AddBlock, DetectAndResolveForks, NextDetectedFork,
     CleanupExpiredOrphans, TriggerSyncFromBlock, StartSync, StopSync, TruncateTo,
     CollectCanonicalHash, CommitTruncation, StoreTruncatedTip, vars, lockVars
<1>4. \/ ConnectBlock(u) /\ step[u] > Len(fork[u].cand)
      \/ EmergencyRollback(u) /\ step[u] > Len(fork[u].active)
  BY <1>2, <1>3, ThreadsAssumption
<1>5. u = t
  BY <1>4 DEF ConnectBlock, EmergencyRollback, OneAtATime, Walking
<1>6. UNCHANGED latest
  BY <1>4 DEF ConnectBlock, EmergencyRollback, chainVars
<1> QED BY <1>4, <1>5, <1>6

\* A failed reorganization gives back the tip it started from (emergencyRollback).
THEOREM RollbackRestoresTip ==
  ASSUME OneTrunk, FeePaying = {}, TruncateHeights = {}
  PROVE  Spec /\ []OneAtATime => FailedReorgRestoresTip
<1>1. ASSUME TypeInvariant, SequentialInvariant, OneAtATime, [Next]_vars,
             NEW t \in Threads, pc[t] = "rollback", rmMu = t, rmMu' = NoThread
      PROVE  latest' = from[t]
  <2> DEFINE f == fork[t]
             x == from[t]
  <2>1. UNCHANGED latest /\ step[t] > Len(f.active)
    BY <1>1, WhoReleases DEF Walking, ConnectBlock
  <2>2. ForkFits(f, x) /\ OnActive(f, x, step[t] - 1)
    BY <1>1 DEF SequentialInvariant, SequentialPhase, ReorgInOrder
  <2>3. f \in Forks /\ step[t] \in Nat
    BY <1>1 DEF TypeInvariant, LocalsOK, Reorganizing
  <2>4. /\ x \in AllBlocks /\ Height(x) \in Nat /\ Low(f, x) \in Nat
        /\ Len(f.active) \in Nat /\ Low(f, x) + Len(f.active) = Height(x)
    BY <1>1, <2>2, <2>3, ReorgLocals
  <2>5. Low(f, x) + (step[t] - 1) <= Height(x) /\ latest = Ancestor(x, Low(f, x) + (step[t] - 1))
    BY <2>2 DEF OnActive
  <2>6. Low(f, x) + (step[t] - 1) = Height(x)
    <3> HIDE DEF f, x
    <3> QED BY <2>1, <2>3, <2>4, <2>5
  <2> QED BY <2>1, <2>4, <2>5, <2>6, AncestorAtTop
<1>2. /\ TypeInvariant /\ SequentialInvariant /\ OneAtATime /\ [Next]_vars
      => [\A t \in Threads :
            pc[t] = "rollback" /\ rmMu = t /\ rmMu' = NoThread
              => latest' = from[t]]_vars
  BY <1>1
<1>3. Spec => []TypeInvariant
  BY TypeCorrect
<1>4. Spec /\ []OneAtATime => []SequentialInvariant
  BY SequentialInvariantHolds
<1> QED BY <1>2, <1>3, <1>4, PTL DEF Spec, FailedReorgRestoresTip

\* How far below its start a reorganization has taken the tip.
DepthKept ==
  \A t \in Threads :
    pc[t] \in {"disconnect", "connect", "undo"}
      => Height(from[t]) - CurrentHeight <= MaxReorgDepth

LEMMA DepthIsKept ==
  TypeInvariant /\ SequentialInvariant => DepthKept
<1> SUFFICES ASSUME TypeInvariant, SequentialInvariant, NEW t \in Threads,
                    pc[t] \in {"disconnect", "connect", "undo"}
             PROVE  Height(from[t]) - CurrentHeight <= MaxReorgDepth
  BY DEF DepthKept
<1> DEFINE f == fork[t]
           x == from[t]
<1>1. ReorgInOrder(t) /\ ForkFits(f, x) /\ Len(f.active) <= MaxReorgDepth
  BY DEF SequentialInvariant, SequentialPhase, ReorgInOrder
<1>2. f \in Forks /\ step[t] \in Int /\ MaxReorgDepth \in Nat
  BY BoundsAssumption DEF TypeInvariant, TypeOK, LocalsOK, Reorganizing
<1>3. /\ x \in AllBlocks /\ Height(x) \in Nat /\ Low(f, x) \in Nat /\ f.height \in Nat
      /\ Len(f.active) \in Nat /\ Low(f, x) + Len(f.active) = Height(x)
  BY <1>1, <1>2, ReorgLocals
<1>4. ASSUME NEW j \in Int, OnActive(f, x, j) PROVE CurrentHeight = Low(f, x) + j /\ j >= 0
  <2>1. Low(f, x) + j \in 0..Height(x)
    <3>1. j >= 0 /\ Low(f, x) + j <= Height(x)
      BY <1>4 DEF OnActive
    <3> HIDE DEF f, x
    <3> QED BY <1>3, <1>4, <3>1
  <2>2. latest = Ancestor(x, Low(f, x) + j) /\ j >= 0
    BY <1>4 DEF OnActive
  <2> QED BY <1>3, <2>1, <2>2, AncestorIs DEF CurrentHeight
<1>5. ASSUME NEW j \in Int, OnCandidate(f, x, j)
      PROVE  CurrentHeight \in Int /\ CurrentHeight >= Low(f, x)
  <2>1. CASE OnActive(f, x, 0)
    BY <1>3, <1>4, <2>1
  <2>2. CASE j \in 1..Len(f.cand) /\ f.height <= Height(x) /\ latest = f.cand[j]
    <3>1. CurrentHeight = f.height + j /\ Low(f, x) = f.height
      BY <1>1, <2>2 DEF ForkFits, CurrentHeight, Low
    <3> QED BY <1>3, <2>2, <3>1
  <2> QED BY <1>5, <2>1, <2>2 DEF OnCandidate
<1>6. CurrentHeight \in Int /\ CurrentHeight >= Low(f, x)
  <2>1. CASE pc[t] = "disconnect"
    <3>1. OnActive(f, x, step[t])
      BY <1>1, <2>1 DEF ReorgInOrder
    <3> QED BY <1>2, <1>3, <1>4, <3>1
  <2>2. CASE pc[t] = "connect"
    <3>1. OnCandidate(f, x, step[t] - 1) /\ step[t] - 1 \in Int
      BY <1>1, <1>2, <2>2 DEF ReorgInOrder
    <3> QED BY <1>5, <3>1
  <2>3. CASE pc[t] = "undo"
    <3>1. OnCandidate(f, x, step[t])
      BY <1>1, <2>3 DEF ReorgInOrder
    <3> QED BY <1>2, <1>5, <3>1
  <2> QED BY <2>1, <2>2, <2>3
<1> HIDE DEF f
<1> QED BY <1>1, <1>2, <1>3, <1>6

\* A reorganization stays within ManagerMaxReorgDepth below the tip it started
\* from, and when it completes it has gained cumulative work (performReorg).
THEOREM ReorgGainsWork ==
  ASSUME OneTrunk, FeePaying = {}, TruncateHeights = {}
  PROVE  Spec /\ []OneAtATime => ReorgGainsWorkInDepth
<1>1. ASSUME TypeInvariant, SequentialInvariant, OneAtATime, [Next]_vars,
             NEW t \in Threads, pc[t] = "connect", rmMu = t, rmMu' = NoThread
      PROVE  TotalWork(latest') > TotalWork(from[t])
  <2> DEFINE f == fork[t]
             x == from[t]
  <2>1. UNCHANGED latest /\ step[t] > Len(f.cand)
    BY <1>1, WhoReleases DEF Walking, EmergencyRollback
  <2>2. ForkFits(f, x) /\ OnCandidate(f, x, step[t] - 1)
    BY <1>1 DEF SequentialInvariant, SequentialPhase, ReorgInOrder
  <2>3. f \in Forks /\ step[t] \in Nat
    BY <1>1 DEF TypeInvariant, LocalsOK, Reorganizing
  <2>4. Len(f.cand) \in Nat /\ Len(f.cand) >= 1
    BY <1>1, <2>2, <2>3, ReorgLocals DEF ForkFits
  <2>5. step[t] - 1 # 0 /\ (step[t] - 1 \in 1..Len(f.cand) => step[t] - 1 = Len(f.cand))
    <3> HIDE DEF f
    <3> QED BY <2>1, <2>3, <2>4
  <2>6. latest = f.cand[Len(f.cand)] /\ f.height <= Height(x)
    BY <2>2, <2>5 DEF OnCandidate
  <2> QED BY <2>1, <2>2, <2>6 DEF ForkFits
<1>2. /\ TypeInvariant /\ SequentialInvariant /\ OneAtATime /\ [Next]_vars
      /\ DepthKept'
      => [\A t \in Threads :
            /\ pc[t] = "connect" /\ rmMu = t /\ rmMu' = NoThread
                 => TotalWork(latest') > TotalWork(from[t])
            /\ pc'[t] \in {"disconnect", "connect", "undo"}
                 => Height(from'[t]) - CurrentHeight' <= MaxReorgDepth]_vars
  BY <1>1 DEF DepthKept
<1>3. TypeInvariant /\ SequentialInvariant => DepthKept
  BY DepthIsKept
<1>4. Spec => []TypeInvariant
  BY TypeCorrect
<1>5. Spec /\ []OneAtATime => []SequentialInvariant
  BY SequentialInvariantHolds
<1> QED BY <1>2, <1>3, <1>4, <1>5, PTL DEF Spec, ReorgGainsWorkInDepth
=============================================================================
