---------------------------- MODULE TxPoolProofs ----------------------------
(***************************************************************************)
(* Theorems about TxPool, for any transactions, callers, limits and chain  *)
(* length.                                                                 *)
(***************************************************************************)
EXTENDS TxPool, FiniteSetTheorems, SequenceTheorems, TLAPS

-----------------------------------------------------------------------------
\* Type correctness

\* CommitBlock counts on the room that ExecuteBlock saw.
TypeInv == TypeOK /\ (phase = "executed" => Height < MaxHeight)

LEMMA NonceValuesAreInt == NonceValues \subseteq Int
  BY PoolAssumption DEF NonceValues

LEMMA RemovalTyped ==
  ASSUME TypeOK, NEW gone, RemoveLocked(gone)
  PROVE  /\ txs' \subseteq Txs
         /\ bySender' \in [Senders -> SUBSET Txs]
         /\ submitHeight' \in [Txs -> 0..MaxHeight]
  <1>1. txs' \subseteq Txs
    BY DEF TypeOK, RemoveLocked
  <1>2. bySender' \in [Senders -> SUBSET Txs]
    BY DEF TypeOK, RemoveLocked
  <1>3. 0 \in 0..MaxHeight
    BY PoolAssumption
  <1>4. submitHeight' \in [Txs -> 0..MaxHeight]
    BY <1>3 DEF TypeOK, RemoveLocked
  <1> QED
    BY <1>1, <1>2, <1>4

LEMMA RebuildTyped ==
  ASSUME TypeOK, NEW gone, RemoveAndRebuild(gone)
  PROVE  /\ txs' \subseteq Txs /\ pendingHeap' \subseteq Txs
         /\ bySender' \in [Senders -> SUBSET Txs]
         /\ submitHeight' \in [Txs -> 0..MaxHeight]
  BY RemovalTyped DEF TypeOK, RemoveAndRebuild

LEMMA ReturnTyped ==
  ASSUME TypeOK, NEW c \in Callers, Return(c)
  PROVE  /\ pc' \in [Callers -> {"idle", "lock"}]
         /\ tx' \in [Callers -> Txs \cup {NoTx}]
         /\ \A d \in Callers : pc'[d] = "lock" => tx'[d] \in Txs
         /\ stateNonce' \in [Callers -> Int]
         /\ latestHeight' \in [Callers -> 0..MaxHeight]
  <1>1. 0 \in 0..MaxHeight /\ 0 \in Int
    BY PoolAssumption
  <1> QED
    BY <1>1 DEF TypeOK, Return

LEMMA InitTyped == Init => TypeInv
  <1> SUFFICES ASSUME Init PROVE TypeInv
    OBVIOUS
  <1>1. 0 \in 0..MaxHeight /\ 0 \in 0..MaxWaiting /\ 0 \in Int
    BY PoolAssumption
  <1>2. /\ chain = <<>> /\ chain \in Seq(Blocks) /\ Len(chain) = 0
        /\ block \in Blocks
    BY DEF Init, NoBlock, Blocks, NonceMaps
  <1> QED
    <2>1. /\ nonce \in NonceMaps
          /\ stateNonce \in [Callers -> Int]
          /\ latestHeight \in [Callers -> 0..MaxHeight]
          /\ submitHeight \in [Txs -> 0..MaxHeight]
      BY <1>1 DEF Init, NonceMaps
    <2>2. /\ bySender \in [Senders -> SUBSET Txs]
          /\ pc \in [Callers -> {"idle", "lock"}]
          /\ \A c \in Callers : pc[c] = "idle"
          /\ tx \in [Callers -> Txs \cup {NoTx}]
      BY DEF Init
    <2>3. /\ txs \subseteq Txs /\ pendingHeap \subseteq Txs
          /\ waiting \in 0..MaxWaiting /\ leaked \in BOOLEAN
          /\ cleaner = "stale" /\ txSnapshot \subseteq Txs /\ toRemove \subseteq Txs
          /\ phase = "none"
      BY <1>1 DEF Init
    <2>4. Len(chain) <= MaxHeight
      BY <1>2, PoolAssumption
    <2> QED
      BY <1>2, <2>1, <2>2, <2>3, <2>4 DEF TypeInv, TypeOK

LEMMA StepTyped == TypeInv /\ [Next]_vars => TypeInv'
  <1> SUFFICES ASSUME TypeInv, [Next]_vars PROVE TypeInv'
    OBVIOUS
  <1> USE PoolAssumption DEF TypeInv, Height
  <1>0. TypeOK /\ 0 \in 0..MaxHeight /\ 0 \in 0..MaxWaiting /\ 0 \in Int
    BY DEF TypeOK
  <1>1. ASSUME NEW c \in Callers, NEW t \in Txs, ReadChain(c, t) PROVE TypeInv'
    <2>1. Len(chain) \in 0..MaxHeight /\ nonce[From[t]] \in Int
      BY DEF TypeOK, NonceMaps
    <2>2. latestHeight' \in [Callers -> 0..MaxHeight]
      BY <1>0, <1>1, <2>1 DEF TypeOK, ReadChain
    <2>3. /\ pc' \in [Callers -> {"idle", "lock"}]
          /\ tx' \in [Callers -> Txs \cup {NoTx}]
          /\ \A d \in Callers : pc'[d] = "lock" => tx'[d] \in Txs
          /\ stateNonce' \in [Callers -> Int]
      BY <1>1, <2>1 DEF TypeOK, ReadChain
    <2> QED
      BY <1>1, <2>2, <2>3
      DEF TypeOK, ReadChain, poolVars, lockVars, cleanVars, chainVars
  <1>2. ASSUME NEW c \in Callers, InsertTx(c) PROVE TypeInv'
    <2>1. tx[c] \in Txs /\ latestHeight[c] \in 0..MaxHeight
      BY <1>2 DEF TypeOK, InsertTx
    <2>2. /\ txs' \subseteq Txs /\ pendingHeap' \subseteq Txs
          /\ bySender' \in [Senders -> SUBSET Txs]
          /\ submitHeight' \in [Txs -> 0..MaxHeight]
      <3> DEFINE t == tx[c]
      <3>1. CASE Admissible(t, stateNonce[c])
        <4>1. /\ txs' = txs \cup {t} /\ pendingHeap' = pendingHeap \cup {t}
              /\ bySender' = [bySender EXCEPT ![From[t]] = @ \cup {t}]
              /\ submitHeight' = [submitHeight EXCEPT ![t] = latestHeight[c]]
          BY <1>2, <3>1 DEF InsertTx
        <4> QED
          BY <2>1, <4>1 DEF TypeOK
      <3>2. CASE ~Admissible(t, stateNonce[c])
        BY <1>2, <3>2 DEF TypeOK, InsertTx
      <3> QED
        BY <3>1, <3>2
    <2>3. Return(c)
      BY <1>2 DEF InsertTx
    <2> QED
      BY <1>0, <1>2, <2>2, <2>3, ReturnTyped
      DEF TypeOK, InsertTx, lockVars, cleanVars, chainVars
  <1>3. ASSUME NEW c \in Callers, GiveUp(c) PROVE TypeInv'
    <2>1. Return(c)
      BY <1>3 DEF GiveUp
    <2>2. waiting' \in 0..MaxWaiting
      BY <1>3 DEF TypeOK, GiveUp
    <2> QED
      BY <1>0, <1>3, <2>1, <2>2, ReturnTyped
      DEF TypeOK, GiveUp, poolVars, cleanVars, chainVars
  <1>4. CASE LateLock
    BY <1>4 DEF TypeOK, LateLock, poolVars, callVars, cleanVars, chainVars
  <1>5. ASSUME NEW t \in Txs, RemoveTx(t) PROVE TypeInv'
    <2>1. RemoveLocked({t})
      BY <1>5 DEF RemoveTx
    <2> QED
      BY <1>0, <1>5, <2>1, RemovalTyped
      DEF TypeOK, RemoveTx, lockVars, callVars, cleanVars, chainVars
  <1>6. CASE CleanupStale
    <2>1. PICK old \in SUBSET txs :
            RemoveAndRebuild({t \in txs : Len(chain) - submitHeight[t] > StaleBlockAge} \cup old)
      BY <1>6 DEF CleanupStale
    <2> QED
      BY <1>0, <1>6, <2>1, RebuildTyped
      DEF TypeOK, CleanupStale, lockVars, callVars, chainVars
  <1>7. CASE SnapshotPool
    BY <1>7 DEF TypeOK, SnapshotPool, poolVars, lockVars, callVars, chainVars
  <1>8. CASE SelectInvalid
    BY <1>8 DEF TypeOK, SelectInvalid, poolVars, lockVars, callVars, chainVars
  <1>9. CASE RemoveInvalid
    <2>1. RemoveAndRebuild(toRemove \cap txs)
      BY <1>9 DEF RemoveInvalid
    <2> QED
      BY <1>0, <1>9, <2>1, RebuildTyped
      DEF TypeOK, RemoveInvalid, lockVars, callVars, chainVars
  <1>10. ASSUME NEW B \in SUBSET Txs, ExecuteBlock(B) PROVE TypeInv'
    <2>1. nonce' \in NonceMaps
      <3>1. PICK next \in [Senders -> NonceValues] : nonce' = next
        BY <1>10 DEF ExecuteBlock
      <3> QED
        BY <3>1, NonceValuesAreInt DEF NonceMaps
    <2>2. block' \in Blocks
      BY <1>10 DEF TypeOK, ExecuteBlock, Blocks
    <2> QED
      BY <1>10, <2>1, <2>2
      DEF TypeOK, ExecuteBlock, poolVars, lockVars, callVars, cleanVars
  <1>11. CASE CommitBlock
    <2>1. chain' \in Seq(Blocks) /\ Len(chain') <= MaxHeight
      BY <1>11 DEF TypeOK, CommitBlock
    <2> QED
      BY <1>11, <2>1
      DEF TypeOK, CommitBlock, poolVars, lockVars, callVars, cleanVars
  <1>12. CASE CleanupMinedTransactions
    <2>1. RemoveAndRebuild(block.txs \cap txs)
      BY <1>12 DEF CleanupMinedTransactions
    <2>2. block' \in Blocks
      BY <1>12 DEF CleanupMinedTransactions, NoBlock, Blocks, NonceMaps
    <2> QED
      BY <1>0, <1>12, <2>1, <2>2, RebuildTyped
      DEF TypeOK, CleanupMinedTransactions, lockVars, callVars, cleanVars
  <1>13. CASE RevertBlock
    <2> DEFINE L == Len(chain)
    <2>1. L \in Nat /\ L <= MaxHeight /\ L \in 1..L /\ chain[L] \in Blocks
      BY <1>13 DEF TypeOK, RevertBlock
    <2>2. chain' = SubSeq(chain, 1, L - 1) /\ nonce' = chain[L].nonces
      BY <1>13 DEF RevertBlock
    <2>3. chain' \in Seq(Blocks) /\ Len(chain') = L - 1
      <3> HIDE DEF L
      <3>1. L = Len(chain) /\ chain \in Seq(Blocks)
        BY DEF L, TypeOK
      <3> QED
        BY <2>1, <2>2, <3>1
    <2>4. nonce' \in NonceMaps
      BY <2>1, <2>2 DEF Blocks
    <2> HIDE DEF L
    <2> QED
      BY <1>13, <2>1, <2>3, <2>4
      DEF TypeOK, RevertBlock, poolVars, lockVars, callVars, cleanVars
  <1>14. CASE Restart
    <2>1. PICK saved \in {{}} \cup (IF leaked THEN {} ELSE {txs}) :
            /\ txs' = {t \in saved : ~Spent(t)}
            /\ pendingHeap' = txs'
            /\ bySender' = [s \in Senders |-> bySender[s] \cap txs']
            /\ submitHeight' = [t \in Txs |-> IF t \in txs' THEN submitHeight[t] ELSE 0]
      BY <1>14 DEF Restart
    <2>2. /\ txs' \subseteq Txs /\ pendingHeap' \subseteq Txs
          /\ bySender' \in [Senders -> SUBSET Txs]
          /\ submitHeight' \in [Txs -> 0..MaxHeight]
      BY <1>0, <2>1 DEF TypeOK
    <2>3. block' \in Blocks
      BY <1>14 DEF Restart, NoBlock, Blocks, NonceMaps
    <2> QED
      BY <1>0, <1>14, <2>2, <2>3 DEF TypeOK, Restart
  <1>15. CASE UNCHANGED vars
    BY <1>15 DEF TypeOK, vars, poolVars, lockVars, callVars, cleanVars, chainVars
  <1> QED
    BY <1>1, <1>2, <1>3, <1>4, <1>5, <1>6, <1>7, <1>8, <1>9, <1>10, <1>11, <1>12,
       <1>13, <1>14, <1>15 DEF Next, Clean

\* Whatever the interleaving, every variable of the pool, of its callers, of
\* the cleaner and of the chain keeps its type.
THEOREM TypeCorrect == Spec => []TypeOK
  <1>1. TypeInv => TypeOK
    BY DEF TypeInv
  <1> QED
    BY InitTyped, StepTyped, <1>1, PTL DEF Spec

-----------------------------------------------------------------------------
\* The pool is sound

LEMMA PoolFinite ==
  ASSUME TypeOK
  PROVE  /\ IsFiniteSet(txs)
         /\ \A s \in Senders : IsFiniteSet(bySender[s])
  BY PoolAssumption, FS_Subset DEF TypeOK

\* What is left of a sound pool is sound.
LEMMA SmallerPoolSound ==
  ASSUME TypeOK, PoolSound,
         txs' \subseteq txs, txs' \subseteq pendingHeap',
         bySender' = [s \in Senders |-> bySender[s] \cap txs']
  PROVE  PoolSound'
  <1>1. /\ Cardinality(txs') \in Nat /\ Cardinality(txs) \in Nat
        /\ Cardinality(txs') <= Cardinality(txs)
    BY PoolFinite, FS_Subset, FS_CardinalityType
  <1>2. ASSUME NEW s \in Senders
        PROVE  /\ bySender'[s] = {t \in txs' : From[t] = s}
               /\ Cardinality(bySender'[s]) <= MaxTxsPerSender
    <2>1. bySender'[s] = bySender[s] \cap txs'
      OBVIOUS
    <2>2. /\ IsFiniteSet(bySender[s]) /\ bySender'[s] \subseteq bySender[s]
          /\ Cardinality(bySender[s]) <= MaxTxsPerSender
      BY <2>1, PoolFinite DEF PoolSound
    <2>3. /\ Cardinality(bySender'[s]) \in Nat /\ Cardinality(bySender[s]) \in Nat
          /\ Cardinality(bySender'[s]) <= Cardinality(bySender[s])
      BY <2>2, FS_Subset, FS_CardinalityType
    <2> QED
      BY <2>1, <2>2, <2>3, PoolAssumption DEF PoolSound
  <1>3. \A t, u \in txs' : From[t] = From[u] /\ Nonce[t] = Nonce[u] => t = u
    BY DEF PoolSound
  <1>4. Cardinality(txs') <= MaxPoolSize
    BY <1>1, PoolAssumption DEF PoolSound
  <1> QED
    BY <1>2, <1>3, <1>4 DEF PoolSound

LEMMA RemovalSound ==
  ASSUME TypeOK, PoolSound, NEW gone, RemoveLocked(gone), txs' \subseteq pendingHeap'
  PROVE  PoolSound'
  <1>1. txs' = txs \ gone
    BY DEF RemoveLocked
  <1>2. ASSUME NEW s \in Senders PROVE bySender[s] \ gone = bySender[s] \cap txs'
    BY <1>1 DEF PoolSound
  <1>3. bySender' = [s \in Senders |-> bySender[s] \cap txs']
    BY <1>2 DEF RemoveLocked
  <1> QED
    BY <1>1, <1>3, SmallerPoolSound

LEMMA RebuildSound ==
  ASSUME TypeOK, PoolSound, NEW gone, RemoveAndRebuild(gone)
  PROVE  PoolSound'
  <1>1. RemoveLocked(gone)
    BY DEF RemoveAndRebuild
  <1>2. txs' \subseteq pendingHeap'
    BY DEF RemoveAndRebuild, RemoveLocked, PoolSound
  <1> QED
    BY <1>1, <1>2, RemovalSound

\* The checks under the lock suffice, whatever nonce n was read before it.
LEMMA InsertionSound ==
  ASSUME TypeOK, PoolSound, NEW t \in Txs, NEW n, Admissible(t, n),
         txs' = txs \cup {t}, pendingHeap' = pendingHeap \cup {t},
         bySender' = [bySender EXCEPT ![From[t]] = @ \cup {t}]
  PROVE  PoolSound'
  <1>1. From[t] \in Senders /\ t \notin txs
    BY PoolAssumption DEF Admissible
  <1>2. /\ Cardinality(txs') = Cardinality(txs) + 1
        /\ Cardinality(txs) \in Nat
    BY <1>1, PoolFinite, FS_AddElement, FS_CardinalityType
  <1>3. Cardinality(txs') <= MaxPoolSize
    BY <1>2, PoolAssumption DEF Admissible
  <1>4. ASSUME NEW s \in Senders
        PROVE  /\ bySender'[s] = {u \in txs' : From[u] = s}
               /\ Cardinality(bySender'[s]) <= MaxTxsPerSender
    <2>1. CASE s = From[t]
      <3>1. bySender'[s] = bySender[s] \cup {t}
        BY <2>1 DEF TypeOK
      <3>2. bySender[s] = {u \in txs : From[u] = s}
        BY DEF PoolSound
      <3>3. t \notin bySender[s]
        BY <1>1, <3>2
      <3>4. /\ Cardinality(bySender'[s]) = Cardinality(bySender[s]) + 1
            /\ Cardinality(bySender[s]) \in Nat
        BY <3>1, <3>3, PoolFinite, FS_AddElement, FS_CardinalityType
      <3>5. Cardinality(bySender[s]) < MaxTxsPerSender
        BY <2>1 DEF Admissible
      <3>6. Cardinality(bySender'[s]) <= MaxTxsPerSender
        BY <3>4, <3>5, PoolAssumption
      <3> QED
        BY <2>1, <3>1, <3>2, <3>6
    <2>2. CASE s # From[t]
      <3>1. bySender'[s] = bySender[s]
        BY <2>2 DEF TypeOK
      <3> QED
        BY <2>2, <3>1 DEF PoolSound
    <2> QED
      BY <2>1, <2>2
  <1>5. ASSUME NEW u \in txs, From[u] = From[t] PROVE Nonce[u] # Nonce[t]
    BY <1>1, <1>5 DEF PoolSound, Admissible
  <1>6. \A u, v \in txs' : From[u] = From[v] /\ Nonce[u] = Nonce[v] => u = v
    BY <1>5 DEF PoolSound
  <1>7. txs' \subseteq pendingHeap'
    BY DEF PoolSound
  <1> QED
    BY <1>3, <1>4, <1>6, <1>7 DEF PoolSound

LEMMA PoolStepSound == TypeOK /\ PoolSound /\ [Next]_vars => PoolSound'
  <1> SUFFICES ASSUME TypeOK, PoolSound, [Next]_vars PROVE PoolSound'
    OBVIOUS
  <1>1. ASSUME UNCHANGED poolVars PROVE PoolSound'
    BY <1>1 DEF PoolSound, poolVars
  <1>2. ASSUME NEW c \in Callers, InsertTx(c) PROVE PoolSound'
    <2> DEFINE t == tx[c]
    <2>1. t \in Txs
      BY <1>2 DEF TypeOK, InsertTx
    <2>2. CASE Admissible(t, stateNonce[c])
      <3>1. /\ txs' = txs \cup {t} /\ pendingHeap' = pendingHeap \cup {t}
            /\ bySender' = [bySender EXCEPT ![From[t]] = @ \cup {t}]
        BY <1>2, <2>2 DEF InsertTx
      <3> HIDE DEF t
      <3> QED
        BY <2>1, <2>2, <3>1, InsertionSound
    <2>3. CASE ~Admissible(t, stateNonce[c])
      BY <1>1, <1>2, <2>3 DEF InsertTx, poolVars
    <2> QED
      BY <2>2, <2>3
  <1>3. ASSUME NEW t \in Txs, RemoveTx(t) PROVE PoolSound'
    <2>1. RemoveLocked({t}) /\ pendingHeap' = pendingHeap
      BY <1>3 DEF RemoveTx
    <2>2. txs' \subseteq pendingHeap'
      BY <2>1 DEF RemoveLocked, PoolSound
    <2> QED
      BY <2>1, <2>2, RemovalSound
  <1>4. CASE Clean
    <2>1. CASE CleanupStale
      BY <2>1, RebuildSound DEF CleanupStale
    <2>2. CASE RemoveInvalid
      BY <2>2, RebuildSound DEF RemoveInvalid
    <2> QED
      BY <1>1, <1>4, <2>1, <2>2 DEF Clean, SnapshotPool, SelectInvalid
  <1>5. CASE CleanupMinedTransactions
    BY <1>5, RebuildSound DEF CleanupMinedTransactions
  <1>6. CASE Restart
    <2>1. PICK saved \in {{}} \cup (IF leaked THEN {} ELSE {txs}) :
            /\ txs' = {t \in saved : ~Spent(t)}
            /\ pendingHeap' = txs'
            /\ bySender' = [s \in Senders |-> bySender[s] \cap txs']
      BY <1>6 DEF Restart
    <2>2. txs' \subseteq txs
      BY <2>1
    <2> QED
      BY <2>1, <2>2, SmallerPoolSound
  <1>7. CASE UNCHANGED vars
    BY <1>1, <1>7 DEF vars
  <1> QED
    BY <1>1, <1>2, <1>3, <1>4, <1>5, <1>6, <1>7
    DEF Next, ReadChain, GiveUp, LateLock, ExecuteBlock, CommitBlock, RevertBlock

\* For any limits and any number of callers that read the account nonce before
\* they have the lock, with every timeout, removal, cleanup, revert and
\* restart: addTx and removeLocked keep the indexes, the limits, and one
\* pending transaction per sender and nonce.
THEOREM PoolIsSound == Spec => []PoolSound
  <1>1. Init => PoolSound
    <2> SUFFICES ASSUME Init PROVE PoolSound
      OBVIOUS
    <2>1. Cardinality({}) = 0
      BY FS_EmptySet
    <2>2. txs = {} /\ \A s \in Senders : bySender[s] = {}
      BY DEF Init
    <2> QED
      BY <2>1, <2>2, PoolAssumption DEF PoolSound
  <1> QED
    BY <1>1, TypeCorrect, PoolStepSound, PTL DEF Spec

-----------------------------------------------------------------------------
\* The heap

LEMMA RebuildPending ==
  ASSUME PendingInPool, PoolSound, NEW gone, RemoveAndRebuild(gone)
  PROVE  PendingInPool'
  BY DEF PendingInPool, PoolSound, RemoveAndRebuild, RemoveLocked

\* If the console removes nothing, GetPending offers what is in the pool:
\* every other removal rebuilds the heap.
THEOREM HeapFollowsPool ==
  ASSUME "removal" \notin Disturbances
  PROVE  Spec => []PendingInPool
  <1>1. Init => PendingInPool
    BY DEF Init, PendingInPool
  <1>2. PoolSound /\ PendingInPool /\ [Next]_vars => PendingInPool'
    <2> SUFFICES ASSUME PoolSound, PendingInPool, [Next]_vars PROVE PendingInPool'
      OBVIOUS
    <2>1. ASSUME UNCHANGED poolVars PROVE PendingInPool'
      BY <2>1 DEF PendingInPool, poolVars
    <2>2. ASSUME NEW c \in Callers, InsertTx(c) PROVE PendingInPool'
      BY <2>2 DEF PendingInPool, InsertTx
    <2>3. CASE Clean
      <3>1. CASE CleanupStale
        BY <3>1, RebuildPending DEF CleanupStale
      <3>2. CASE RemoveInvalid
        BY <3>2, RebuildPending DEF RemoveInvalid
      <3> QED
        BY <2>1, <2>3, <3>1, <3>2 DEF Clean, SnapshotPool, SelectInvalid
    <2>4. CASE CleanupMinedTransactions
      BY <2>4, RebuildPending DEF CleanupMinedTransactions
    <2>5. CASE Restart
      BY <2>5 DEF Restart, PendingInPool
    <2>6. CASE UNCHANGED vars
      BY <2>1, <2>6 DEF vars
    <2> QED
      BY <2>1, <2>2, <2>3, <2>4, <2>5, <2>6
      DEF Next, ReadChain, GiveUp, LateLock, RemoveTx, ExecuteBlock, CommitBlock,
          RevertBlock
  <1> QED
    BY <1>1, <1>2, PoolIsSound, PTL DEF Spec

-----------------------------------------------------------------------------
\* A transfer is mined once

\* The nonces of the transfers in the chain's blocks: used now, used in the
\* state of every later block, and unused in the state of their own.
HistoryInv ==
  /\ \A k \in 1..Height : \A t \in chain[k].txs \ Data :
       /\ Spent(t)
       /\ chain[k].nonces[From[t]] <= Nonce[t]
  /\ \A j, k \in 1..Height : \A t \in chain[j].txs \ Data :
       j < k => Nonce[t] < chain[k].nonces[From[t]]
  /\ phase = "executed" =>
       /\ \A t \in block.txs \ Data : Spent(t) /\ block.nonces[From[t]] <= Nonce[t]
       /\ \A k \in 1..Height : \A t \in chain[k].txs \ Data :
            Nonce[t] < block.nonces[From[t]]

LEMMA ChainTyped ==
  ASSUME TypeOK
  PROVE  /\ Height \in Nat
         /\ \A k \in 1..Height :
              chain[k].txs \subseteq Txs /\ chain[k].nonces \in NonceMaps
  <1>1. chain \in Seq(Blocks) /\ Height \in Nat /\ Height = Len(chain)
    BY DEF TypeOK, Height
  <1>2. \A k \in 1..Height : chain[k] \in Blocks
    BY <1>1, ElementOfSeq
  <1> QED
    BY <1>1, <1>2 DEF Blocks

LEMMA HistoryMinedOnce == TypeOK /\ HistoryInv => MinedOnce
  <1> SUFFICES ASSUME TypeOK, HistoryInv,
                      NEW i \in 1..Height, NEW j \in 1..Height, i # j,
                      NEW t \in chain[i].txs \ Data, t \in chain[j].txs
               PROVE  FALSE
    BY DEF MinedOnce
  <1>1. /\ t \in Txs /\ Nonce[t] \in Int
        /\ chain[i].nonces[From[t]] \in Int /\ chain[j].nonces[From[t]] \in Int
    BY PoolAssumption, ChainTyped DEF NonceMaps
  <1>2. CASE i < j
    BY <1>1, <1>2 DEF HistoryInv
  <1>3. CASE j < i
    BY <1>1, <1>3 DEF HistoryInv
  <1> QED
    BY <1>2, <1>3 DEF Height, TypeOK

\* A block moves no nonce back, and uses those of its transfers.
LEMMA BlockMovesOn ==
  ASSUME TypeOK, NEW B \in SUBSET Txs, ExecuteBlock(B)
  PROVE  /\ nonce' \in NonceMaps
         /\ \A s \in Senders : nonce'[s] >= nonce[s]
         /\ \A t \in B \ Data : nonce[From[t]] <= Nonce[t] /\ Nonce[t] < nonce'[From[t]]
  <1>1. PICK next \in [Senders -> NonceValues] : Mineable(B, next) /\ nonce' = next
    BY DEF ExecuteBlock
  <1>2. nonce' \in NonceMaps
    BY <1>1, NonceValuesAreInt DEF NonceMaps
  <1>3. \A t \in B : From[t] \in Senders
    BY PoolAssumption
  <1>4. ASSUME NEW s \in Senders
        PROVE  /\ nonce'[s] >= nonce[s]
               /\ \A t \in B \ Data :
                    From[t] = s => nonce[s] <= Nonce[t] /\ Nonce[t] < nonce'[s]
    BY <1>1 DEF Mineable
  <1> QED
    BY <1>2, <1>3, <1>4

LEMMA HistoryStep == TypeOK /\ HistoryInv /\ [Next]_vars => HistoryInv'
  <1> SUFFICES ASSUME TypeOK, HistoryInv, [Next]_vars PROVE HistoryInv'
    OBVIOUS
  <1> DEFINE L == Height
  <1>0. /\ L \in Nat /\ L = Len(chain) /\ chain \in Seq(Blocks) /\ block \in Blocks
        /\ nonce \in NonceMaps
        /\ \A k \in 1..L : chain[k].txs \subseteq Txs /\ chain[k].nonces \in NonceMaps
    BY ChainTyped DEF TypeOK, Height
  <1>1. ASSUME UNCHANGED <<nonce, chain>>,
               phase' # "executed" \/ UNCHANGED <<phase, block>>
        PROVE  HistoryInv'
    BY <1>1 DEF HistoryInv, Height, Spent
  <1>2. ASSUME NEW B \in SUBSET Txs, ExecuteBlock(B) PROVE HistoryInv'
    <2>1. /\ nonce' \in NonceMaps
          /\ \A s \in Senders : nonce'[s] >= nonce[s]
          /\ \A t \in B \ Data : nonce[From[t]] <= Nonce[t] /\ Nonce[t] < nonce'[From[t]]
      BY <1>2, BlockMovesOn
    <2>2. chain' = chain /\ block'.txs = B /\ block'.nonces = nonce
      BY <1>2 DEF ExecuteBlock
    <2>3. ASSUME NEW k \in 1..L, NEW t \in chain[k].txs \ Data
          PROVE  Nonce[t] < nonce[From[t]] /\ Nonce[t] < nonce'[From[t]]
      <3>1. Nonce[t] < nonce[From[t]]
        BY DEF HistoryInv, Spent
      <3>2. /\ From[t] \in Senders /\ Nonce[t] \in Int
            /\ nonce[From[t]] \in Int /\ nonce'[From[t]] \in Int
        BY <1>0, <2>1, PoolAssumption DEF NonceMaps
      <3> QED
        BY <2>1, <3>1, <3>2
    <2> QED
      BY <2>1, <2>2, <2>3 DEF HistoryInv, Height, Spent
  <1>3. CASE CommitBlock
    <2>1. /\ chain' = Append(chain, block) /\ phase = "executed"
          /\ phase' = "committed" /\ nonce' = nonce
      BY <1>3 DEF CommitBlock
    <2>2. /\ Len(chain') = L + 1 /\ chain'[L + 1] = block
          /\ \A k \in 1..L : chain'[k] = chain[k]
      BY <1>0, <2>1
    <2> HIDE DEF L
    <2>3. \A k \in 1..(L + 1) : k \in 1..L \/ k = L + 1
      BY <1>0
    <2>4. ASSUME NEW k \in 1..(L + 1), NEW t \in chain'[k].txs \ Data
          PROVE  Nonce[t] < nonce[From[t]] /\ chain'[k].nonces[From[t]] <= Nonce[t]
      BY <2>1, <2>2, <2>3 DEF HistoryInv, Spent, L
    <2>5. ASSUME NEW j \in 1..(L + 1), NEW k \in 1..(L + 1),
                 NEW t \in chain'[j].txs \ Data, j < k
          PROVE  Nonce[t] < chain'[k].nonces[From[t]]
      <3>1. j \in 1..L /\ chain'[j] = chain[j]
        BY <1>0, <2>2, <2>5
      <3>2. CASE k = L + 1
        BY <2>1, <2>2, <3>1, <3>2 DEF HistoryInv, L
      <3>3. CASE k \in 1..L
        BY <2>2, <2>5, <3>1, <3>3 DEF HistoryInv, L
      <3> QED
        BY <2>3, <3>2, <3>3
    <2> QED
      BY <2>1, <2>2, <2>4, <2>5 DEF HistoryInv, Height, Spent
  <1>4. CASE RevertBlock
    <2>1. /\ L \in 1..L /\ chain' = SubSeq(chain, 1, L - 1)
          /\ nonce' = chain[L].nonces /\ phase' # "executed"
      BY <1>0, <1>4 DEF RevertBlock
    <2>2. L = Len(chain)
      BY <1>0
    <2> HIDE DEF L
    <2>3. /\ Len(chain') = L - 1
          /\ \A k \in 1..(L - 1) : k \in 1..L /\ k < L /\ chain'[k] = chain[k]
      BY <1>0, <2>1, <2>2, SubSeqProperties
    <2> QED
      BY <2>1, <2>3 DEF HistoryInv, Height, Spent, L
  <1>5. CASE Restart
    BY <1>1, <1>5 DEF Restart
  <1>6. CASE CleanupMinedTransactions
    BY <1>1, <1>6 DEF CleanupMinedTransactions
  <1>7. ASSUME UNCHANGED chainVars PROVE HistoryInv'
    BY <1>1, <1>7 DEF chainVars
  <1> QED
    BY <1>2, <1>3, <1>4, <1>5, <1>6, <1>7
    DEF Next, Clean, vars, ReadChain, InsertTx, GiveUp, LateLock, RemoveTx,
        CleanupStale, SnapshotPool, SelectInvalid, RemoveInvalid

\* No chain of any length contains a transfer twice, whatever is reverted,
\* resubmitted or mined elsewhere: nonces order a sender's transfers.
THEOREM TransactionsMinedOnce == Spec => []MinedOnce
  <1>1. Init => HistoryInv
    BY DEF Init, HistoryInv, Height
  <1>2. TypeOK /\ HistoryInv => MinedOnce
    BY HistoryMinedOnce
  <1> QED
    BY <1>1, <1>2, TypeCorrect, HistoryStep, PTL DEF Spec

-----------------------------------------------------------------------------
\* No gap, and nothing mineable dropped

\* Nothing expires, is removed by hand or is reverted, and the chain is too
\* short for a transaction to be stale.
Undisturbed == Disturbances = {} /\ MaxHeight <= StaleBlockAge

\* Used up, or data that was mined.
Gone(t) == Spent(t) \/ (t \in Data /\ Mined(t))

\* What was read before a lock is out of date in one direction only.
ReadInv ==
  /\ \A c \in Callers :
       pc[c] = "lock" => stateNonce[c] <= nonce[From[tx[c]]]
  /\ \A c \in Callers : latestHeight[c] <= Height
  /\ \A t \in Txs : submitHeight[t] <= Height
  /\ \A t \in txSnapshot : t \in txs \/ Gone(t)
  /\ \A t \in toRemove : Gone(t)
  /\ phase # "none" => \A t \in block.txs \ Data : Spent(t)
  /\ phase = "committed" => \A t \in block.txs : Gone(t)

LEMMA Types ==
  ASSUME TypeOK
  PROVE  /\ \A t \in Txs : /\ Nonce[t] \in Int /\ From[t] \in Senders
                           /\ nonce[From[t]] \in Int
                           /\ submitHeight[t] \in Nat
         /\ \A c \in Callers : stateNonce[c] \in Int /\ latestHeight[c] \in Nat
         /\ Height \in Nat /\ Height <= MaxHeight
         /\ block.txs \subseteq Txs
  BY PoolAssumption DEF TypeOK, NonceMaps, Blocks, Height

\* A transaction that is not spent is too young for the cleaner.
LEMMA Young ==
  ASSUME Undisturbed, TypeOK, ReadInv, NEW t \in Txs
  PROVE  /\ ~(Height - submitHeight[t] > StaleBlockAge)
         /\ ~(Age(t) > StaleBlockAge)
  <1>1. submitHeight[t] \in Nat /\ submitHeight[t] <= Height
    BY Types DEF ReadInv
  <1>2. Age(t) = Height - submitHeight[t]
    BY <1>1, Types DEF Age
  <1> QED
    BY <1>1, <1>2, Types, PoolAssumption DEF Undisturbed

\* Whatever removes a transaction from the pool, its nonce is used or it is
\* data that was mined.
RemovesGone == \A t \in txs \ txs' : Gone(t)

LEMMA CleanerRemovesGone ==
  ASSUME Undisturbed, TypeOK, ReadInv, Clean
  PROVE  RemovesGone
  <1>1. CASE CleanupStale
    <2>1. PICK old \in SUBSET txs :
            /\ PastTTL(old)
            /\ RemoveAndRebuild({t \in txs : Height - submitHeight[t] > StaleBlockAge} \cup old)
      BY <1>1 DEF CleanupStale
    <2>2. old = {}
      BY <2>1 DEF PastTTL, Undisturbed
    <2>3. {t \in txs : Height - submitHeight[t] > StaleBlockAge} = {}
      BY Young DEF TypeOK
    <2> QED
      BY <2>1, <2>2, <2>3 DEF RemovesGone, RemoveAndRebuild, RemoveLocked
  <1>2. CASE RemoveInvalid
    BY <1>2 DEF RemoveInvalid, RemovesGone, RemoveAndRebuild, RemoveLocked, ReadInv
  <1> QED
    BY <1>1, <1>2 DEF Clean, SnapshotPool, SelectInvalid, poolVars, RemovesGone

LEMMA StepRemovesGone ==
  ASSUME Undisturbed, TypeOK, ReadInv, [Next]_vars
  PROVE  RemovesGone \/ Restart
  <1>1. CASE Clean
    BY <1>1, CleanerRemovesGone
  <1>2. CASE CleanupMinedTransactions
    BY <1>2 DEF CleanupMinedTransactions, RemovesGone, RemoveAndRebuild, RemoveLocked, ReadInv
  <1>3. ASSUME NEW c \in Callers, InsertTx(c) PROVE RemovesGone
    BY <1>3 DEF InsertTx, RemovesGone
  <1>4. ASSUME NEW t \in Txs, RemoveTx(t) PROVE FALSE
    BY <1>4 DEF RemoveTx, Undisturbed
  <1>5. ASSUME UNCHANGED poolVars PROVE RemovesGone
    BY <1>5 DEF poolVars, RemovesGone
  <1> QED
    BY <1>1, <1>2, <1>3, <1>4, <1>5
    DEF Next, vars, ReadChain, GiveUp, LateLock, ExecuteBlock, CommitBlock, RevertBlock

\* Account nonces only grow.
LEMMA NoncesGrow ==
  ASSUME Undisturbed, TypeOK, [Next]_vars
  PROVE  /\ \A t \in Txs : nonce'[From[t]] \in Int /\ nonce'[From[t]] >= nonce[From[t]]
         /\ \A t \in Txs : Spent(t) => Spent(t)'
  <1>1. \A t \in Txs : nonce'[From[t]] \in Int /\ nonce'[From[t]] >= nonce[From[t]]
    <2>1. ASSUME NEW B \in SUBSET Txs, ExecuteBlock(B)
          PROVE  \A t \in Txs : nonce'[From[t]] \in Int /\ nonce'[From[t]] >= nonce[From[t]]
      BY <2>1, BlockMovesOn, Types DEF Undisturbed, NonceMaps
    <2>2. CASE nonce' = nonce
      BY <2>2, Types
    <2>3. ~RevertBlock
      BY DEF RevertBlock, Undisturbed
    <2> QED
      BY <2>1, <2>2, <2>3
      DEF Next, Clean, vars, chainVars, ReadChain, InsertTx, GiveUp, LateLock, RemoveTx,
          CleanupStale, SnapshotPool, SelectInvalid, RemoveInvalid, CommitBlock,
          CleanupMinedTransactions, Restart
  <1> QED
    BY <1>1, Types DEF Spent

LEMMA ChainGrows ==
  ASSUME Undisturbed, TypeOK, [Next]_vars
  PROVE  /\ Height' >= Height /\ Height' \in Nat
         /\ \A k \in 1..Height : k \in 1..Height' /\ chain'[k] = chain[k]
  <1>1. CASE CommitBlock
    <2>1. chain' = Append(chain, block) /\ chain \in Seq(Blocks) /\ block \in Blocks
      BY <1>1 DEF CommitBlock, TypeOK
    <2>2. /\ Len(chain') = Len(chain) + 1
          /\ \A k \in 1..Len(chain) : chain'[k] = chain[k]
      BY <2>1
    <2> QED
      BY <2>2, Types DEF Height
  <1>2. CASE chain' = chain
    BY <1>2, Types DEF Height
  <1>3. ~RevertBlock
    BY DEF RevertBlock, Undisturbed
  <1> QED
    BY <1>1, <1>2, <1>3
    DEF Next, Clean, vars, chainVars, ReadChain, InsertTx, GiveUp, LateLock, RemoveTx,
        CleanupStale, SnapshotPool, SelectInvalid, RemoveInvalid, ExecuteBlock,
        CleanupMinedTransactions, Restart

\* What was used or mined stays so.
LEMMA GoneStays ==
  ASSUME Undisturbed, TypeOK, [Next]_vars, NEW t \in Txs, Gone(t)
  PROVE  Gone(t)'
  <1>1. Spent(t) => Spent(t)'
    BY NoncesGrow
  <1>2. Mined(t) => Mined(t)'
    BY ChainGrows DEF Mined
  <1> QED
    BY <1>1, <1>2 DEF Gone

LEMMA CallersStep ==
  ASSUME Undisturbed, TypeOK, ReadInv, [Next]_vars
  PROVE  /\ \A c \in Callers :
              pc'[c] = "lock" => stateNonce'[c] <= nonce'[From[tx'[c]]]
         /\ \A c \in Callers : latestHeight'[c] <= Height'
  <1> USE NoncesGrow, ChainGrows, Types
  <1>1. ASSUME NEW c \in Callers, Return(c), nonce' = nonce
        PROVE  /\ \A d \in Callers :
                    pc'[d] = "lock" => stateNonce'[d] <= nonce'[From[tx'[d]]]
               /\ \A d \in Callers : latestHeight'[d] <= Height'
    <2>1. ASSUME NEW d \in Callers
          PROVE  /\ pc'[d] = "lock" => stateNonce'[d] <= nonce'[From[tx'[d]]]
                 /\ latestHeight'[d] <= Height'
      <3>1. CASE d = c
        BY <1>1, <3>1 DEF Return, TypeOK
      <3>2. CASE d # c
        BY <1>1, <3>2 DEF Return, TypeOK, ReadInv
      <3> QED
        BY <3>1, <3>2
    <2> QED
      BY <2>1
  <1>2. ASSUME NEW c \in Callers, NEW t \in Txs, ReadChain(c, t)
        PROVE  /\ \A d \in Callers :
                    pc'[d] = "lock" => stateNonce'[d] <= nonce'[From[tx'[d]]]
               /\ \A d \in Callers : latestHeight'[d] <= Height'
    <2>1. /\ nonce' = nonce /\ Height' = Height
          /\ tx' = [tx EXCEPT ![c] = t]
          /\ pc' = [pc EXCEPT ![c] = "lock"]
          /\ stateNonce' = [stateNonce EXCEPT ![c] = nonce[From[t]]]
      BY <1>2 DEF ReadChain, chainVars, Height
    <2>2. latestHeight' = [latestHeight EXCEPT ![c] = Height]
      BY <1>2 DEF ReadChain, Undisturbed
    <2>3. ASSUME NEW d \in Callers
          PROVE  /\ pc'[d] = "lock" => stateNonce'[d] <= nonce'[From[tx'[d]]]
                 /\ latestHeight'[d] <= Height'
      <3>1. CASE d = c
        BY <2>1, <2>2, <3>1 DEF TypeOK
      <3>2. CASE d # c
        BY <2>1, <2>2, <3>2 DEF TypeOK, ReadInv
      <3> QED
        BY <3>1, <3>2
    <2> QED
      BY <2>3
  <1>3. ASSUME UNCHANGED callVars
        PROVE  /\ \A d \in Callers :
                    pc'[d] = "lock" => stateNonce'[d] <= nonce'[From[tx'[d]]]
               /\ \A d \in Callers : latestHeight'[d] <= Height'
    <2>1. ASSUME NEW d \in Callers
          PROVE  /\ pc'[d] = "lock" => stateNonce'[d] <= nonce'[From[tx'[d]]]
                 /\ latestHeight'[d] <= Height'
      <3>1. pc[d] = "lock" => tx[d] \in Txs /\ stateNonce[d] <= nonce[From[tx[d]]]
        BY DEF TypeOK, ReadInv
      <3> QED
        BY <1>3, <3>1 DEF callVars, ReadInv
    <2> QED
      BY <2>1
  <1>4. CASE Restart
    BY <1>4 DEF Restart
  <1> QED
    BY <1>1, <1>2, <1>3, <1>4
    DEF Next, Clean, vars, chainVars, InsertTx, GiveUp, LateLock, RemoveTx, CleanupStale,
        SnapshotPool, SelectInvalid, RemoveInvalid, ExecuteBlock, CommitBlock,
        CleanupMinedTransactions, RevertBlock

LEMMA HeightsStep ==
  ASSUME Undisturbed, TypeOK, ReadInv, [Next]_vars
  PROVE  \A t \in Txs : submitHeight'[t] <= Height'
  <1> USE ChainGrows, Types
  <1>1. ASSUME NEW gone, RemoveLocked(gone) PROVE \A t \in Txs : submitHeight'[t] <= Height'
    BY <1>1 DEF RemoveLocked, ReadInv
  <1>2. ASSUME NEW c \in Callers, InsertTx(c) PROVE \A t \in Txs : submitHeight'[t] <= Height'
    <2>1. \/ submitHeight' = submitHeight
          \/ submitHeight' = [submitHeight EXCEPT ![tx[c]] = latestHeight[c]]
      BY <1>2 DEF InsertTx
    <2>2. latestHeight[c] <= Height' /\ \A t \in Txs : submitHeight[t] <= Height'
      BY DEF ReadInv
    <2>3. submitHeight = [t \in Txs |-> submitHeight[t]]
      BY DEF TypeOK
    <2> QED
      BY <2>1, <2>2, <2>3
  <1>3. ASSUME UNCHANGED submitHeight PROVE \A t \in Txs : submitHeight'[t] <= Height'
    BY <1>3 DEF ReadInv
  <1>4. CASE Restart
    <2>1. submitHeight' = [t \in Txs |-> IF t \in txs' THEN submitHeight[t] ELSE 0]
      BY <1>4 DEF Restart
    <2> QED
      BY <2>1 DEF ReadInv
  <1> QED
    BY <1>1, <1>2, <1>3, <1>4
    DEF Next, Clean, vars, poolVars, ReadChain, GiveUp, LateLock, RemoveTx, CleanupStale,
        SnapshotPool, SelectInvalid, RemoveInvalid, RemoveAndRebuild, ExecuteBlock,
        CommitBlock, CleanupMinedTransactions, RevertBlock

LEMMA CleanerStep ==
  ASSUME Undisturbed, TypeOK, ReadInv, [Next]_vars
  PROVE  /\ \A t \in txSnapshot' : t \in txs' \/ Gone(t)'
         /\ \A t \in toRemove' : Gone(t)'
  <1>0. \A t \in Txs : Gone(t) => Gone(t)'
    BY GoneStays
  <1>1. CASE Restart
    BY <1>1 DEF Restart
  <1>2. CASE SelectInvalid
    <2>1. PICK old \in SUBSET txs :
            PastTTL(old) /\ toRemove' = {t \in txSnapshot : Invalid(t) \/ t \in old}
      BY <1>2 DEF SelectInvalid
    <2>2. old = {} /\ txSnapshot' = {}
      BY <1>2, <2>1 DEF SelectInvalid, PastTTL, Undisturbed
    <2>3. ASSUME NEW t \in txSnapshot, Invalid(t) PROVE Gone(t)'
      <3>1. t \in Txs
        BY DEF TypeOK
      <3>2. Spent(t) \/ t \notin txs
        BY <2>3, <3>1, Young DEF Invalid
      <3>3. Gone(t)
        BY <3>2 DEF Gone, ReadInv
      <3> QED
        BY <1>0, <3>1, <3>3
    <2> QED
      BY <2>1, <2>2, <2>3
  <1>3. ASSUME txSnapshot' \subseteq txSnapshot \cup txs, txs \subseteq txs' \cup {t \in txs : Gone(t)},
               toRemove' \subseteq toRemove
        PROVE  /\ \A t \in txSnapshot' : t \in txs' \/ Gone(t)'
               /\ \A t \in toRemove' : Gone(t)'
    BY <1>0, <1>3 DEF ReadInv, TypeOK
  <1>4. CASE RemovesGone /\ ~SelectInvalid /\ ~Restart
    <2>1. txs \subseteq txs' \cup {t \in txs : Gone(t)}
      BY <1>4 DEF RemovesGone
    <2>2. txSnapshot' \subseteq txSnapshot \cup txs /\ toRemove' \subseteq toRemove
      BY <1>4
      DEF Next, Clean, vars, cleanVars, ReadChain, InsertTx, GiveUp, LateLock, RemoveTx,
          CleanupStale, SnapshotPool, RemoveInvalid, ExecuteBlock, CommitBlock,
          CleanupMinedTransactions, RevertBlock
    <2> QED
      BY <1>3, <2>1, <2>2
  <1> QED
    BY <1>1, <1>2, <1>4, StepRemovesGone

LEMMA BlockStep ==
  ASSUME Undisturbed, TypeOK, ReadInv, [Next]_vars
  PROVE  /\ phase' # "none" => \A t \in block'.txs \ Data : Spent(t)'
         /\ phase' = "committed" => \A t \in block'.txs : Gone(t)'
  <1> DEFINE Kept == /\ phase' # "none" => \A t \in block'.txs \ Data : Spent(t)'
                     /\ phase' = "committed" => \A t \in block'.txs : Gone(t)'
  <1>1. ASSUME NEW B \in SUBSET Txs, ExecuteBlock(B)
        PROVE  Kept
    <2>1. \A t \in B \ Data : Nonce[t] < nonce'[From[t]]
      BY <1>1, BlockMovesOn
    <2>2. block'.txs = B /\ phase' = "executed"
      BY <1>1 DEF ExecuteBlock
    <2> QED
      BY <2>1, <2>2 DEF Spent
  <1>2. ASSUME block' = block, phase # "none"
        PROVE  \A t \in block'.txs \ Data : Spent(t)'
    BY <1>2, NoncesGrow, Types DEF ReadInv
  <1>3. CASE CommitBlock
    <2>1. /\ block' = block /\ phase # "none" /\ chain \in Seq(Blocks) /\ block \in Blocks
          /\ chain' = Append(chain, block)
      BY <1>3 DEF CommitBlock, TypeOK
    <2>2. /\ Len(chain') = Len(chain) + 1 /\ chain'[Len(chain) + 1] = block
          /\ Len(chain) + 1 \in 1..Len(chain')
      BY <2>1
    <2>3. \A t \in block.txs : Mined(t)'
      BY <2>2 DEF Mined, Height
    <2> QED
      BY <1>2, <2>1, <2>3 DEF Gone
  <1>4. CASE CleanupMinedTransactions \/ RevertBlock \/ Restart
    BY <1>4 DEF CleanupMinedTransactions, RevertBlock, Restart, Undisturbed
  <1>5. CASE phase' = phase /\ block' = block
    <2>1. phase = "committed" => \A t \in block.txs : Gone(t)'
      BY GoneStays, Types DEF ReadInv
    <2> QED
      BY <1>2, <1>5, <2>1
  <1> QED
    BY <1>1, <1>3, <1>4, <1>5
    DEF Next, Clean, vars, chainVars, ReadChain, InsertTx, GiveUp, LateLock, RemoveTx,
        CleanupStale, SnapshotPool, SelectInvalid, RemoveInvalid

LEMMA ReadStep ==
  ASSUME Undisturbed
  PROVE  TypeOK /\ ReadInv /\ [Next]_vars => ReadInv'
  <1> SUFFICES ASSUME TypeOK, ReadInv, [Next]_vars PROVE ReadInv'
    OBVIOUS
  <1> QED
    BY CallersStep, HeightsStep, CleanerStep, BlockStep DEF ReadInv

LEMMA ReadInit == Init => ReadInv
  BY DEF Init, ReadInv, Height

LEMMA OnlyInsertAdds ==
  ASSUME [Next]_vars
  PROVE  \A t \in txs' \ txs : \E c \in Callers : InsertTx(c) /\ tx[c] = t
  <1>1. ASSUME NEW c \in Callers, InsertTx(c)
        PROVE  \A t \in txs' \ txs : tx[c] = t
    BY <1>1 DEF InsertTx
  <1>2. ASSUME NEW gone, RemoveLocked(gone) PROVE txs' \ txs = {}
    BY <1>2 DEF RemoveLocked
  <1>3. ASSUME UNCHANGED poolVars PROVE txs' \ txs = {}
    BY <1>3 DEF poolVars
  <1>4. CASE Restart
    BY <1>4 DEF Restart
  <1> QED
    BY <1>1, <1>2, <1>3, <1>4
    DEF Next, Clean, vars, ReadChain, GiveUp, LateLock, RemoveTx, CleanupStale,
        SnapshotPool, SelectInvalid, RemoveInvalid, RemoveAndRebuild, ExecuteBlock,
        CommitBlock, CleanupMinedTransactions, RevertBlock

LEMMA PoolStays ==
  ASSUME TypeOK, [Next]_vars
  PROVE  txs' \subseteq Txs
  BY OnlyInsertAdds DEF TypeOK, InsertTx

\* The nonce before that of a pending transaction stays used, pending or that
\* of mined data.
LEMMA GapStep ==
  ASSUME Undisturbed
  PROVE  TypeOK /\ PoolSound /\ ReadInv /\ NoNonceGap /\ [Next]_vars => NoNonceGap'
  <1> SUFFICES ASSUME TypeOK, PoolSound, ReadInv, NoNonceGap, [Next]_vars,
                      NEW t \in txs', Nonce[t] > nonce'[From[t]]
               PROVE  \/ \E u \in txs' : From[u] = From[t] /\ Nonce[u] = Nonce[t] - 1
                      \/ DataBefore(t)'
    BY DEF NoNonceGap
  <1> DEFINE Before(u) == From[u] = From[t] /\ Nonce[u] = Nonce[t] - 1
  <1>0. t \in Txs /\ nonce'[From[t]] \in Int /\ nonce'[From[t]] >= nonce[From[t]]
    BY NoncesGrow, PoolStays
  <1>1. CASE t \in txs
    <2>0. CASE DataBefore(t)
      BY <2>0, ChainGrows DEF DataBefore
    <2>1. CASE \E u \in txs : Before(u)
      <3>1. PICK u \in txs : Before(u)
        BY <2>1
      <3>2. ~Spent(u)' /\ ~Spent(u)
        BY <1>0, <3>1, Types, NoncesGrow DEF Spent, TypeOK
      <3>3. CASE u \in txs'
        BY <3>1, <3>3
      <3>4. CASE RemovesGone /\ u \notin txs'
        <4>1. u \in Data /\ Mined(u)
          BY <3>2, <3>4 DEF RemovesGone, Gone
        <4>2. DataBefore(t)
          BY <3>1, <4>1 DEF DataBefore, Mined
        <4> QED
          BY <4>2, ChainGrows DEF DataBefore
      <3>5. CASE Restart
        BY <1>1, <3>1, <3>2, <3>5 DEF Restart
      <3> QED
        BY <3>3, <3>4, <3>5, StepRemovesGone
    <2> QED
      BY <1>0, <1>1, <2>0, <2>1, Types DEF NoNonceGap
  <1>2. CASE t \notin txs
    <2>1. PICK c \in Callers : InsertTx(c) /\ tx[c] = t
      BY <1>2, OnlyInsertAdds
    <2>2. /\ Admissible(t, stateNonce[c]) /\ txs' = txs \cup {t}
          /\ nonce' = nonce /\ stateNonce[c] <= nonce[From[t]]
      BY <1>2, <2>1 DEF InsertTx, chainVars, ReadInv
    <2>3. Nonce[t] # stateNonce[c]
      BY <1>0, <2>2, Types
    <2>4. PICK u \in bySender[From[t]] : Nonce[t] = Nonce[u] + 1
      BY <2>2, <2>3 DEF Admissible, NextInLine
    <2>5. u \in txs /\ From[u] = From[t]
      BY <1>0, <2>4, Types DEF PoolSound
    <2> QED
      BY <1>0, <2>2, <2>4, <2>5, Types DEF TypeOK
  <1> QED
    BY <1>1, <1>2

\* If nothing expires, is removed by hand or is reverted, a pending transaction
\* waits for pending ones only, or for a nonce that mined data carried, although addTx compares with a nonce
\* from before the lock and the cleaner chooses without it.
THEOREM PoolHasNoGaps ==
  ASSUME Undisturbed
  PROVE  Spec => []NoNonceGap
  <1>1. Init => NoNonceGap
    BY DEF Init, NoNonceGap
  <1> QED
    BY <1>1, ReadInit, ReadStep, GapStep, TypeCorrect, PoolIsSound, PTL DEF Spec

\* Under the same assumption cleanupStale and cleanupInvalid remove only
\* transactions whose nonce is used when they are removed, and data that was
\* mined.
THEOREM CleanerDropsOnlySpent ==
  ASSUME Undisturbed
  PROVE  Spec => OnlySpentDropped
  <1>1. TypeOK /\ ReadInv /\ [Next]_vars => [Clean => \A t \in txs \ txs' : Spent(t) \/ (t \in Data /\ Mined(t))]_vars
    BY CleanerRemovesGone DEF RemovesGone, Gone
  <1> QED
    BY <1>1, ReadInit, ReadStep, TypeCorrect, PTL DEF Spec, OnlySpentDropped

=============================================================================
