------------------------------- MODULE TxPool -------------------------------
(***************************************************************************)
(* The transaction pool of one node, with the goroutines that submit to    *)
(* it, the background cleaner, and the chain that mines and reverts its    *)
(* transactions.                                                           *)
(*                                                                         *)
(* A critical section of p.mu is one step.  What is read of the chain or   *)
(* of the pool outside it is a step of its own.                            *)
(***************************************************************************)
EXTENDS Integers, FiniteSets, Sequences

CONSTANTS
  Txs,                \* well-formed, signed and affordable transactions
  Senders,
  Data,               \* those among them that carry data
  From,               \* From[t], Nonce[t]: fields of t
  Nonce,
  NoTx,
  Callers,            \* goroutines that submit: RPC, gossip, wallet
  MaxPoolSize,
  MaxTxsPerSender,
  MaxFutureNonceGap,
  StaleBlockAge,
  Word,               \* uint64 arithmetic is modulo Word
  MaxHeight,          \* bound: blocks in the chain
  MaxWaiting,         \* bound: abandoned waiters for p.mu
  Disturbances        \* which of AllDisturbances may happen

AllDisturbances ==
  {"lock_timeout", "height_timeout", "expiry", "removal", "revert"}

ASSUME PoolAssumption ==
  /\ IsFiniteSet(Txs) /\ Data \subseteq Txs
  /\ From \in [Txs -> Senders]
  /\ Nonce \in [Txs -> Nat]
  /\ {MaxPoolSize, MaxTxsPerSender, MaxFutureNonceGap, StaleBlockAge} \subseteq Nat
  /\ {MaxHeight, MaxWaiting} \subseteq Nat
  /\ Word \in Nat /\ Word > MaxHeight
  /\ Disturbances \subseteq AllDisturbances
  /\ NoTx \notin Txs

VARIABLES
  txs,            \* the pool
  bySender,       \* the pool's transactions by sender
  pendingHeap,    \* what GetPending hands to miners
  submitHeight,   \* height at submission; 0 for a transaction not in the pool
  waiting,        \* goroutines still waiting for p.mu after addTx gave up
  leaked,         \* one of them got it: nobody will unlock it
  pc, tx,         \* a caller in addTx
  stateNonce,     \* what it read before it asked for p.mu
  latestHeight,
  cleaner,        \* the next step of the background cleaner
  txSnapshot, toRemove,
  nonce,          \* the account state: next nonce of each sender
  chain,          \* the blocks above genesis
  phase, block    \* the block being accepted

poolVars == <<txs, bySender, pendingHeap, submitHeight>>
lockVars == <<waiting, leaked>>
callVars == <<pc, tx, stateNonce, latestHeight>>
cleanVars == <<cleaner, txSnapshot, toRemove>>
chainVars == <<nonce, chain, phase, block>>
vars == <<poolVars, lockVars, callVars, cleanVars, chainVars>>

Height == Len(chain)

NonceMaps == [Senders -> Int]

\* A block's transactions, and the account nonces of the state it is built on.
Blocks == [txs : SUBSET Txs, nonces : NonceMaps]

NoBlock == [txs |-> {}, nonces |-> [s \in Senders |-> 0]]

Init ==
  /\ txs = {} /\ pendingHeap = {}
  /\ bySender = [s \in Senders |-> {}]
  /\ submitHeight = [t \in Txs |-> 0]
  /\ waiting = 0 /\ leaked = FALSE
  /\ pc = [c \in Callers |-> "idle"]
  /\ tx = [c \in Callers |-> NoTx]
  /\ stateNonce = [c \in Callers |-> 0]
  /\ latestHeight = [c \in Callers |-> 0]
  /\ cleaner = "stale" /\ txSnapshot = {} /\ toRemove = {}
  /\ nonce = [s \in Senders |-> 0]
  /\ chain = <<>>
  /\ phase = "none" /\ block = NoBlock

-----------------------------------------------------------------------------
\* addTx

\* Up to the lock: account nonce and height are read, the latter with a
\* timeout that puts 0 in its place.
ReadChain(c, t) ==
  /\ pc[c] = "idle"
  /\ Nonce[t] <= nonce[From[t]] + MaxFutureNonceGap
  /\ pc' = [pc EXCEPT ![c] = "lock"]
  /\ tx' = [tx EXCEPT ![c] = t]
  /\ stateNonce' = [stateNonce EXCEPT ![c] = nonce[From[t]]]
  /\ \E h \in {Height} \cup IF "height_timeout" \in Disturbances THEN {0} ELSE {} :
       latestHeight' = [latestHeight EXCEPT ![c] = h]
  /\ UNCHANGED <<poolVars, lockVars, cleanVars, chainVars>>

\* The nonce after the highest pending one, or else the account's.
NextInLine(t, n) ==
  LET pending == bySender[From[t]]
  IN  IF \E u \in pending : Nonce[u] >= n
        THEN \E u \in pending : /\ Nonce[t] = Nonce[u] + 1
                                /\ \A v \in pending : Nonce[v] <= Nonce[u]
        ELSE Nonce[t] = n

\* Mutant: the account nonce alone decides.
AdmissibleByState(t, n) ==
  /\ t \notin txs
  /\ Cardinality(txs) < MaxPoolSize
  /\ Cardinality(bySender[From[t]]) < MaxTxsPerSender
  /\ Nonce[t] = n

\* Mutant: one transaction more than the pool may hold.
AdmissibleAtLimit(t, n) ==
  /\ t \notin txs
  /\ Cardinality(txs) <= MaxPoolSize
  /\ Cardinality(bySender[From[t]]) < MaxTxsPerSender
  /\ NextInLine(t, n)

\* The checks under the lock; the last one repeats what NextInLine implies.
Admissible(t, n) ==
  /\ t \notin txs
  /\ Cardinality(txs) < MaxPoolSize
  /\ Cardinality(bySender[From[t]]) < MaxTxsPerSender
  /\ NextInLine(t, n)
  /\ \A u \in bySender[From[t]] : Nonce[u] # Nonce[t]

Return(c) ==
  /\ pc' = [pc EXCEPT ![c] = "idle"]
  /\ tx' = [tx EXCEPT ![c] = NoTx]
  /\ stateNonce' = [stateNonce EXCEPT ![c] = 0]
  /\ latestHeight' = [latestHeight EXCEPT ![c] = 0]

\* From the lock on.
InsertTx(c) ==
  /\ pc[c] = "lock"
  /\ ~leaked
  /\ LET t == tx[c]
     IN IF Admissible(t, stateNonce[c])
          THEN /\ txs' = txs \cup {t}
               /\ bySender' = [bySender EXCEPT ![From[t]] = @ \cup {t}]
               /\ submitHeight' = [submitHeight EXCEPT ![t] = latestHeight[c]]
               /\ pendingHeap' = pendingHeap \cup {t}
          ELSE UNCHANGED <<txs, bySender, submitHeight, pendingHeap>>
  /\ Return(c)
  /\ UNCHANGED <<lockVars, cleanVars, chainVars>>

\* The lock stayed busy for three seconds: addTx returns, and the goroutine
\* that it started to take the lock stays behind.
GiveUp(c) ==
  /\ "lock_timeout" \in Disturbances
  /\ pc[c] = "lock"
  /\ waiting < MaxWaiting
  /\ Return(c)
  /\ waiting' = waiting + 1
  /\ UNCHANGED <<poolVars, leaked, cleanVars, chainVars>>

\* It gets the lock after all.
LateLock ==
  /\ waiting > 0
  /\ ~leaked
  /\ leaked' = TRUE
  /\ waiting' = waiting - 1
  /\ UNCHANGED <<poolVars, callVars, cleanVars, chainVars>>

-----------------------------------------------------------------------------
\* Removal

\* removeLocked, for each of gone; the heap is left to the caller.
RemoveLocked(gone) ==
  /\ txs' = txs \ gone
  /\ bySender' = [s \in Senders |-> bySender[s] \ gone]
  /\ submitHeight' = [t \in Txs |-> IF t \in gone THEN 0 ELSE submitHeight[t]]

\* Mutant: removed from the maps only.
RemoveWithoutRebuild(gone) == RemoveLocked(gone) /\ pendingHeap' = pendingHeap

\* The cleanups rebuild it when they removed something.
RemoveAndRebuild(gone) ==
  /\ RemoveLocked(gone)
  /\ pendingHeap' = IF gone = {} THEN pendingHeap ELSE txs \ gone

\* RemoveTx, from the console.
RemoveTx(t) ==
  /\ "removal" \in Disturbances
  /\ ~leaked
  /\ t \in txs
  /\ RemoveLocked({t})
  /\ UNCHANGED <<pendingHeap, lockVars, callVars, cleanVars, chainVars>>

\* The transactions found past their TTL.
PastTTL(old) == old # {} => "expiry" \in Disturbances

CleanupStale ==
  /\ cleaner = "stale"
  /\ ~leaked
  /\ \E old \in SUBSET txs :
       /\ PastTTL(old)
       /\ RemoveAndRebuild({t \in txs : Height - submitHeight[t] > StaleBlockAge} \cup old)
  /\ cleaner' = "snapshot"
  /\ UNCHANGED <<txSnapshot, toRemove, lockVars, callVars, chainVars>>

\* cleanupInvalid copies the pool, chooses without the lock, and removes.
SnapshotPool ==
  /\ cleaner = "snapshot"
  /\ ~leaked
  /\ txSnapshot' = txs
  /\ cleaner' = "select"
  /\ UNCHANGED <<poolVars, toRemove, lockVars, callVars, chainVars>>

\* Mutant: the next executable nonce counts as used.
SpentOrNext(t) == Nonce[t] <= nonce[From[t]]

Spent(t) == Nonce[t] < nonce[From[t]]

\* Mutant: subtracted the other way round.
AgeReversed(t) ==
  submitHeight[t] - Height + IF Height <= submitHeight[t] THEN 0 ELSE Word

\* The unsigned age of t in blocks.
Age(t) ==
  Height - submitHeight[t] + IF submitHeight[t] <= Height THEN 0 ELSE Word

\* Also the mutant of Invalid: only what was mined itself, not what lost its
\* nonce to another.
Mined(t) == \E k \in 1..Height : t \in chain[k].txs

\* A transaction that left the pool since the snapshot has no height and no
\* time.
Invalid(t) ==
  \/ Spent(t)
  \/ submitHeight[t] > 0 /\ Age(t) > StaleBlockAge
  \/ t \notin txs

SelectInvalid ==
  /\ cleaner = "select"
  /\ \E old \in SUBSET txs :
       /\ PastTTL(old)
       /\ toRemove' = {t \in txSnapshot : Invalid(t) \/ t \in old}
  /\ cleaner' = "remove"
  /\ txSnapshot' = {}
  /\ UNCHANGED <<poolVars, lockVars, callVars, chainVars>>

RemoveInvalid ==
  /\ cleaner = "remove"
  /\ ~leaked
  /\ RemoveAndRebuild(toRemove \cap txs)
  /\ cleaner' = "stale"
  /\ toRemove' = {}
  /\ UNCHANGED <<txSnapshot, lockVars, callVars, chainVars>>

-----------------------------------------------------------------------------
\* The chain

\* A transfer sets its sender's nonce; running data leaves it as it is.
NonceValues == {0} \cup {Nonce[t] + 1 : t \in Txs \ Data}

\* Mutant: the block's nonces need not start at the account's.
MineableAnywhere(B, next) ==
  \A t \in B :
    /\ Nonce[t] < next[From[t]]
    /\ \A u \in B : From[u] = From[t] /\ Nonce[u] = Nonce[t] => u = t

\* Each transaction must carry its sender's nonce when its turn comes: of each
\* sender one transfer for every nonce up to next, which B leaves, and data
\* transactions anywhere between them.  (None is twice in B.)
Mineable(B, next) ==
  \A s \in Senders :
    LET sent == {t \in B : From[t] = s}
        transfers == sent \ Data
    IN /\ next[s] >= nonce[s]
       /\ \A n \in nonce[s]..(next[s] - 1) : \E t \in transfers : Nonce[t] = n
       /\ \A t \in sent : nonce[s] <= Nonce[t] /\ Nonce[t] <= next[s]
       /\ \A t \in transfers : Nonce[t] < next[s]
       /\ \A t, u \in transfers : Nonce[t] = Nonce[u] => t = u

\* A block, mined here or elsewhere, is executed on the state that addTx and
\* the cleaner read.
ExecuteBlock(B) ==
  /\ phase = "none"
  /\ Height < MaxHeight
  /\ \E next \in [Senders -> NonceValues] :
       /\ Mineable(B, next)
       /\ nonce' = next
  /\ phase' = "executed"
  /\ block' = [txs |-> B, nonces |-> nonce]
  /\ UNCHANGED <<poolVars, lockVars, callVars, cleanVars, chain>>

CommitBlock ==
  /\ phase = "executed"
  /\ chain' = Append(chain, block)
  /\ phase' = "committed"
  /\ UNCHANGED <<poolVars, lockVars, callVars, cleanVars, nonce, block>>

\* handleDirectExtension, with stateMu held; an empty block needs no cleanup.
CleanupMinedTransactions ==
  /\ phase = "committed"
  /\ block.txs # {} => ~leaked
  /\ RemoveAndRebuild(block.txs \cap txs)
  /\ phase' = "none"
  /\ block' = NoBlock
  /\ UNCHANGED <<lockVars, callVars, cleanVars, nonce, chain>>

\* revertToHeight takes a block back; its transactions stay out of the pool.
RevertBlock ==
  /\ "revert" \in Disturbances
  /\ phase = "none"
  /\ chain # <<>>
  /\ nonce' = chain[Height].nonces
  /\ chain' = SubSeq(chain, 1, Height - 1)
  /\ UNCHANGED <<poolVars, lockVars, callVars, cleanVars, phase, block>>

\* The node stops, having saved its pool unless it crashed, and starts again:
\* LoadFromDisk drops what was mined.  Crashes inside a commit are in
\* ChainStore.
Restart ==
  /\ phase # "executed"
  /\ \E saved \in {{}} \cup IF leaked THEN {} ELSE {txs} :
       /\ txs' = {t \in saved : ~Spent(t)}
       /\ pendingHeap' = txs'
       /\ bySender' = [s \in Senders |-> bySender[s] \cap txs']
       /\ submitHeight' = [t \in Txs |-> IF t \in txs' THEN submitHeight[t] ELSE 0]
  /\ waiting' = 0 /\ leaked' = FALSE
  /\ pc' = [c \in Callers |-> "idle"]
  /\ tx' = [c \in Callers |-> NoTx]
  /\ stateNonce' = [c \in Callers |-> 0]
  /\ latestHeight' = [c \in Callers |-> 0]
  /\ cleaner' = "stale" /\ txSnapshot' = {} /\ toRemove' = {}
  /\ phase' = "none" /\ block' = NoBlock
  /\ UNCHANGED <<nonce, chain>>

-----------------------------------------------------------------------------
Clean == CleanupStale \/ SnapshotPool \/ SelectInvalid \/ RemoveInvalid

Next ==
  \/ \E c \in Callers, t \in Txs : ReadChain(c, t)
  \/ \E c \in Callers : InsertTx(c) \/ GiveUp(c)
  \/ LateLock
  \/ \E t \in Txs : RemoveTx(t)
  \/ Clean
  \/ \E B \in SUBSET Txs : ExecuteBlock(B)
  \/ CommitBlock \/ CleanupMinedTransactions \/ RevertBlock
  \/ Restart

Spec == Init /\ [][Next]_vars

\* The cleaner's ticker keeps running.
FairSpec == Spec /\ WF_vars(Clean)

-----------------------------------------------------------------------------
\* Properties

TypeOK ==
  /\ txs \subseteq Txs /\ pendingHeap \subseteq Txs
  /\ bySender \in [Senders -> SUBSET Txs]
  /\ submitHeight \in [Txs -> 0..MaxHeight]
  /\ waiting \in 0..MaxWaiting /\ leaked \in BOOLEAN
  /\ pc \in [Callers -> {"idle", "lock"}]
  /\ tx \in [Callers -> Txs \cup {NoTx}]
  /\ \A c \in Callers : pc[c] = "lock" => tx[c] \in Txs
  /\ stateNonce \in [Callers -> Int]
  /\ latestHeight \in [Callers -> 0..MaxHeight]
  /\ cleaner \in {"stale", "snapshot", "select", "remove"}
  /\ txSnapshot \subseteq Txs /\ toRemove \subseteq Txs
  /\ nonce \in NonceMaps
  /\ chain \in Seq(Blocks) /\ Len(chain) <= MaxHeight
  /\ phase \in {"none", "executed", "committed"} /\ block \in Blocks

\* However submissions, cleanups, blocks and restarts interleave, the indexes
\* agree, the limits hold, and no two pending transactions have one nonce:
\* addTx compares with a nonce that it read before it had the lock.
PoolSound ==
  /\ \A s \in Senders : bySender[s] = {t \in txs : From[t] = s}
  /\ txs \subseteq pendingHeap
  /\ Cardinality(txs) <= MaxPoolSize
  /\ \A s \in Senders : Cardinality(bySender[s]) <= MaxTxsPerSender
  /\ \A t, u \in txs : From[t] = From[u] /\ Nonce[t] = Nonce[u] => t = u

\* A data transaction with the nonce before that of t was mined: it is out of
\* the pool and its nonce is not used.
DataBefore(t) ==
  \E k \in 1..Height : \E d \in chain[k].txs \cap Data :
    From[d] = From[t] /\ Nonce[d] = Nonce[t] - 1

\* A pending transaction waits for nothing but pending ones, its sender's
\* earlier nonces being used or in the pool, unless a mined data transaction
\* took its nonce out of the pool without using it.
NoNonceGap ==
  \A t \in txs :
    Nonce[t] > nonce[From[t]] =>
      \/ \E u \in txs : From[u] = From[t] /\ Nonce[u] = Nonce[t] - 1
      \/ DataBefore(t)

\* The cleaner chooses without the lock, and still drops nothing that could be
\* mined and was not: a data transaction that left with its block between copy
\* and choice and was submitted again goes, too.
OnlySpentDropped ==
  [][Clean => \A t \in txs \ txs' : Spent(t) \/ (t \in Data /\ Mined(t))]_vars

\* A transfer is in at most one block of the chain: its nonce is used.  A data
\* transaction uses none, can be submitted again and mined again.
MinedOnce ==
  \A i, j \in 1..Height : i # j => chain[i].txs \cap chain[j].txs \subseteq Data

\* What GetPending offers to miners is in the pool.
PendingInPool == pendingHeap \subseteq txs

\* What can no longer be mined leaves the pool, also when a submission that
\* read an old nonce put it there.
SpentLeavesPool == \A t \in Txs : (t \in txs /\ Spent(t)) ~> (t \notin txs)

=============================================================================
