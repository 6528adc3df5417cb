----------------------------- MODULE ChainStore -----------------------------
(***************************************************************************)
(* The chain database and the account state of one node, with a crash      *)
(* between any two writes and the recovery of newBlockchain.               *)
(*                                                                         *)
(* A write to the chain database is synced before the next step, or fails. *)
(* Account state is written while a block executes, before any of them.  A *)
(* crash loses what is only in memory.  Blocks are added one at a time     *)
(* here; ReorgManager has the interleavings.                               *)
(***************************************************************************)
EXTENDS BlockTree

CONSTANTS
  EmptyState,            \* the state database before the first start
  MaxHeight,             \* bound: no block of the model is higher
  ContinuityCheckDepth,
  ReorgDepths,           \* how many blocks a reorganization takes off the tip
  TruncateHeights,       \* common ancestors at which the fast sync truncates
  WriteFailures          \* whether a write to the chain database may fail

Heights == 0..MaxHeight
NoHeight == -1

ASSUME StoreAssumption ==
  /\ MaxHeight \in Nat
  /\ \A b \in Blocks : Len(Path[b]) <= MaxHeight
  /\ ContinuityCheckDepth \in Nat
  /\ ReorgDepths \subseteq Nat \ {0}
  /\ TruncateHeights \subseteq Heights
  /\ EmptyState \notin {GenesisRoot, Diverged}
  /\ WriteFailures \in BOOLEAN

VARIABLES
  blocks,       \* blocks by hash
  headers,      \* headers by hash
  canon,        \* height -> canonical hash
  last,         \* the last canonical height
  head,         \* the head block's hash
  genesisFile,  \* state root in genesis_fixed.json; EmptyState when absent
  state,        \* root of the account state
  latest,       \* memory: bc.latest
  pc,           \* memory: the next write
  blk,          \* memory: the block being written, or the target of a revert
  replaced,     \* history: the head hash is on a branch that was left
  misled        \* history: a restart came up by such a head hash

dbVars == <<blocks, headers, canon, last, head>>
vars ==
  <<blocks, headers, canon, last, head, genesisFile, state, latest, pc, blk, replaced,
    misled>>

Init ==
  /\ blocks = {} /\ headers = {}
  /\ canon = [h \in Heights |-> NoBlock]
  /\ last = NoHeight
  /\ head = NoBlock
  /\ genesisFile = EmptyState
  /\ state = EmptyState
  /\ latest = NoBlock
  /\ pc = "down"
  /\ blk = NoBlock
  /\ replaced = FALSE /\ misled = FALSE

-----------------------------------------------------------------------------
\* Recovery

\* Mutant: the canonical parent is not compared.
ContinuousByHeader(b) == Height(b) > 0 => Parent(b) \in headers

\* verifyTipContinuity: the parent's header exists and, at the first
\* ContinuityCheckDepth heights, no other block is canonical in its place.
Continuous(b) ==
  Height(b) > 0 =>
    /\ Parent(b) \in headers
    /\ Height(b) <= ContinuityCheckDepth =>
         canon[Height(b) - 1] \in {NoBlock, Parent(b)}

ValidCanonicalAt(h) == canon[h] \in blocks /\ Continuous(canon[h])

\* findValidChainTipFast: the block at the last canonical height, else the
\* highest valid canonical block.  The scans after these two are reached only
\* when not even the genesis is canonical.
CanonicalTip ==
  IF last # NoHeight /\ ValidCanonicalAt(last) THEN canon[last]
  ELSE IF \E h \in Heights : ValidCanonicalAt(h)
    THEN canon[CHOOSE h \in Heights :
                 ValidCanonicalAt(h) /\ \A k \in Heights : ValidCanonicalAt(k) => k <= h]
    ELSE NoBlock

HeadTip == IF head \in blocks /\ Continuous(head) THEN head ELSE NoBlock

NeedsRepair ==
  /\ CanonicalTip # NoBlock
  /\ HeadTip = NoBlock \/ Height(CanonicalTip) > Height(HeadTip)

\* The tip that a restart on this disk comes up with.
RecoverableTip == IF NeedsRepair THEN CanonicalTip ELSE HeadTip

\* The head hash was left behind on the branch that a reorganization replaces, and
\* is not below the new one.  Recovery takes it then, except where it compares
\* the head's parent, at the first heights, and finds another canonical block.
HeadMisleads ==
  /\ replaced
  /\ Height(head) >= last
  /\ Height(head) = last + 1 =>
       Height(head) > ContinuityCheckDepth \/ Parent(head) = canon[last]

\* newBlockchain: come up on the tip found, repair the pointers to it first
\* when they lag, or create the genesis when there is none.
Restart ==
  /\ pc = "down"
  /\ \/ RecoverableTip = NoBlock /\ pc' = "genesis" /\ UNCHANGED <<latest, blk>>
     \/ NeedsRepair /\ pc' = "canonical" /\ blk' = RecoverableTip /\ UNCHANGED latest
     \/ /\ RecoverableTip # NoBlock /\ ~NeedsRepair
        /\ pc' = "run" /\ latest' = RecoverableTip /\ UNCHANGED blk
  /\ UNCHANGED <<dbVars, genesisFile, state>>

\* EnsureGenesisBlock: without a genesis file, the allocation is added to
\* whatever the state database holds.
SeedGenesis ==
  /\ pc = "genesis"
  /\ IF genesisFile # EmptyState
       THEN pc' = "block" /\ blk' = Genesis /\ UNCHANGED state
       ELSE /\ state' = IF state = EmptyState THEN GenesisRoot ELSE Diverged
            /\ pc' = "persist"
            /\ UNCHANGED blk
  /\ UNCHANGED <<dbVars, genesisFile, latest>>

PersistGenesisBlock ==
  /\ pc = "persist"
  /\ genesisFile' = state
  /\ pc' = "block"
  /\ blk' = Genesis
  /\ UNCHANGED <<dbVars, state, latest>>

-----------------------------------------------------------------------------
\* Accepting a block

\* Executing a child of the tip writes account by account.
ExecuteBlock(b) ==
  /\ pc = "run"
  /\ latest # NoBlock
  /\ Parent(b) = latest
  /\ state = Root(latest)
  /\ state' = Diverged
  /\ pc' = "execute"
  /\ blk' = b
  /\ UNCHANGED <<dbVars, genesisFile, latest>>

FinishExecution ==
  /\ pc = "execute"
  /\ state' = Root(blk)
  /\ pc' = "block"
  /\ UNCHANGED <<dbVars, genesisFile, latest, blk>>

WriteBlock ==
  /\ pc = "block"
  /\ blocks' = blocks \cup {blk}
  /\ headers' = headers \cup {blk}
  /\ pc' = "canonical"
  /\ UNCHANGED <<canon, last, head, genesisFile, state, latest, blk>>

\* Mutant: the last canonical height is not written with the hash.
WriteCanonicalHashOnly ==
  /\ pc = "canonical"
  /\ canon' = [canon EXCEPT ![Height(blk)] = blk]
  /\ pc' = "head"
  /\ UNCHANGED <<blocks, headers, last, head, genesisFile, state, latest, blk>>

\* The canonical hash and the last canonical height, in one batch.
WriteCanonicalHash ==
  /\ pc = "canonical"
  /\ canon' = [canon EXCEPT ![Height(blk)] = blk]
  /\ last' = Height(blk)
  /\ pc' = "head"
  /\ UNCHANGED <<blocks, headers, head, genesisFile, state, latest, blk>>

\* The head hash, then the tip in memory.
WriteHeadBlockHash ==
  /\ pc = "head"
  /\ head' = blk
  /\ latest' = blk
  /\ pc' = "run"
  /\ blk' = NoBlock
  /\ UNCHANGED <<blocks, headers, canon, last, genesisFile, state>>

\* handleDirectExtension returns the error of a failed write of the block or
\* of its canonical hash; nothing takes the execution back.
FailWrite ==
  /\ WriteFailures
  /\ pc \in {"block", "canonical"}
  /\ latest # NoBlock
  /\ pc' = "run"
  /\ blk' = NoBlock
  /\ UNCHANGED <<dbVars, genesisFile, state, latest>>

\* It only logs a failed write of the head hash, and goes on.
MissHeadBlockHash ==
  /\ WriteFailures
  /\ pc = "head"
  /\ latest # NoBlock
  /\ latest' = blk
  /\ pc' = "run"
  /\ blk' = NoBlock
  /\ UNCHANGED <<dbVars, genesisFile, state>>

-----------------------------------------------------------------------------
\* Going back

\* Canonical heights 0 to the height of b are the chain that ends in b.
IsCanonicalChain(b) ==
  \A k \in 0..Height(b) : canon[k] = Ancestor(b, k) /\ canon[k] \in blocks

\* revertToHeight clears the state and replays the canonical chain; only
\* memory and state move, the database stays where it was.  One step back
\* stands for the block-by-block reverts of a reorganization; a replay that
\* cannot read a block is in ReorgManager.  What is replayed is whatever is
\* canonical: of a chain that is not one, no header has the state.
RevertToHeight ==
  /\ pc = "run"
  /\ \E d \in ReorgDepths :
       /\ d <= Height(latest)
       /\ \A k \in 0..(Height(latest) - d) : canon[k] \in blocks
       /\ blk' = canon[Height(latest) - d]
  /\ state' = Diverged
  /\ pc' = "replay"
  /\ UNCHANGED <<dbVars, genesisFile, latest>>

FinishReplay ==
  /\ pc = "replay"
  /\ state' = IF IsCanonicalChain(blk) THEN Root(blk) ELSE Diverged
  /\ latest' = IF blk = Genesis THEN NoBlock ELSE blk
  /\ pc' = "run"
  /\ blk' = NoBlock
  /\ UNCHANGED <<dbVars, genesisFile>>

\* Mutant: the loop ends before the tip.
TruncateBelowTip ==
  /\ pc = "run"
  /\ \E h \in TruncateHeights :
       /\ h < Height(latest)
       /\ blocks' = blocks \ {canon[k] : k \in (h + 1)..(Height(latest) - 1)}
       /\ canon' = [k \in Heights |->
                      IF k \in (h + 1)..(Height(latest) - 1) THEN NoBlock ELSE canon[k]]
       /\ last' = IF h = 0 THEN NoHeight ELSE h
       /\ latest' = IF h = 0 THEN NoBlock ELSE IF canon[h] \in blocks THEN canon[h] ELSE latest
  /\ UNCHANGED <<headers, head, genesisFile, state, pc, blk>>

\* TruncateTo deletes blocks and canonical hashes down to h and sets the last
\* canonical height in one batch; headers, head hash and state stay.
TruncateTo ==
  /\ pc = "run"
  /\ \E h \in TruncateHeights :
       /\ h < Height(latest)
       /\ blocks' = blocks \ {canon[k] : k \in (h + 1)..Height(latest)}
       /\ canon' = [k \in Heights |->
                      IF k \in (h + 1)..Height(latest) THEN NoBlock ELSE canon[k]]
       /\ last' = IF h = 0 THEN NoHeight ELSE h
       /\ latest' = IF h = 0 THEN NoBlock ELSE IF canon[h] \in blocks THEN canon[h] ELSE latest
  /\ UNCHANGED <<headers, head, genesisFile, state, pc, blk>>

\* The process dies: memory is lost, what was written stays.
Crash ==
  /\ pc # "down"
  /\ pc' = "down"
  /\ latest' = NoBlock
  /\ blk' = NoBlock
  /\ UNCHANGED <<dbVars, genesisFile, state>>

Step ==
  \/ Restart \/ SeedGenesis \/ PersistGenesisBlock
  \/ \E b \in Blocks : ExecuteBlock(b)
  \/ FinishExecution
  \/ WriteBlock \/ WriteCanonicalHash \/ WriteHeadBlockHash
  \/ FailWrite \/ MissHeadBlockHash
  \/ RevertToHeight \/ FinishReplay \/ TruncateTo
  \/ Crash

\* The branch of b does not go through the head.
LeavesHead(b) ==
  head \in Blocks /\ ~(Height(head) < Height(b) /\ Ancestor(b, Height(head)) = head)

\* Writing a canonical hash leaves the branch of the head; writing the head
\* hash ends that.
Next ==
  /\ Step
  /\ replaced' = CASE pc = "canonical" /\ pc' = "head" -> replaced \/ LeavesHead(blk)
                   [] pc = "head" /\ pc' = "run" -> replaced /\ head' # blk
                   [] OTHER -> replaced
  /\ misled' = (misled \/ (pc = "down" /\ HeadMisleads))

Spec == Init /\ [][Next]_vars

-----------------------------------------------------------------------------
\* Properties

\* The database maps hashes and heights to blocks of the tree, and pc names
\* the next write of newBlockchain, handleDirectExtension or revertToHeight.  The
\* two histories are not state of the node and are left out.
TypeOK ==
  /\ blocks \subseteq Blocks \cup {Genesis}
  /\ headers \subseteq Blocks \cup {Genesis}
  /\ canon \in [Heights -> Blocks \cup {Genesis, NoBlock}]
  /\ last \in Heights \cup {NoHeight}
  /\ head \in Blocks \cup {Genesis, NoBlock}
  /\ genesisFile \in {EmptyState, GenesisRoot, Diverged}
  /\ state \in {Root(b) : b \in Blocks \cup {Genesis}} \cup {EmptyState, Diverged}
  /\ latest \in Blocks \cup {Genesis, NoBlock}
  /\ pc \in {"down", "genesis", "persist", "execute", "block", "canonical", "head",
             "replay", "run"}
  /\ blk \in Blocks \cup {Genesis, NoBlock}

\* Whatever the moment of a crash, of a reorganization too, the tip that a restart
\* finds has its whole chain stored and canonical: GetBlock answers every height
\* below it.  The one exception: the head hash, left on the branch that was replaced
\* and not below the new one, misleads the restart, or has misled an earlier one,
\* which then came up beside its canonical chain.
RecoverableChainLinked ==
  RecoverableTip # NoBlock =>
    IsCanonicalChain(RecoverableTip) \/ HeadMisleads \/ misled

\* A running node's chain is stored and canonical up to its tip.
RunningChainLinked ==
  pc = "run" /\ latest # NoBlock => IsCanonicalChain(latest)

\* A restart on this disk comes up on b or on a block above it.
ComesBackTo(b) ==
  /\ RecoverableTip # NoBlock /\ Height(RecoverableTip) >= Height(b)
  /\ Ancestor(RecoverableTip, Height(b)) = b

\* A commit that has returned survives.  handleDirectExtension goes on when
\* the head hash cannot be written ("we can recover from this"): a crash after
\* that still comes back to the committed block or to one on it, although the head
\* hash and the pointers above may name the branch that it replaced, unless the
\* head hash is one that misleads.
CommitIsDurable ==
  [][pc = "head" /\ pc' = "run" =>
       ComesBackTo(latest)' \/ HeadMisleads' \/ misled]_vars

\* A running node's account state is its tip's, so it can execute blocks.
StateMatchesTip ==
  pc = "run" /\ latest # NoBlock => state = Root(latest)

\* The store implements the abstract tip: every write moves the recoverable
\* tip by one whole commit or truncation, or leaves it alone.
Durable == INSTANCE DurableTip WITH tip <- RecoverableTip
TipMovesInWholeBlocks == Durable!Spec

=============================================================================
