---------------------------- MODULE StoreProofs ----------------------------
(***************************************************************************)
(* Proofs about ChainStore without reorganizations: whatever writes fail,  *)
(* wherever crashes fall and whatever the fast sync truncates, the disk    *)
(* holds one chain, recovery finds its tip, and that tip moves as          *)
(* DurableTip says.                                                        *)
(***************************************************************************)
EXTENDS StoreInvariant, TLAPS, SequenceTheorems

-----------------------------------------------------------------------------
\* The block tree

\* The genesis block is its own only ancestor.
LEMMA GenesisFacts ==
  /\ Genesis # NoBlock /\ Genesis \notin Blocks /\ NoBlock \notin Blocks
  /\ Height(Genesis) = 0 /\ Ancestor(Genesis, 0) = Genesis
BY BlocksAssumption DEF Height, Ancestor

\* A block extends the chain of its parent by itself.
LEMMA ParentFacts ==
  ASSUME NEW b \in Blocks
  PROVE  /\ Height(b) \in 1..MaxHeight
         /\ Parent(b) \in Blocks \cup {Genesis}
         /\ Height(Parent(b)) = Height(b) - 1
         /\ Ancestor(b, Height(b)) = b
         /\ \A k \in 0..(Height(b) - 1) : Ancestor(b, k) = Ancestor(Parent(b), k)
<1> DEFINE L == Len(Path[b])
<1>1. /\ Path[b] \in Seq(Blocks)
      /\ L > 0
      /\ Path[b][L] = b
      /\ \A i \in 1..L : Path[Path[b][i]] = SubSeq(Path[b], 1, i)
  BY PathAssumption
<1>2. L \in Nat /\ L \in 1..MaxHeight /\ Height(b) = L
  BY <1>1, LenProperties, StoreAssumption DEF Height
<1>3. Parent(b) = IF L = 1 THEN Genesis ELSE Path[b][L - 1]
  BY DEF Parent
<1> HIDE DEF L
<1>4. Ancestor(b, L) = b
  BY <1>1, <1>2 DEF Ancestor, L
<1>5. CASE L = 1
  BY <1>2, <1>3, <1>4, <1>5, GenesisFacts DEF Ancestor
<1>6. CASE L # 1
  <2>1. L - 1 \in 1..L /\ L - 1 \in Nat
    BY <1>2, <1>6
  <2>2. Parent(b) = Path[b][L - 1] /\ Path[b][L - 1] \in Blocks
    BY <1>1, <1>3, <1>6, <2>1, ElementOfSeq DEF L
  <2>3. Path[Parent(b)] = SubSeq(Path[b], 1, L - 1)
    BY <1>1, <2>1, <2>2
  <2>4. \A i \in 1..(L - 1) : Path[b][i] \in Blocks
    BY <1>1, <1>2, ElementOfSeq DEF L
  <2>5. /\ Len(SubSeq(Path[b], 1, L - 1)) = L - 1
        /\ \A i \in 1..(L - 1) : SubSeq(Path[b], 1, L - 1)[i] = Path[b][i]
    BY <2>1, <2>4, SubSeqProperties
  <2>6. Height(Parent(b)) = L - 1
    BY <2>2, <2>3, <2>5 DEF Height
  <2>7. \A k \in 0..(L - 1) : Ancestor(b, k) = Ancestor(Parent(b), k)
    BY <1>2, <2>3, <2>5 DEF Ancestor
  <2> QED BY <1>2, <1>4, <2>2, <2>6, <2>7
<1> QED BY <1>2, <1>5, <1>6

\* Every block is its own ancestor at its own height, which is in bounds.
LEMMA HeightFacts ==
  ASSUME NEW b \in Blocks \cup {Genesis}
  PROVE  Height(b) \in Heights /\ Ancestor(b, Height(b)) = b /\ b # NoBlock
BY ParentFacts, GenesisFacts, StoreAssumption DEF Heights

\* The ancestor at a height is that high.
LEMMA AncestorHeight ==
  ASSUME NEW b \in Blocks \cup {Genesis}, NEW h \in 0..Height(b)
  PROVE  Height(Ancestor(b, h)) = h
<1>1. CASE h = 0
  BY <1>1, GenesisFacts DEF Ancestor
<1>2. CASE h # 0
  <2> DEFINE L == Len(Path[b])
  <2>1. b \in Blocks
    BY <1>2, GenesisFacts
  <2>2. /\ Path[b] \in Seq(Blocks)
        /\ \A i \in 1..L : Path[Path[b][i]] = SubSeq(Path[b], 1, i)
        /\ Height(b) = L /\ L \in Nat
    BY <2>1, PathAssumption, LenProperties DEF Height
  <2> HIDE DEF L
  <2>3. h \in 1..L /\ h \in Nat
    BY <1>2, <2>2
  <2>4. \A i \in 1..h : Path[b][i] \in Blocks
    BY <2>2, <2>3, ElementOfSeq DEF L
  <2>5. Len(SubSeq(Path[b], 1, h)) = h
    BY <2>3, <2>4, SubSeqProperties
  <2>6. Ancestor(b, h) = Path[b][h] /\ Path[b][h] \in Blocks
    BY <1>2, <2>3, <2>4 DEF Ancestor
  <2> QED BY <2>2, <2>3, <2>5, <2>6 DEF Height
<1> QED BY <1>1, <1>2

\* The ancestors of an ancestor are those of the block.
LEMMA AncestorOfAncestor ==
  ASSUME NEW b \in Blocks \cup {Genesis}, NEW h \in 0..Height(b), NEW k \in 0..h
  PROVE  Ancestor(Ancestor(b, h), k) = Ancestor(b, k)
<1>1. CASE k = 0
  BY <1>1 DEF Ancestor
<1>2. CASE k # 0
  <2> DEFINE L == Len(Path[b])
  <2>1. b \in Blocks /\ h # 0
    BY <1>2, GenesisFacts
  <2>2. /\ Path[b] \in Seq(Blocks)
        /\ \A i \in 1..L : Path[Path[b][i]] = SubSeq(Path[b], 1, i)
        /\ Height(b) = L /\ L \in Nat
    BY <2>1, PathAssumption, LenProperties DEF Height
  <2> HIDE DEF L
  <2>3. h \in 1..L /\ h \in Nat /\ k \in 1..h
    BY <1>2, <2>1, <2>2
  <2>4. \A i \in 1..h : Path[b][i] \in Blocks
    BY <2>2, <2>3, ElementOfSeq DEF L
  <2>5. SubSeq(Path[b], 1, h)[k] = Path[b][k]
    BY <2>3, <2>4, SubSeqProperties
  <2>6. Path[Ancestor(b, h)] = SubSeq(Path[b], 1, h)
    BY <2>1, <2>2, <2>3 DEF Ancestor
  <2> QED BY <1>2, <2>5, <2>6 DEF Ancestor
<1> QED BY <1>1, <1>2

\* The block below the tip of a canonical chain is its parent, and stored.
LEMMA CanonicalParent ==
  ASSUME NEW b \in Blocks, IsCanonicalChain(b)
  PROVE  canon[Height(b) - 1] = Parent(b) /\ Parent(b) \in blocks
<1>1. /\ Height(b) \in Nat /\ Height(b) > 0
      /\ Parent(b) \in Blocks \cup {Genesis}
      /\ Height(Parent(b)) = Height(b) - 1
      /\ \A k \in 0..(Height(b) - 1) : Ancestor(b, k) = Ancestor(Parent(b), k)
  BY ParentFacts
<1>2. Ancestor(b, Height(b) - 1) = Parent(b)
  BY <1>1, HeightFacts
<1> QED BY <1>1, <1>2 DEF IsCanonicalChain

-----------------------------------------------------------------------------
\* The invariant

\* The tip on disk is a stored block at the highest canonical height.
LEMMA DiskTipFacts ==
  ASSUME StoreInvariant, Top # NoHeight
  PROVE  /\ Top \in Nat /\ Top \in Heights /\ Top \in 0..Top
         /\ DiskTip = canon[Top]
         /\ DiskTip \in Blocks \cup {Genesis} /\ DiskTip # NoBlock
         /\ Height(DiskTip) = Top
         /\ IsCanonicalChain(DiskTip)
         /\ DiskTip \in blocks
         /\ \A k \in 0..Top : canon[k] = Ancestor(DiskTip, k) /\ canon[k] \in blocks
<1>1. /\ Top \in Nat /\ Top \in Heights /\ Top \in 0..Top
      /\ DiskTip = canon[Top]
      /\ DiskTip \in Blocks \cup {Genesis}
      /\ Height(DiskTip) = Top
      /\ IsCanonicalChain(DiskTip)
  BY StoreAssumption DEF StoreInvariant, TypeOK, CanonicalToTop, DiskTip, Heights, Top
<1>2. DiskTip # NoBlock /\ Ancestor(DiskTip, Top) = DiskTip
  BY <1>1, HeightFacts
<1>3. \A k \in 0..Top : canon[k] = Ancestor(DiskTip, k) /\ canon[k] \in blocks
  BY <1>1 DEF IsCanonicalChain
<1> QED BY <1>1, <1>2, <1>3

\* Canonical blocks are as high as their heights.
LEMMA CanonicalHeight ==
  ASSUME StoreInvariant, NEW k \in 0..Top
  PROVE  /\ canon[k] \in blocks /\ canon[k] \in Blocks \cup {Genesis}
         /\ Height(canon[k]) = k
         /\ Top # NoHeight
<1>1. Top # NoHeight
  BY DEF NoHeight
<1>2. canon[k] = Ancestor(DiskTip, k) /\ canon[k] \in blocks
  BY <1>1, DiskTipFacts
<1>3. Height(canon[k]) = k
  BY <1>1, <1>2, DiskTipFacts, AncestorHeight
<1> QED BY <1>1, <1>2, <1>3 DEF StoreInvariant, TypeOK

\* Blocks of different heights lead to different states.
LEMMA RootsDiffer ==
  ASSUME CollisionFree, NEW b \in Blocks, NEW c \in Blocks \cup {Genesis},
         Height(b) # Height(c)
  PROVE  Root(b) # Root(c)
BY BlocksAssumption DEF CollisionFree, Root

\* No block leads to a state of no block.
LEMMA DivergedIsNoRoot ==
  \A c \in Blocks \cup {Genesis} : Root(c) # Diverged
BY HeaderAssumption DEF Root

-----------------------------------------------------------------------------
\* Recovery

\* A restart comes up on the block at the highest canonical height, wherever
\* the head hash is.
LEMMA RecoveryFindsDiskTip ==
  StoreInvariant => RecoverableTip = DiskTip
<1> SUFFICES ASSUME StoreInvariant PROVE RecoverableTip = DiskTip
  OBVIOUS
<1>1. NoBlock \notin blocks
  BY GenesisFacts DEF StoreInvariant, TypeOK
<1>2. CASE Top = NoHeight
  <2>1. /\ last = NoHeight /\ head = NoBlock
        /\ \A h \in Heights : canon[h] = NoBlock
    BY <1>2 DEF StoreInvariant, CanonicalToTop, HeadOnChain, Heights, NoHeight, Top
  <2>2. CanonicalTip = NoBlock
    BY <1>1, <2>1 DEF CanonicalTip, ValidCanonicalAt
  <2>3. HeadTip = NoBlock
    BY <1>1, <2>1 DEF HeadTip
  <2> QED BY <1>2, <2>2, <2>3 DEF RecoverableTip, NeedsRepair, DiskTip
<1>3. CASE Top # NoHeight
  <2> DEFINE t == DiskTip
  <2>1. /\ Top \in Nat /\ Top \in Heights
        /\ t = canon[Top] /\ t \in Blocks \cup {Genesis} /\ t # NoBlock
        /\ Height(t) = Top /\ IsCanonicalChain(t) /\ t \in blocks
    BY <1>3, DiskTipFacts
  <2>2. Continuous(t)
    <3>1. CASE t \in Blocks
      BY <3>1, <2>1, CanonicalParent DEF Continuous, StoreInvariant, CanonicalToTop
    <3>2. CASE t = Genesis
      BY <3>2, GenesisFacts DEF Continuous
    <3> QED BY <2>1, <3>1, <3>2
  <2>3. ValidCanonicalAt(Top)
    BY <2>1, <2>2 DEF ValidCanonicalAt
  <2>4. CanonicalTip = t
    <3>1. CASE last # NoHeight
      BY <2>1, <2>3, <3>1 DEF CanonicalTip, Top
    <3>2. CASE last = NoHeight
      <4>1. Top = 0
        BY <1>3, <3>2 DEF Top
      <4>2. \A h \in Heights : ValidCanonicalAt(h) => h = 0
        BY <1>1, <4>1 DEF ValidCanonicalAt, StoreInvariant, CanonicalToTop, Heights
      <4>3. 0 \in Heights /\ ValidCanonicalAt(0)
        BY <2>1, <2>3, <4>1
      <4>4. (CHOOSE h \in Heights :
               ValidCanonicalAt(h) /\ \A k \in Heights : ValidCanonicalAt(k) => k <= h) = 0
        BY <4>2, <4>3
      <4> QED BY <2>1, <3>2, <4>1, <4>3, <4>4 DEF CanonicalTip
    <3> QED BY <3>1, <3>2
  <2>5. CASE HeadTip = NoBlock
    BY <2>1, <2>4, <2>5 DEF RecoverableTip, NeedsRepair
  <2>6. CASE HeadTip # NoBlock
    <3>1. HeadTip = head /\ head \in blocks
      BY <2>6 DEF HeadTip
    <3>2. PICK h \in 0..Top : head = canon[h]
      BY <3>1 DEF StoreInvariant, HeadOnChain
    <3>3. CASE h = Top
      BY <2>1, <2>4, <3>1, <3>2, <3>3 DEF RecoverableTip, NeedsRepair
    <3>4. CASE h # Top
      <4>1. Height(head) = h
        BY <3>2, CanonicalHeight
      <4>2. Height(CanonicalTip) > Height(HeadTip)
        BY <2>1, <2>4, <3>1, <3>2, <3>4, <4>1
      <4> QED BY <2>1, <2>4, <4>2 DEF RecoverableTip, NeedsRepair
    <3> QED BY <3>3, <3>4
  <2> QED BY <2>5, <2>6
<1> QED BY <1>2, <1>3

-----------------------------------------------------------------------------
\* One step

\* A step that writes no canonical hash and deletes nothing keeps the chain.
LEMMA ChainKept ==
  ASSUME StoreInvariant, UNCHANGED <<canon, last>>,
         blocks \subseteq blocks', blocks' \subseteq headers'
  PROVE  CanonicalToTop' /\ Top' = Top /\ DiskTip' = DiskTip
<1>1. Top' = Top /\ DiskTip' = DiskTip
  BY DEF DiskTip, Top
<1>2. ASSUME NEW b, IsCanonicalChain(b) PROVE IsCanonicalChain(b)'
  BY <1>2 DEF IsCanonicalChain
<1>3. ASSUME Top' # NoHeight
      PROVE  /\ canon'[Top'] \in Blocks \cup {Genesis}
             /\ Height(canon'[Top']) = Top'
             /\ IsCanonicalChain(canon[Top])'
  BY <1>1, <1>2, <1>3 DEF StoreInvariant, CanonicalToTop
<1>4. \A h \in Heights : h > Top' => canon'[h] = NoBlock
  BY <1>1 DEF StoreInvariant, CanonicalToTop
<1> QED BY <1>1, <1>3, <1>4 DEF CanonicalToTop

\* When the whole database stays, so does what the invariant says of it.
LEMMA DatabaseKept ==
  ASSUME StoreInvariant, UNCHANGED dbVars
  PROVE  /\ UNCHANGED <<blocks, headers, canon, last, head>>
         /\ CanonicalToTop' /\ Top' = Top /\ DiskTip' = DiskTip
         /\ HeadOnChain'
<1>1. UNCHANGED <<blocks, headers, canon, last, head>>
  BY DEF dbVars
<1>2. CanonicalToTop' /\ Top' = Top /\ DiskTip' = DiskTip
  BY <1>1, ChainKept DEF StoreInvariant, CanonicalToTop
<1> QED BY <1>1, <1>2 DEF StoreInvariant, HeadOnChain

\* Starting on what the disk holds.
LEMMA RestartStep == StoreInvariant /\ Restart => StoreInvariant'
<1> SUFFICES ASSUME StoreInvariant, Restart PROVE StoreInvariant'
  OBVIOUS
<1>1. RecoverableTip = DiskTip
  BY RecoveryFindsDiskTip
<1>2. UNCHANGED dbVars /\ UNCHANGED <<genesisFile, state>>
  BY DEF Restart
<1>3. /\ UNCHANGED <<blocks, headers, canon, last, head>>
      /\ CanonicalToTop' /\ Top' = Top /\ DiskTip' = DiskTip
      /\ HeadOnChain'
  BY <1>2, DatabaseKept
<1>4. CASE RecoverableTip = NoBlock /\ pc' = "genesis" /\ UNCHANGED <<latest, blk>>
  <2>1. Top = NoHeight
    BY <1>1, <1>4, DiskTipFacts
  <2> QED BY <1>2, <1>3, <1>4, <2>1
          DEF StoreInvariant, TypeOK, WriteInOrder, StateAhead, Restart
<1>5. CASE NeedsRepair /\ pc' = "canonical" /\ blk' = RecoverableTip /\ UNCHANGED latest
  <2>1. DiskTip # NoBlock
    BY <1>1, <1>5 DEF NeedsRepair, RecoverableTip
  <2>2. Top # NoHeight
    BY <2>1 DEF DiskTip
  <2>3. DiskTip \in blocks /\ DiskTip \in Blocks \cup {Genesis}
    BY <2>2, DiskTipFacts
  <2> QED BY <1>1, <1>2, <1>3, <1>5, <2>2, <2>3
          DEF StoreInvariant, TypeOK, WriteInOrder, StateAhead, Restart
<1>6. CASE /\ RecoverableTip # NoBlock /\ ~NeedsRepair
           /\ pc' = "run" /\ latest' = RecoverableTip /\ UNCHANGED blk
  <2>1. Top # NoHeight
    BY <1>1, <1>6 DEF DiskTip
  <2>2. DiskTip \in Blocks \cup {Genesis} /\ DiskTip # NoBlock
    BY <2>1, DiskTipFacts
  <2> QED BY <1>1, <1>2, <1>3, <1>6, <2>1, <2>2
          DEF StoreInvariant, TypeOK, WriteInOrder, StateAhead
<1> QED BY <1>4, <1>5, <1>6 DEF Restart

\* Creating the genesis, before the chain database is written.
LEMMA GenesisStep ==
  StoreInvariant /\ (SeedGenesis \/ PersistGenesisBlock) => StoreInvariant'
<1> SUFFICES ASSUME StoreInvariant, SeedGenesis \/ PersistGenesisBlock
             PROVE  StoreInvariant'
  OBVIOUS
<1>1. /\ UNCHANGED <<blocks, headers, canon, last, head>>
      /\ CanonicalToTop' /\ Top' = Top /\ DiskTip' = DiskTip
      /\ HeadOnChain'
  BY DatabaseKept DEF SeedGenesis, PersistGenesisBlock
<1>2. Top = NoHeight /\ head = NoBlock
  BY DEF StoreInvariant, WriteInOrder, HeadOnChain, SeedGenesis, PersistGenesisBlock
<1>3. GenesisRoot \in {Root(c) : c \in Blocks \cup {Genesis}}
  BY GenesisFacts DEF Root
<1>4. StateAhead'
  BY <1>1, <1>2 DEF StateAhead, NoHeight
<1>5. CASE SeedGenesis
  BY <1>1, <1>2, <1>3, <1>4, <1>5
  DEF SeedGenesis, StoreInvariant, TypeOK, WriteInOrder, IsNext
<1>6. CASE PersistGenesisBlock
  <2>1. state \in {EmptyState, GenesisRoot, Diverged}
    BY <1>6 DEF PersistGenesisBlock, StoreInvariant, WriteInOrder
  <2> QED BY <1>1, <1>2, <1>4, <1>6, <2>1
          DEF PersistGenesisBlock, StoreInvariant, TypeOK, WriteInOrder, IsNext
<1> QED BY <1>5, <1>6

\* Executing a block moves the state away from every canonical block's.
LEMMA ExecuteBlockStep ==
  ASSUME NEW b \in Blocks
  PROVE  StoreInvariant /\ ExecuteBlock(b) => StoreInvariant'
<1> SUFFICES ASSUME StoreInvariant, ExecuteBlock(b) PROVE StoreInvariant'
  OBVIOUS
<1>1. /\ UNCHANGED <<blocks, headers, canon, last, head>>
      /\ CanonicalToTop' /\ Top' = Top /\ DiskTip' = DiskTip
      /\ HeadOnChain'
  BY DatabaseKept DEF ExecuteBlock
<1>2. Top # NoHeight /\ latest = DiskTip /\ state = Root(latest)
  BY DEF ExecuteBlock, StoreInvariant, WriteInOrder
<1>3. Top \in 0..Top /\ canon[Top] = DiskTip
  BY <1>2, DiskTipFacts
<1>4. head \in blocks \cup {NoBlock}
  BY <1>2, <1>3 DEF StoreInvariant, StateAhead
<1>5. \A k \in 0..Top : Diverged # Root(canon[k])
  BY CanonicalHeight, DivergedIsNoRoot
<1>6. \A k \in 0..(Top - 1) : k \in 0..Top
  BY <1>2, DiskTipFacts
<1>7. StateAhead'
  BY <1>1, <1>4, <1>5, <1>6 DEF StateAhead, ExecuteBlock
<1> QED BY <1>1, <1>2, <1>7
        DEF ExecuteBlock, StoreInvariant, TypeOK, WriteInOrder

LEMMA FinishExecutionStep ==
  ASSUME CollisionFree
  PROVE  StoreInvariant /\ FinishExecution => StoreInvariant'
<1> SUFFICES ASSUME StoreInvariant, FinishExecution PROVE StoreInvariant'
  OBVIOUS
<1>1. /\ UNCHANGED <<blocks, headers, canon, last, head>>
      /\ CanonicalToTop' /\ Top' = Top /\ DiskTip' = DiskTip
      /\ HeadOnChain'
  BY DatabaseKept DEF FinishExecution
<1>2. blk \in Blocks /\ Top # NoHeight /\ Parent(blk) = DiskTip
  BY DEF FinishExecution, StoreInvariant, WriteInOrder
<1>3. Height(blk) = Top + 1 /\ Top \in Nat
  BY <1>2, DiskTipFacts, ParentFacts
<1>4. ASSUME NEW k \in 0..(Top - 1) PROVE Root(blk) # Root(canon[k])
  <2>1. k \in 0..Top /\ k # Top + 1
    BY <1>3
  <2> QED BY <1>2, <1>3, <2>1, CanonicalHeight, RootsDiffer
<1>5. head \in blocks \cup {NoBlock}
  BY DEF FinishExecution, StoreInvariant, StateAhead
<1>6. StateAhead'
  BY <1>1, <1>4, <1>5 DEF FinishExecution, StateAhead
<1>7. Root(blk) \in {Root(c) : c \in Blocks \cup {Genesis}}
  BY <1>2
<1> QED BY <1>1, <1>2, <1>6, <1>7
        DEF FinishExecution, StoreInvariant, TypeOK, WriteInOrder, IsNext

\* A write that fails, and the end of the process.
LEMMA FaultStep ==
  StoreInvariant /\ (FailWrite \/ MissHeadBlockHash \/ Crash) => StoreInvariant'
<1> SUFFICES ASSUME StoreInvariant, FailWrite \/ MissHeadBlockHash \/ Crash
             PROVE  StoreInvariant'
  OBVIOUS
<1>1. /\ UNCHANGED <<blocks, headers, canon, last, head>>
      /\ CanonicalToTop' /\ Top' = Top /\ DiskTip' = DiskTip
      /\ HeadOnChain'
  BY DatabaseKept DEF FailWrite, MissHeadBlockHash, Crash
<1>2. CASE FailWrite
  BY <1>1, <1>2 DEF FailWrite, StoreInvariant, TypeOK, WriteInOrder, StateAhead
<1>3. CASE MissHeadBlockHash
  <2>1. Top # NoHeight /\ blk = DiskTip
    BY <1>3 DEF MissHeadBlockHash, StoreInvariant, WriteInOrder
  <2> QED BY <1>1, <1>3, <2>1
          DEF MissHeadBlockHash, StoreInvariant, TypeOK, WriteInOrder, StateAhead
<1>4. CASE Crash
  BY <1>1, <1>4 DEF Crash, StoreInvariant, TypeOK, WriteInOrder, StateAhead
<1> QED BY <1>2, <1>3, <1>4

\* Storing the block.
LEMMA WriteBlockStep == StoreInvariant /\ WriteBlock => StoreInvariant'
<1> SUFFICES ASSUME StoreInvariant, WriteBlock PROVE StoreInvariant'
  OBVIOUS
<1>1. IsNext(blk)
  BY DEF WriteBlock, StoreInvariant, WriteInOrder
<1>2. blk \in Blocks \cup {Genesis} /\ blk # NoBlock
  BY <1>1, GenesisFacts DEF IsNext
<1>3. CanonicalToTop' /\ Top' = Top /\ DiskTip' = DiskTip
  BY ChainKept DEF WriteBlock, StoreInvariant, CanonicalToTop
<1>4. IsNext(blk)'
  BY <1>1, <1>3 DEF WriteBlock, IsNext
<1>5. head \in blocks \cup {NoBlock}
  BY DEF WriteBlock, StoreInvariant, StateAhead
<1>6. HeadOnChain'
  BY <1>2, <1>3, <1>5 DEF WriteBlock, StoreInvariant, HeadOnChain
<1>7. StateAhead'
  BY <1>3, <1>5 DEF WriteBlock, StoreInvariant, StateAhead
<1> QED BY <1>2, <1>3, <1>4, <1>6, <1>7
        DEF WriteBlock, StoreInvariant, TypeOK, WriteInOrder

\* Making it canonical: a repair, which rewrites the hash that is there.
LEMMA RepairStep ==
  ASSUME StoreInvariant, WriteCanonicalHash, Top # NoHeight, blk = DiskTip
  PROVE  StoreInvariant' /\ DiskTip' = DiskTip
<1>1. /\ Top \in Nat /\ Height(blk) = Top /\ blk = canon[Top] /\ blk # NoBlock
      /\ Top \in Heights
  BY DiskTipFacts
<1>2. canon' = canon /\ last' = Top
  BY <1>1 DEF WriteCanonicalHash, StoreInvariant, TypeOK
<1>3. Top' = Top /\ DiskTip' = DiskTip
  BY <1>1, <1>2 DEF Top, DiskTip, NoHeight
<1>4. UNCHANGED <<blocks, headers, head, genesisFile, state, latest, blk>> /\ pc' = "head"
  BY DEF WriteCanonicalHash
<1>5. CanonicalToTop'
  BY <1>2, <1>3, <1>4 DEF StoreInvariant, CanonicalToTop, IsCanonicalChain
<1>6. HeadOnChain' /\ StateAhead'
  BY <1>2, <1>3, <1>4 DEF StoreInvariant, HeadOnChain, StateAhead
<1>7. TypeOK' /\ WriteInOrder'
  BY <1>1, <1>2, <1>3, <1>4 DEF StoreInvariant, TypeOK, WriteInOrder
<1> QED BY <1>3, <1>5, <1>6, <1>7 DEF StoreInvariant

\* Making it canonical: the next block.
LEMMA ExtendStep ==
  ASSUME CollisionFree, StoreInvariant, WriteCanonicalHash, IsNext(blk)
  PROVE  StoreInvariant' /\ DiskTip' = blk
<1> DEFINE h == Height(blk)
<1>1. /\ blk \in blocks
      /\ canon' = [canon EXCEPT ![h] = blk] /\ last' = h
      /\ pc' = "head" /\ UNCHANGED <<blocks, headers, head, genesisFile, state, latest, blk>>
  BY DEF WriteCanonicalHash, StoreInvariant, WriteInOrder
<1>2. /\ blk \in Blocks \cup {Genesis} /\ blk # NoBlock
      /\ h \in Heights /\ h \in Nat /\ Ancestor(blk, h) = blk
      /\ canon \in [Heights -> Blocks \cup {Genesis, NoBlock}]
      /\ blocks \subseteq headers
  BY HeightFacts DEF IsNext, StoreInvariant, TypeOK, Heights, CanonicalToTop
<1> HIDE DEF h
<1>3. canon'[h] = blk /\ \A k \in Heights \ {h} : canon'[k] = canon[k]
  BY <1>1, <1>2
<1>4. Top' = h /\ DiskTip' = blk
  BY <1>1, <1>2, <1>3 DEF Top, DiskTip, NoHeight
<1>5. /\ Top \in Int /\ Top = h - 1
      /\ \A k \in 0..(h - 1) : Ancestor(blk, k) = canon[k] /\ canon[k] \in blocks
      /\ \A k \in 0..(h - 1) : state # Root(canon[k])
  <2>1. CASE blk = Genesis /\ Top = NoHeight
    BY <1>2, <2>1, GenesisFacts DEF NoHeight, h
  <2>2. CASE blk \in Blocks /\ Top # NoHeight /\ Parent(blk) = DiskTip /\ state = Root(blk)
    <3>1. /\ Top \in Nat /\ Height(DiskTip) = Top
          /\ \A k \in 0..Top : canon[k] = Ancestor(DiskTip, k) /\ canon[k] \in blocks
      BY <2>2, DiskTipFacts
    <3>2. /\ Top = h - 1
          /\ \A k \in 0..(h - 1) : Ancestor(blk, k) = Ancestor(DiskTip, k)
      BY <1>2, <2>2, <3>1, ParentFacts DEF h
    <3>3. ASSUME NEW k \in 0..(h - 1) PROVE state # Root(canon[k])
      <4>1. k \in 0..Top /\ k # h
        BY <1>2, <3>1, <3>2
      <4> QED BY <2>2, <4>1, CanonicalHeight, RootsDiffer DEF h
    <3> QED BY <3>1, <3>2, <3>3
  <2> QED BY <2>1, <2>2 DEF IsNext
<1>6. \A k \in 0..(h - 1) : k \in Heights /\ k # h /\ canon'[k] = canon[k]
  <2>1. \A k \in 0..(h - 1) : k \in Heights /\ k # h
    BY <1>2, StoreAssumption DEF Heights
  <2> QED BY <1>3, <2>1
<1>7. \A k \in 0..h : k = h \/ k \in 0..(h - 1)
  BY <1>2
<1>8. IsCanonicalChain(blk)'
  BY <1>1, <1>2, <1>3, <1>5, <1>6, <1>7 DEF IsCanonicalChain, h
<1>9. CanonicalToTop'
  <2>1. \A k \in Heights : k > h => k > Top /\ k # h
    BY <1>2, <1>5 DEF Heights
  <2>2. \A k \in Heights : k > h => canon'[k] = NoBlock
    BY <1>3, <2>1 DEF StoreInvariant, CanonicalToTop
  <2>3. Height(canon'[h]) = h /\ canon'[h] \in Blocks \cup {Genesis} /\ canon'[h] = blk'
    BY <1>1, <1>2, <1>3 DEF h
  <2> QED BY <1>1, <1>2, <1>4, <1>8, <2>2, <2>3 DEF CanonicalToTop
<1>10. head \in blocks \cup {NoBlock}
  <2>1. blk # DiskTip
    <3>1. CASE blk = Genesis /\ Top = NoHeight
      BY <1>2, <3>1 DEF DiskTip
    <3>2. CASE blk \in Blocks /\ Top # NoHeight
      BY <1>5, <1>2, <3>2, DiskTipFacts DEF h
    <3> QED BY <3>1, <3>2 DEF IsNext
  <2> QED BY <2>1 DEF StoreInvariant, StateAhead, WriteCanonicalHash
<1>11. HeadOnChain'
  <2>1. \A k \in 0..Top : k \in 0..h /\ k \in 0..(h - 1)
    BY <1>2, <1>5
  <2>2. head' \in blocks' => \E k \in 0..h : head' = canon'[k]
    BY <1>1, <1>6, <2>1 DEF StoreInvariant, HeadOnChain
  <2> QED BY <1>2, <1>4, <2>2 DEF HeadOnChain, NoHeight
<1>12. StateAhead'
  BY <1>1, <1>4, <1>5, <1>6, <1>10 DEF StateAhead
<1>13. TypeOK'
  BY <1>1, <1>2 DEF StoreInvariant, TypeOK
<1>14. WriteInOrder'
  BY <1>1, <1>2, <1>4 DEF WriteInOrder, NoHeight
<1> QED BY <1>4, <1>9, <1>11, <1>12, <1>13, <1>14 DEF StoreInvariant

\* Moving the head hash and the tip in memory.
LEMMA WriteHeadBlockHashStep ==
  StoreInvariant /\ WriteHeadBlockHash => StoreInvariant'
<1> SUFFICES ASSUME StoreInvariant, WriteHeadBlockHash PROVE StoreInvariant'
  OBVIOUS
<1>1. Top # NoHeight /\ blk = DiskTip
  BY DEF WriteHeadBlockHash, StoreInvariant, WriteInOrder
<1>2. /\ blk \in Blocks \cup {Genesis} /\ blk # NoBlock /\ blk \in blocks
      /\ blk = canon[Top] /\ Top \in 0..Top
  BY <1>1, DiskTipFacts
<1>3. CanonicalToTop' /\ Top' = Top /\ DiskTip' = DiskTip
  BY ChainKept DEF WriteHeadBlockHash, StoreInvariant, CanonicalToTop
<1>4. HeadOnChain' /\ StateAhead'
  BY <1>1, <1>2, <1>3 DEF WriteHeadBlockHash, StoreInvariant, HeadOnChain, StateAhead
<1> QED BY <1>1, <1>2, <1>3, <1>4
        DEF WriteHeadBlockHash, StoreInvariant, TypeOK, WriteInOrder

\* Truncating to the common ancestor: the chain ends there, and the state is
\* ahead of what is left.
LEMMA TruncateToStep ==
  StoreInvariant /\ TruncateTo =>
    StoreInvariant' /\ \E k \in 0..Top : DiskTip' = canon[k] /\ Top # NoHeight
<1> SUFFICES ASSUME StoreInvariant, TruncateTo
             PROVE  StoreInvariant' /\ \E k \in 0..Top : DiskTip' = canon[k] /\ Top # NoHeight
  OBVIOUS
<1>1. PICK h \in TruncateHeights :
        /\ h < Height(latest)
        /\ blocks' = blocks \ {canon[k] : k \in (h + 1)..Height(latest)}
        /\ canon' = [k \in Heights |->
                       IF k \in (h + 1)..Height(latest) THEN NoBlock ELSE canon[k]]
        /\ last' = IF h = 0 THEN NoHeight ELSE h
        /\ latest' = IF h = 0 THEN NoBlock
                     ELSE IF canon[h] \in blocks THEN canon[h] ELSE latest
  BY DEF TruncateTo
<1>2. pc = "run" /\ UNCHANGED <<headers, head, genesisFile, state, pc, blk>>
  BY DEF TruncateTo
<1>3. h \in Heights /\ h \in Nat
  BY StoreAssumption DEF Heights
<1>4. latest # NoBlock
  BY <1>1, <1>3, BlocksAssumption DEF Height
<1>5. Top # NoHeight /\ latest = DiskTip
  BY <1>2, <1>4 DEF StoreInvariant, WriteInOrder
<1>6. /\ Top \in Nat /\ Height(latest) = Top /\ h < Top
      /\ Top \in Heights
      /\ \A k \in 0..Top : canon[k] = Ancestor(DiskTip, k) /\ canon[k] \in blocks
  BY <1>1, <1>5, DiskTipFacts
<1>7. \A k \in 0..Top : Height(canon[k]) = k /\ canon[k] \in Blocks \cup {Genesis}
  BY CanonicalHeight
<1>8. \A k \in 0..h : k \in 0..Top /\ k \in 0..(Top - 1) /\ k \in Heights /\ k \notin (h + 1)..Top
  BY <1>3, <1>6, StoreAssumption DEF Heights
<1>9. \A k \in 0..h : canon'[k] = canon[k] /\ canon'[k] \in blocks'
  <2>1. \A k \in 0..h : canon'[k] = canon[k]
    BY <1>1, <1>6, <1>8
  <2>2. \A j \in (h + 1)..Top : j \in 0..Top /\ j \notin 0..h
    BY <1>3, <1>6
  <2>3. \A k \in 0..h, j \in (h + 1)..Top : canon[k] # canon[j]
    BY <1>7, <1>8, <2>2
  <2> QED BY <1>1, <1>6, <1>8, <2>1, <2>3
<1>10. \A k \in Heights : k > h => canon'[k] = NoBlock
  <2>1. ASSUME NEW k \in Heights, k > h, k \notin (h + 1)..Top
        PROVE  k > Top
    BY <1>3, <1>6, <2>1 DEF Heights
  <2> QED BY <1>1, <1>6, <2>1 DEF StoreInvariant, CanonicalToTop
<1>11. h \in 0..h /\ 0 \in 0..h
  BY <1>3
<1>12. canon'[h] \in Blocks \cup {Genesis} /\ canon'[h] # NoBlock /\ canon'[0] # NoBlock
       /\ Height(canon'[h]) = h
  BY <1>7, <1>8, <1>9, <1>11, BlocksAssumption
<1>13. Top' = h /\ DiskTip' = canon[h]
  BY <1>1, <1>3, <1>9, <1>11, <1>12 DEF Top, DiskTip, NoHeight
<1>14. CanonicalToTop'
  <2>1. \A k \in 0..h : canon[k] = Ancestor(canon[h], k)
    BY <1>6, <1>8, <1>11, AncestorOfAncestor, <1>5, DiskTipFacts
  <2>2. IsCanonicalChain(canon[h])'
    BY <1>9, <1>11, <1>12, <2>1 DEF IsCanonicalChain
  <2>3. canon'[h] = canon[h] /\ canon[h]' = canon'[h']
    BY <1>9, <1>11
  <2>4. blocks' \subseteq headers'
    BY <1>1, <1>2 DEF StoreInvariant, CanonicalToTop
  <2> QED BY <1>10, <1>12, <1>13, <2>2, <2>3, <2>4 DEF CanonicalToTop
<1>15. HeadOnChain'
  <2>1. ASSUME head \in blocks' PROVE \E k \in 0..h : head = canon'[k]
    <3>1. PICK k \in 0..Top : head = canon[k]
      BY <1>1, <2>1 DEF StoreInvariant, HeadOnChain
    <3>2. k \notin (h + 1)..Top
      BY <1>1, <1>6, <2>1, <3>1
    <3>3. k \in 0..h
      BY <1>3, <1>6, <3>2
    <3> QED BY <1>9, <3>1, <3>3
  <2> QED BY <1>2, <1>3, <1>13, <2>1 DEF HeadOnChain, NoHeight
<1>16. StateAhead'
  <2>1. \A k \in 0..h : state # Root(canon'[k])
    BY <1>8, <1>9 DEF StoreInvariant, StateAhead
  <2>2. \A k \in 0..(h - 1) : k \in 0..h
    BY <1>3
  <2> QED BY <1>2, <1>13, <2>1, <2>2 DEF StateAhead
<1>17. latest' = NoBlock \/ latest' = canon[h]
  BY <1>1, <1>6, <1>8, <1>11
<1>18. TypeOK'
  BY <1>1, <1>2, <1>7, <1>8, <1>11, <1>17 DEF StoreInvariant, TypeOK
<1>19. WriteInOrder'
  BY <1>2, <1>3, <1>13, <1>17 DEF WriteInOrder, NoHeight
<1> QED BY <1>5, <1>8, <1>11, <1>13, <1>14, <1>15, <1>16, <1>18, <1>19
        DEF StoreInvariant

-----------------------------------------------------------------------------
\* Theorems.  They assume no reorganization, and that no two blocks lead to
\* the same state.

\* No step breaks the invariant.
LEMMA StoreStep ==
  ASSUME ReorgDepths = {}, CollisionFree
  PROVE  StoreInvariant /\ [Next]_vars => StoreInvariant'
<1> SUFFICES ASSUME StoreInvariant, [Next]_vars PROVE StoreInvariant'
  OBVIOUS
<1>1. ~RevertToHeight
  BY DEF RevertToHeight
<1>2. ~FinishReplay
  BY DEF StoreInvariant, WriteInOrder, FinishReplay
<1>3. CASE UNCHANGED vars
  BY <1>3 DEF vars, StoreInvariant, TypeOK, CanonicalToTop, HeadOnChain,
              WriteInOrder, StateAhead, IsNext, DiskTip, Top, IsCanonicalChain
<1>4. CASE WriteCanonicalHash
  <2>1. IsNext(blk) \/ (Top # NoHeight /\ blk = DiskTip)
    BY <1>4 DEF WriteCanonicalHash, StoreInvariant, WriteInOrder
  <2> QED BY <1>4, <2>1, RepairStep, ExtendStep
<1>5. ASSUME NEW b \in Blocks, ExecuteBlock(b) PROVE StoreInvariant'
  BY <1>5, ExecuteBlockStep
<1> QED
  BY <1>1, <1>2, <1>3, <1>4, <1>5, RestartStep, GenesisStep, FinishExecutionStep,
     FaultStep, WriteBlockStep, WriteHeadBlockHashStep, TruncateToStep DEF Next, Step

\* Wherever a crash or a failed write falls in newBlockchain and
\* handleDirectExtension, and whatever TruncateTo deletes, the canonical
\* heights are one chain, and the write in progress is the next of it.
THEOREM StoreStaysInOrder ==
  ASSUME ReorgDepths = {}, CollisionFree
  PROVE  Spec => []StoreInvariant
<1>1. Init => StoreInvariant
  <2> SUFFICES ASSUME Init PROVE StoreInvariant
    OBVIOUS
  <2>1. Top = NoHeight
    BY StoreAssumption DEF Init, Top, Heights
  <2> QED BY <2>1 DEF Init, StoreInvariant, TypeOK, CanonicalToTop,
          HeadOnChain, WriteInOrder, StateAhead, Heights, NoHeight
<1>2. StoreInvariant /\ [Next]_vars => StoreInvariant'
  BY StoreStep
<1> QED BY <1>1, <1>2, PTL DEF Spec

\* A restart at any moment finds a tip whose whole chain is stored and
\* canonical, with no exception: without reorganizations the head hash never
\* misleads recovery, and the one level that verifyTipContinuity looks at is enough.
THEOREM RecoveryFindsTheChain ==
  ASSUME ReorgDepths = {}, CollisionFree
  PROVE  Spec => [](RecoverableTip # NoBlock => IsCanonicalChain(RecoverableTip))
<1>1. StoreInvariant => (RecoverableTip # NoBlock => IsCanonicalChain(RecoverableTip))
  <2> SUFFICES ASSUME StoreInvariant, DiskTip # NoBlock
               PROVE  IsCanonicalChain(DiskTip)
    BY RecoveryFindsDiskTip
  <2> QED BY DiskTipFacts DEF DiskTip
<1>2. Spec => []StoreInvariant
  BY StoreStaysInOrder
<1> QED BY <1>1, <1>2, PTL

\* A running node, restarted or not, serves its whole chain by height.
THEOREM RunningNodeHasItsChain ==
  ASSUME ReorgDepths = {}, CollisionFree
  PROVE  Spec => []RunningChainLinked
<1>1. StoreInvariant => RunningChainLinked
  BY DiskTipFacts DEF StoreInvariant, WriteInOrder, RunningChainLinked
<1>2. Spec => []StoreInvariant
  BY StoreStaysInOrder
<1> QED BY <1>1, <1>2, PTL

\* The tip on disk moves as the abstract tip does.
LEMMA DiskTipStep ==
  ASSUME ReorgDepths = {}, CollisionFree, StoreInvariant, [Next]_vars
  PROVE  \/ DiskTip' = DiskTip
         \/ DiskTip = NoBlock /\ DiskTip' = Genesis
         \/ /\ DiskTip \in Blocks \cup {Genesis}
            /\ DiskTip' \in Blocks /\ Parent(DiskTip') = DiskTip
         \/ /\ DiskTip \in Blocks \cup {Genesis}
            /\ DiskTip' \in Blocks \cup {Genesis}
            /\ \E k \in 0..Height(DiskTip) : DiskTip' = Ancestor(DiskTip, k)
<1>1. CASE WriteCanonicalHash
  <2>1. IsNext(blk) \/ (Top # NoHeight /\ blk = DiskTip)
    BY <1>1 DEF WriteCanonicalHash, StoreInvariant, WriteInOrder
  <2>2. CASE Top # NoHeight /\ blk = DiskTip
    BY <1>1, <2>2, RepairStep
  <2>3. CASE IsNext(blk)
    <3>1. DiskTip' = blk
      BY <1>1, <2>3, ExtendStep
    <3>2. CASE blk = Genesis /\ Top = NoHeight
      BY <3>1, <3>2 DEF DiskTip
    <3>3. CASE blk \in Blocks /\ Top # NoHeight /\ Parent(blk) = DiskTip
      BY <3>1, <3>3, DiskTipFacts
    <3> QED BY <2>3, <3>2, <3>3 DEF IsNext
  <2> QED BY <2>1, <2>2, <2>3
<1>2. CASE TruncateTo
  <2>1. PICK k \in 0..Top : DiskTip' = canon[k] /\ Top # NoHeight
    BY <1>2, TruncateToStep
  <2>2. canon[k] = Ancestor(DiskTip, k) /\ k \in 0..Height(DiskTip)
        /\ DiskTip \in Blocks \cup {Genesis}
    BY <2>1, DiskTipFacts
  <2>3. canon[k] \in Blocks \cup {Genesis}
    BY CanonicalHeight
  <2> QED BY <2>1, <2>2, <2>3
<1>3. CASE ~WriteCanonicalHash /\ ~TruncateTo
  <2>1. ~RevertToHeight
    BY DEF RevertToHeight
  <2>2. UNCHANGED <<canon, last>>
    BY <1>3, <2>1 DEF Next, Step, vars, dbVars, Restart, SeedGenesis,
       PersistGenesisBlock, ExecuteBlock, FinishExecution, WriteBlock,
       WriteHeadBlockHash, FailWrite, MissHeadBlockHash, FinishReplay, Crash
  <2> QED BY <2>2 DEF DiskTip, Top
<1> QED BY <1>1, <1>2, <1>3

\* The store implements DurableTip: whatever writes fail and wherever crashes
\* fall, the tip that a restart finds moves by whole commits and truncations.
THEOREM StoreImplementsDurableTip ==
  ASSUME ReorgDepths = {}, CollisionFree
  PROVE  Spec => TipMovesInWholeBlocks
<1>1. Init => Durable!Init
  <2> SUFFICES ASSUME Init PROVE RecoverableTip = NoBlock
    BY DEF Durable!Init
  <2>1. NoBlock \notin blocks /\ last = NoHeight
    BY DEF Init
  <2>2. \A h \in Heights : ~ValidCanonicalAt(h)
    BY DEF Init, ValidCanonicalAt
  <2> QED BY <2>1, <2>2 DEF Init, RecoverableTip, NeedsRepair, CanonicalTip, HeadTip
<1>2. (StoreInvariant => RecoverableTip = DiskTip)'
  BY RecoveryFindsDiskTip, PTL
<1>3. StoreInvariant /\ StoreInvariant' /\ [Next]_vars => [Durable!Next]_RecoverableTip
  <2> SUFFICES ASSUME StoreInvariant, StoreInvariant', [Next]_vars
               PROVE  Durable!Next \/ RecoverableTip' = RecoverableTip
    OBVIOUS
  <2>1. RecoverableTip = DiskTip
    BY RecoveryFindsDiskTip
  <2>2. RecoverableTip' = DiskTip'
    BY <1>2
  <2>3. CASE DiskTip = NoBlock /\ DiskTip' = Genesis
    BY <2>1, <2>2, <2>3 DEF Durable!Next, Durable!Create
  <2>4. ASSUME DiskTip \in Blocks \cup {Genesis}, NEW k \in 0..Height(DiskTip)
        PROVE  Ancestor(DiskTip, k) \in Durable!Chain(DiskTip)
    <3>1. DiskTip # NoBlock
      BY <2>4, HeightFacts
    <3> QED BY <2>4, <3>1
            DEF Durable!Chain, Durable!Ancestor, Durable!Height, Ancestor, Height
  <2>5. CASE /\ DiskTip \in Blocks \cup {Genesis}
             /\ DiskTip' \in Blocks /\ Parent(DiskTip') = DiskTip
    <3>1. /\ Height(DiskTip) \in 0..Height(DiskTip)
          /\ Ancestor(DiskTip, Height(DiskTip)) = DiskTip
      BY <2>5, HeightFacts, StoreAssumption DEF Heights
    <3>2. DiskTip \in Durable!Chain(DiskTip)
      BY <2>4, <2>5, <3>1
    <3>3. Durable!Parent(DiskTip') = DiskTip
      BY <2>5 DEF Durable!Parent, Parent
    <3>4. Durable!Commit
      BY <2>1, <2>2, <2>5, <3>2, <3>3 DEF Durable!Commit
    <3> QED BY <3>4 DEF Durable!Next
  <2>6. CASE /\ DiskTip \in Blocks \cup {Genesis}
             /\ \E k \in 0..Height(DiskTip) : DiskTip' = Ancestor(DiskTip, k)
    <3>1. DiskTip' \in Durable!Chain(DiskTip)
      BY <2>4, <2>6
    <3>2. Durable!Truncate
      BY <2>1, <2>2, <3>1 DEF Durable!Truncate
    <3> QED BY <3>2 DEF Durable!Next
  <2> QED BY <2>1, <2>2, <2>3, <2>5, <2>6, DiskTipStep
<1>4. Spec => []StoreInvariant
  BY StoreStaysInOrder
<1> QED BY <1>1, <1>3, <1>4, PTL DEF Spec, TipMovesInWholeBlocks, Durable!Spec

\* A commit that has returned survives, with its head hash written or not: a
\* restart comes up on that very block, without the exceptions of CommitIsDurable.
THEOREM CommitsSurvive ==
  ASSUME ReorgDepths = {}, CollisionFree
  PROVE  Spec => [][pc = "head" /\ pc' = "run" => RecoverableTip' = latest']_vars
<1>1. (StoreInvariant => RecoverableTip = DiskTip)'
  BY RecoveryFindsDiskTip, PTL
<1>2. StoreInvariant /\ StoreInvariant' /\ [Next]_vars =>
        [pc = "head" /\ pc' = "run" => RecoverableTip' = latest']_vars
  <2> SUFFICES ASSUME StoreInvariant, StoreInvariant', [Next]_vars,
                      pc = "head", pc' = "run"
               PROVE  RecoverableTip' = latest'
    OBVIOUS
  <2>1. WriteHeadBlockHash \/ MissHeadBlockHash
    BY DEF Next, Step, vars, Restart, SeedGenesis, PersistGenesisBlock, ExecuteBlock,
       FinishExecution, WriteBlock, WriteCanonicalHash, FailWrite,
       RevertToHeight, FinishReplay, TruncateTo, Crash
  <2>2. latest' = DiskTip /\ DiskTip' = DiskTip
    BY <2>1 DEF WriteHeadBlockHash, MissHeadBlockHash, dbVars, StoreInvariant,
                WriteInOrder, DiskTip, Top
  <2> QED BY <1>1, <2>2
<1>3. Spec => []StoreInvariant
  BY StoreStaysInOrder
<1> QED BY <1>2, <1>3, PTL DEF Spec

=============================================================================
