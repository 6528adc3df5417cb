--------------------------- MODULE StoreInvariant ---------------------------
(***************************************************************************)
(* The inductive invariant of ChainStore without reorganizations           *)
(* (ReorgDepths is empty): the canonical hashes are the chain of one       *)
(* block, the head hash lies on it or names a block that a truncation      *)
(* deleted, and what is being written is the next block.                   *)
(***************************************************************************)
EXTENDS ChainStore

\* The highest canonical height: the last one, unless a truncation to 0
\* deleted that key.
Top == IF last = NoHeight /\ canon[0] # NoBlock THEN 0 ELSE last

DiskTip == IF Top = NoHeight THEN NoBlock ELSE canon[Top]

\* The canonical hashes go up to Top, and name the ancestors of one block.
CanonicalToTop ==
  /\ \A h \in Heights : h > Top => canon[h] = NoBlock
  /\ Top # NoHeight => /\ canon[Top] \in Blocks \cup {Genesis}
                       /\ Height(canon[Top]) = Top
                       /\ IsCanonicalChain(canon[Top])
  /\ blocks \subseteq headers

\* A head hash whose block is stored lags behind on the chain, never off it.
HeadOnChain ==
  /\ head \in blocks => \E h \in 0..Top : head = canon[h]
  /\ Top = NoHeight => head = NoBlock

\* A block that goes on top of the disk's tip.
IsNext(b) ==
  \/ b = Genesis /\ Top = NoHeight
  \/ b \in Blocks /\ Top # NoHeight /\ Parent(b) = DiskTip /\ state = Root(b)

\* The block in memory is the one that the next write puts on the chain.
WriteInOrder ==
  /\ pc # "head" /\ latest # NoBlock => Top # NoHeight /\ latest = DiskTip
  /\ pc \in {"genesis", "persist"} => Top = NoHeight
  /\ pc = "persist" => state \in {GenesisRoot, Diverged}
  /\ pc = "execute" =>
       blk \in Blocks /\ Top # NoHeight /\ Parent(blk) = DiskTip /\ state = Diverged
  /\ pc = "block" => IsNext(blk)
  /\ pc = "canonical" =>
       /\ blk \in blocks
       /\ IsNext(blk) \/ (Top # NoHeight /\ blk = DiskTip)
  /\ pc = "head" => Top # NoHeight /\ blk = DiskTip
  /\ pc # "replay"

\* The account state is never that of a block below the tip: TruncateTo
\* leaves it ahead, and then nothing executes until the end of the process.
\* So a truncated head block is not stored again under its old head hash.
StateAhead ==
  /\ \A h \in 0..(Top - 1) : state # Root(canon[h])
  /\ head \notin blocks \cup {NoBlock} =>
       /\ \A h \in 0..Top : state # Root(canon[h])
       /\ pc \notin {"execute", "block"}
       /\ pc = "canonical" => blk = DiskTip

\* Whatever a crash or a failed write interrupts, the disk holds one chain,
\* and the write in progress is the next one on it.
StoreInvariant ==
  /\ TypeOK
  /\ CanonicalToTop
  /\ HeadOnChain
  /\ WriteInOrder
  /\ StateAhead

=============================================================================
