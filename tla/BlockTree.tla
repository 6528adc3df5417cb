----------------------------- MODULE BlockTree -----------------------------
(***************************************************************************)
(* The blocks a node can meet, and the pure functions of the chain package *)
(* over them.  A block header commits to its parent by hash and so to its  *)
(* whole ancestry: a block is a model value, and Path[b] is the sequence   *)
(* of blocks from height 1 up to and including b.                          *)
(*                                                                         *)
(* Account state is abstracted to its root.  RootOf[b] is the root that    *)
(* the header of b commits to: the state its miner reached by executing b  *)
(* on the state of b's parent.                                             *)
(***************************************************************************)
EXTENDS Integers, Sequences, FiniteSets, Functions

CONSTANTS
  Blocks,        \* every block above genesis that can reach this node
  Genesis,       \* the genesis block
  NoBlock,       \* a nil block, or the zero hash
  Path,          \* [Blocks -> Seq(Blocks)], the ancestry of each block
  Difficulty,    \* [Blocks -> Nat], header.Difficulty
  Rank,          \* [Blocks -> Nat], proof quality, then time, then hash
  RootOf,        \* header.Root of each block
  GenesisRoot,   \* the root of the genesis state
  Diverged,      \* any state whose root no header commits to
  Malformed,     \* blocks that fail a stateless header or signature check
  BadRoot,       \* well-formed blocks whose header root is wrong
  FeePaying      \* blocks whose transactions pay fees

ASSUME BlocksAssumption ==
  /\ Genesis \notin Blocks
  /\ NoBlock \notin Blocks \cup {Genesis}
  /\ IsFiniteSet(Blocks)

\* A block's path ends in the block, and a prefix of it is an ancestor's path.
ASSUME PathAssumption ==
  /\ Path \in [Blocks -> Seq(Blocks)]
  /\ \A b \in Blocks :
       /\ Len(Path[b]) > 0
       /\ Path[b][Len(Path[b])] = b
       /\ \A i \in 1..Len(Path[b]) :
            Path[Path[b][i]] = SubSeq(Path[b], 1, i)

ASSUME HeaderAssumption ==
  /\ Difficulty \in [Blocks -> Nat]
  /\ Rank \in [Blocks -> Nat]
  /\ DOMAIN RootOf = Blocks
  /\ Diverged # GenesisRoot
  /\ \A b \in Blocks : RootOf[b] # Diverged
  /\ Malformed \subseteq Blocks
  /\ BadRoot \subseteq Blocks
  /\ FeePaying \subseteq Blocks

-----------------------------------------------------------------------------

\* header.Number; a nil tip counts as height 0, as in addBlockInternal.
Height(b) == IF b \in Blocks THEN Len(Path[b]) ELSE 0

\* header.ParentHash of a block above genesis.
Parent(b) == IF Len(Path[b]) = 1 THEN Genesis ELSE Path[b][Len(Path[b]) - 1]

\* header.Root; the root of the genesis block is the genesis allocation.
Root(b) == IF b \in Blocks THEN RootOf[b] ELSE GenesisRoot

\* The ancestor of b (or b itself) at height h.
Ancestor(b, h) == IF h = 0 THEN Genesis ELSE Path[b][h]

\* The blocks above height h on the way to b, oldest first.
Branch(b, h) ==
  IF b \in Blocks THEN SubSeq(Path[b], h + 1, Len(Path[b])) ELSE <<>>

\* A block counts at least one unit of work.
CalculateBlockWork(b) == IF Difficulty[b] = 0 THEN 1 ELSE Difficulty[b]

\* Cumulative work of a chain segment.
CalculateChainWork(chain) ==
  SumFunction([i \in DOMAIN chain |-> CalculateBlockWork(chain[i])])

\* Cumulative work of the whole chain that ends in b.
TotalWork(b) == CalculateChainWork(Branch(b, 0))

\* Deterministic fork choice between two blocks of the same height: higher
\* difficulty first, then the tie-breakers that Rank orders (lower wins).
IsBetterBlockCandidate(new, current) ==
  \/ Difficulty[new] > Difficulty[current]
  \/ /\ Difficulty[new] = Difficulty[current]
     /\ Rank[new] < Rank[current]

\* No two distinct blocks lead to the same account state.
CollisionFree ==
  /\ \A b \in Blocks : RootOf[b] # GenesisRoot
  /\ \A b, c \in Blocks : RootOf[b] = RootOf[c] => b = c

=============================================================================
