------------------------------ MODULE Pruning ------------------------------
(***************************************************************************)
(* The prune manager of a node started with --prune: its passes over the   *)
(* canonical chain, which grows and is truncated by a sync meanwhile, the  *)
(* readers of old blocks, and crashes.  Every write is synced, so a crash  *)
(* loses the pass and the caches only.                                     *)
(*                                                                         *)
(* A block is its height and its branch, the height at which its chain     *)
(* left the first one.  The database holds the blocks that are stored, the *)
(* canonical chain, the marks of pruned heights and the pruned height.     *)
(***************************************************************************)
EXTENDS Integers, Sequences

CONSTANTS
  Depth,            \* pruneDepth
  BatchSize,
  MaxHeight,        \* bound on the height
  MaxTruncations    \* bound on the truncations

VARIABLES
  canon,       \* the canonical hashes of the heights from 1
  stored,
  marked,      \* the hash each marked height was marked with
  pruned,      \* the pruned height
  pass,        \* the pass under way
  cached,      \* blocks in blockByNumberCache
  up,
  truncations

chainVars == <<canon, stored, truncations>>
vars == <<chainVars, marked, pruned, pass, cached, up>>

\* The heights to prune, the one it is at, and the step of that one.
Pass(todo, next, step) == [todo |-> todo, next |-> next, step |-> step]

NoPass == Pass(<<>>, 0, 0)

NoHash == [height |-> 0, branch |-> 0]

Block(h, branch) == [height |-> h, branch |-> branch]

Branch(h) == IF h = 0 THEN 0 ELSE canon[h].branch

Heights == 1..Len(canon)

Init ==
  /\ canon = <<>> /\ stored = {} /\ truncations = 0
  /\ marked = <<>> /\ pruned = 0 /\ pass = NoPass
  /\ cached = {} /\ up = TRUE

CanonicalHash(h) == IF h \in Heights THEN canon[h] ELSE NoHash

-----------------------------------------------------------------------------
\* The chain and its readers

\* The next block of the chain, or the first of another branch.
AddBlock ==
  /\ up
  /\ Len(canon) < MaxHeight
  /\ \E branch \in {Branch(Len(canon))} \cup
                   (IF Branch(Len(canon)) = 0 /\ truncations > 0
                      THEN {Len(canon) + 1} ELSE {}) :
       LET b == Block(Len(canon) + 1, branch)
       IN  /\ canon' = Append(canon, b)
           /\ stored' = stored \cup {b}
           /\ cached' = cached \cup {b}
  /\ UNCHANGED <<marked, pruned, pass, up, truncations>>

\* TruncateTo: the marks and the pruned height stay.
TruncateTo(h) ==
  /\ up
  /\ h < Len(canon) /\ truncations < MaxTruncations
  /\ canon' = SubSeq(canon, 1, h)
  /\ stored' = stored \ {canon[i] : i \in (h + 1)..Len(canon)}
  /\ cached' = {}
  /\ truncations' = truncations + 1
  /\ UNCHANGED <<marked, pruned, pass, up>>

\* A cache of bounded size.
Evict ==
  /\ \E b \in cached : cached' = cached \ {b}
  /\ UNCHANGED <<chainVars, marked, pruned, pass, up>>

\* What GetBlock makes of a height: the reader gets its block, or the process
\* ends, since a block that is not found is dereferenced.
GetBlock(h) ==
  LET b == CanonicalHash(h)
  IN  /\ up /\ h \in Heights
      /\ \/ /\ b \in stored \/ b \in cached
            /\ cached' = {c \in cached : c.height # h} \cup {b}
            /\ UNCHANGED <<pass, up>>
         \/ /\ b \notin stored /\ b \notin cached
            /\ up' = FALSE /\ cached' = {} /\ pass' = NoPass
      /\ UNCHANGED <<chainVars, marked, pruned>>

-----------------------------------------------------------------------------
\* A pass

\* Mutant: one block too many.
TargetAt(height) == height - Depth + 1

PruneTarget(height) == height - Depth

Unmarked(heights) == heights \ DOMAIN marked

\* The one sequence of all the heights that rises.
InOrder(heights) ==
  {s \in UNION {[1..n -> heights] : n \in 0..MaxHeight} :
     /\ \A h \in heights : \E i \in DOMAIN s : s[i] = h
     /\ \A i, j \in DOMAIN s : i < j => s[i] < s[j]}

\* Thirty seconds after the start, every ten minutes, or from the console.
StartPass ==
  LET target == PruneTarget(Len(canon))
      unmarked == Unmarked((pruned + 1)..target)
  IN  /\ up /\ pass = NoPass
      /\ Len(canon) > Depth /\ target > pruned
      /\ unmarked # {}
      /\ \E todo \in InOrder(unmarked) : pass' = Pass(todo, 1, 1)
      /\ UNCHANGED <<chainVars, marked, pruned, cached, up>>

Height == pass.todo[pass.next]

EndOfBatch == pass.next % BatchSize = 0 \/ pass.next = Len(pass.todo)

\* Mutant: the block goes first.
DeleteFirst == <<"delete", "mark", "set">>

\* What happens to one height, and at the end of a batch.
Steps == <<"mark", "delete", "set">>

\* The next step of this height, the next height, or the end of the pass.
Advanced ==
  IF pass.step < 2 \/ (pass.step = 2 /\ EndOfBatch)
    THEN Pass(pass.todo, pass.next, pass.step + 1)
  ELSE IF pass.next < Len(pass.todo) THEN Pass(pass.todo, pass.next + 1, 1)
  ELSE NoPass

InPass(step) == up /\ pass # NoPass /\ Steps[pass.step] = step

\* A height above a chain that was truncated is marked too, with no hash.
MarkBlockPruned ==
  /\ InPass("mark")
  /\ marked' = [h \in DOMAIN marked \cup {Height} |->
                 IF h = Height THEN CanonicalHash(h) ELSE marked[h]]
  /\ pass' = Advanced
  /\ UNCHANGED <<chainVars, pruned, cached, up>>

\* The rest of a batch whose mark cannot be written is passed over.
MarkFails ==
  /\ InPass("mark")
  /\ LET later == {i \in 1..Len(pass.todo) : i > pass.next /\ (i - 1) % BatchSize = 0}
     IN  IF later = {} THEN pass' = NoPass
         ELSE \E i \in later : (\A j \in later : i <= j) /\ pass' = Pass(pass.todo, i, 1)
  /\ UNCHANGED <<chainVars, marked, pruned, cached, up>>

\* DeleteBlockData reads the canonical hash again.
DeleteBlockData ==
  /\ InPass("delete")
  /\ stored' = stored \ {CanonicalHash(Height)}
  /\ pass' = Advanced
  /\ UNCHANGED <<canon, truncations, marked, pruned, cached, up>>

SetPrunedHeight ==
  /\ InPass("set")
  /\ pruned' = Height
  /\ pass' = Advanced
  /\ UNCHANGED <<chainVars, marked, cached, up>>

-----------------------------------------------------------------------------

Crash ==
  /\ up
  /\ up' = FALSE /\ cached' = {} /\ pass' = NoPass
  /\ UNCHANGED <<chainVars, marked, pruned>>

Restart ==
  /\ ~up
  /\ up' = TRUE
  /\ UNCHANGED <<chainVars, marked, pruned, pass, cached>>

Next ==
  \/ AddBlock
  \/ \E h \in 1..MaxHeight : TruncateTo(h) \/ GetBlock(h)
  \/ Evict
  \/ StartPass \/ MarkBlockPruned \/ MarkFails \/ DeleteBlockData \/ SetPrunedHeight
  \/ Crash \/ Restart

Spec == Init /\ [][Next]_vars

-----------------------------------------------------------------------------
\* Properties

\* A block of the chain is missing only at a height that is marked, at any
\* moment of a pass and after any crash: a reader that asks for the mark first
\* never meets the missing block.  (None does.)
MissingIsMarked == \A h \in Heights : canon[h] \notin stored => h \in DOMAIN marked

\* Without a sync that truncates the chain during a pass, which then deletes
\* what was rebuilt at the heights it had chosen, the last Depth blocks are
\* kept.
LastBlocksKept ==
  truncations = 0 =>
    \A h \in Heights : canon[h] \notin stored => h + Depth <= Len(canon)

-----------------------------------------------------------------------------
\* The invariant behind the properties

Blocks == [height : Nat, branch : Nat]

\* A pass that runs is at one of its heights.
PassOK ==
  \/ pass = NoPass
  \/ /\ pass = Pass(pass.todo, pass.next, pass.step)
     /\ pass.todo \in Seq(Nat \ {0})
     /\ pass.next \in 1..Len(pass.todo) /\ pass.step \in 1..Len(Steps)

TypeOK ==
  /\ canon \in Seq(Blocks) /\ \A h \in Heights : canon[h].height = h
  /\ pruned \in Nat /\ truncations \in Nat
  /\ PassOK

\* What is deleted, and counted as pruned, was marked before.
MarkedFirst == pass.step >= 2 => Height \in DOMAIN marked

\* A pass takes heights that were old when it began, and so are old as long as
\* nobody truncates the chain.
OldHeights ==
  truncations = 0 =>
    \A i \in 1..Len(pass.todo) : pass.todo[i] + Depth <= Len(canon)

=============================================================================
