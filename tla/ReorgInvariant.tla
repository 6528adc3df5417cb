--------------------------- MODULE ReorgInvariant ---------------------------
(***************************************************************************)
(* The inductive invariant behind CanonicalChainLinked, as conjunctions of *)
(* named parts.  It is inductive when the fast sync never truncates.       *)
(*                                                                         *)
(* revertToHeight does not take blockSubmitMu, so the tip can move down    *)
(* under a goroutine that is between its checks and its commit.  What then *)
(* keeps the chain linked is that a revert leaves the canonical pointers   *)
(* above the tip alone: the block still goes on the one it was checked     *)
(* against.                                                                *)
(***************************************************************************)
EXTENDS ReorgManager

\* What the locals of a goroutine hold where it uses them: the block being
\* added, the fork being resolved, and a position inside the branch walked.
Adding == {"submit", "exec", "stuck"} \cup Committing
Reorganizing == {"keep", "reorg", "disconnect", "connect", "undo", "rollback"}

LocalsOK(t) ==
  /\ pc[t] \in Adding \cup {"orphan", "adopt", "resolve"} => blk[t] \in Blocks
  /\ pc[t] \in Reorganizing => fork[t] \in Forks
  /\ pc[t] \in Adding /\ ret[t] \in {"reorg", "rollback"} => fork[t] \in Forks
  /\ pc[t] = "disconnect" => step[t] \in 0..Len(fork[t].active)
  /\ pc[t] \in {"connect", "rollback"} => step[t] \in Nat \ {0}
  /\ pc[t] = "undo" => step[t] \in 0..Len(fork[t].cand)
  /\ pc[t] \in Adding /\ ret[t] = "reorg" => step[t] \in 1..Len(fork[t].cand)
  /\ pc[t] \in Adding /\ ret[t] = "rollback" => step[t] \in Nat \ {0}

TypeInvariant == TypeOK /\ \A t \in Threads : LocalsOK(t)

\* The canonical pointers form one chain from genesis up to height n.
Linked(n) ==
  \A h \in 1..n : canon[h] # NoBlock /\ Parent(canon[h]) = canon[h - 1]

\* A canonical pointer, even one above the tip that a reorganization to a
\* shorter chain left behind, names a stored block of its own height: what
\* GetBlock and HasBlockAtHeight resolve through the database exists.  The one
\* exception: a truncation collected the block when it was canonical, and
\* deletes it after a reorganization has stored it again and before it has
\* written its canonical hash.
PointersSound ==
  /\ Genesis \in stored
  /\ canon[0] = Genesis
  /\ \A h \in 1..MaxHeight :
       canon[h] # NoBlock =>
         /\ canon[h] \in Blocks /\ Height(canon[h]) = h
         /\ canon[h] \in stored \/ canon[h] \in overtaken

\* The inductive form of PointersSound: TruncateTo has collected pointers at the
\* heights they had, and a block about to become canonical is stored.
PointersInvariant ==
  /\ PointersSound
  /\ \A h \in Heights :
       cut.doomed[h] # NoBlock => cut.doomed[h] \in Blocks /\ Height(cut.doomed[h]) = h
  /\ \A t \in Threads : pc[t] = "canonical" => blk[t] \in stored \cup overtaken

TipOnChain ==
  /\ Linked(CurrentHeight)
  /\ latest # NoBlock => canon[CurrentHeight] = latest

MutexHeld ==
  \A t \in Threads : pc[t] \in {"exec", "stuck"} \cup Committing => blockSubmitMu = t

\* A goroutine past the checks of addBlockInternal adds a child of the height
\* it read; the tip may have sunk below that height but not risen above it.
InOrder(t) ==
  /\ Height(blk[t]) = Height(seen[t]) + 1
  /\ CurrentHeight <= Height(seen[t])
  /\ Linked(Height(seen[t]))
  /\ seen[t] # NoBlock => canon[Height(seen[t])] = seen[t]
  /\ seen[t] = NoBlock => latest = NoBlock
  /\ pc[t] \in Committing /\ ~gap[t] => Parent(blk[t]) = canon[Height(seen[t])]
  /\ pc[t] = "head" => Linked(Height(blk[t])) /\ canon[Height(blk[t])] = blk[t]

AdditionInOrder ==
  \A t \in Threads : pc[t] \in {"exec"} \cup Committing => InOrder(t)

Ordered == TipOnChain /\ AdditionInOrder

\* Nothing is truncated.
Uncut == cut = NoCut /\ overtaken = {}

ChainInvariant ==
  /\ PointersInvariant
  /\ MutexHeld
  /\ Uncut
  /\ misplaced \/ Ordered

-----------------------------------------------------------------------------
(***************************************************************************)
(* The inductive invariant behind StateMatchesTip, NoSelfDeadlock,         *)
(* FailedReorgRestoresTip and ReorgGainsWorkInDepth.  It is inductive      *)
(* while one goroutine at a time is at work (OneAtATime), when blocks pay  *)
(* no fees, the fast sync never truncates, and there is one block of       *)
(* height 1 (OneTrunk): a reorganization that takes that block off ends on *)
(* a nil tip.                                                              *)
(***************************************************************************)

OneAtATime ==
  /\ pc[Detector] = "idle"
  /\ \A t, u \in Threads : pc[t] # "idle" /\ pc[u] # "idle" => t = u

OneTrunk == \A b, c \in Blocks : Height(b) = 1 /\ Height(c) = 1 => b = c

\* What is stored was valid, and is stored with all its ancestors.
StoreClosed ==
  /\ stored \cap (Malformed \cup BadRoot) = {}
  /\ \A b \in stored : \A h \in 0..Height(b) : Ancestor(b, h) \in stored

\* Up to the tip, the canonical chain is the ancestry of the tip.
TipSound ==
  /\ latest \in stored
  /\ \A h \in 0..CurrentHeight : canon[h] = Ancestor(latest, h)

\* While the tip is genesis nothing else is stored: no reorganization sinks it
\* there again.
FreshStore ==
  latest = Genesis /\ (\A t \in Threads : pc[t] \notin {"canonical", "head"})
    => stored = {Genesis}

\* No goroutine but the manager's own has the flag set for it.
FlagAttended ==
  /\ processingReorgBlock => \E t \in Threads : pc[t] \in Adding
  /\ \A t \in Threads : pc[t] \in Adding => ret[t] # "direct"

StateKept ==
  /\ StateMatchesTip
  /\ \A t \in Threads : pc[t] \in Committing => state = Root(blk[t])

\* Where the branches of fork f leave the chain of x.  A canonical pointer above
\* the tip may be taken for the fork point, and then it is x itself.
Low(f, x) == IF f.height <= Height(x) THEN f.height ELSE Height(x)

\* The active branch of f is that of x, and the candidate grows from it.
ForkFits(f, x) ==
  /\ x \in stored
  /\ f.height >= 1 /\ Len(f.cand) >= 1
  /\ f.active = Branch(x, f.height)
  /\ \A i \in 1..Len(f.cand) : Height(f.cand[i]) = f.height + i
  /\ \A i \in 2..Len(f.cand) : Parent(f.cand[i]) = f.cand[i - 1]
  /\ f.height <= Height(x) =>
       /\ Parent(f.cand[1]) = Ancestor(x, f.height)
       /\ TotalWork(f.cand[Len(f.cand)]) > TotalWork(x)

\* The tip is i blocks up the active branch, or up the candidate.
OnActive(f, x, i) ==
  /\ i >= 0 /\ Low(f, x) + i <= Height(x)
  /\ latest = Ancestor(x, Low(f, x) + i)

OnCandidate(f, x, i) ==
  \/ i = 0 /\ OnActive(f, x, 0)
  \/ i \in 1..Len(f.cand) /\ f.height <= Height(x) /\ latest = f.cand[i]

\* Where the tip is at each step of performReorg.
ReorgInOrder(t) ==
  LET f == fork[t]
      x == from[t]
  IN  /\ ForkFits(f, x)
      /\ Len(f.active) <= MaxReorgDepth
      /\ pc[t] = "disconnect" => OnActive(f, x, step[t])
      /\ pc[t] = "connect" => OnCandidate(f, x, step[t] - 1)
      /\ pc[t] = "undo" => OnCandidate(f, x, step[t])
      /\ pc[t] = "rollback" => OnActive(f, x, step[t] - 1)
      /\ pc[t] \in Adding /\ ret[t] = "reorg" =>
           /\ OnCandidate(f, x, step[t] - 1)
           /\ step[t] <= Len(f.cand) /\ blk[t] = f.cand[step[t]]
      /\ pc[t] \in Adding /\ ret[t] = "rollback" =>
           /\ OnActive(f, x, step[t] - 1)
           /\ step[t] <= Len(f.active) /\ blk[t] = f.active[step[t]]

\* The block being added is the tip's child; only a candidate whose fork point
\* is above the tip is not, and addBlockInternal refuses it.
ChildOfTip(t) ==
  /\ pc[t] = "submit" =>
       \/ Parent(blk[t]) = latest
       \/ ret[t] = "reorg" /\ Height(blk[t]) > CurrentHeight + 1
  /\ pc[t] \in {"exec"} \cup Committing =>
       Parent(blk[t]) = latest /\ seen[t] = latest
  /\ pc[t] \in Committing => blk[t] \notin Malformed \cup BadRoot
  /\ pc[t] \in {"canonical", "head"} => blk[t] \in stored
  /\ pc[t] = "head" => canon[Height(blk[t])] = blk[t]

SequentialPhase(t) ==
  /\ pc[t] = "reorg" => ForkFits(fork[t], latest)
  /\ \/ pc[t] \in {"disconnect", "connect", "undo", "rollback"}
     \/ pc[t] \in Adding /\ ret[t] \in {"reorg", "rollback"}
     => ReorgInOrder(t)
  /\ ChildOfTip(t)

SequentialInvariant ==
  /\ StoreClosed /\ TipSound /\ FreshStore
  /\ FlagAttended /\ StateKept /\ NoSelfDeadlock
  /\ \A t \in Threads : SequentialPhase(t)

=============================================================================
