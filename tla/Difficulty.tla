----------------------------- MODULE Difficulty -----------------------------
(***************************************************************************)
(* Header times and difficulty: what time and difficulty a miner writes    *)
(* into a header, and which headers the nodes of a network accept, each by *)
(* a clock of its own.                                                     *)
(*                                                                         *)
(* The network extends one chain, of which every node has a prefix; a      *)
(* miner that lags behind mines a competing block, which is ReorgManager's *)
(* subject and not kept here.  A difficulty is the base without the        *)
(* miner's suffix, below which two difficulties differ only in the miner.  *)
(* The search for a nonce takes any time up to the end of the round.       *)
(***************************************************************************)
EXTENDS Integers, FiniteSets, Sequences, FiniteSetsExt, SequencesExt

CONSTANTS
  Nodes,
  Skews,              \* the clocks, Skew[n] ahead of the time
  Target,             \* BlockTimeTarget
  Drift,              \* pow.MaxFutureBlockTime
  MaxGap,             \* difficulty.MaxFutureBlockTime
  Factor,             \* MaxAdjustmentFactor; MinAdjustmentFactor is its inverse
  DGWWindow,
  AdjustmentWindow,
  GenesisDifficulty,
  MaxTime             \* bound on the time

NoBlock == [height |-> 0]

VARIABLES
  skew,      \* the clocks of this behaviour
  short,     \* whether floating point falls short of products that are whole
  now,       \* the time since genesis
  chain,     \* the headers of the network's chain, genesis first
  have,      \* how many of them each node has
  template   \* the header each miner searches a nonce for

vars == <<skew, short, now, chain, have, template>>

Init ==
  /\ skew \in Skews /\ short \in BOOLEAN
  /\ now = 1
  /\ chain = <<[time |-> 0, base |-> GenesisDifficulty]>>
  /\ have = [n \in Nodes |-> 1]
  /\ template = [n \in Nodes |-> NoBlock]

Clock(n) == now + skew[n]

Chain(n) == SubSeq(chain, 1, have[n])

-----------------------------------------------------------------------------
\* Difficulty

\* collectDifficultyTimestamps
Timestamps(c, time) ==
  LET first == Max({1, Len(c) - AdjustmentWindow + 1})
  IN  [i \in 1..(Len(c) - first + 1) |-> c[first + i - 1].time] \o <<time>>

\* ElapsedBlockTime, within the bounds of the averages
Gap(before, after) == Min({MaxGap, Max({1, after - before})})

\* The last DGWWindow times are averaged, and below that height all of them:
\* the weighted average needs more times than there are then.
Averaged(c, times) ==
  IF Len(c) >= DGWWindow
    THEN SubSeq(times, Len(times) - DGWWindow + 1, Len(times)) ELSE times

Total(times) ==
  SumFunction([i \in 1..(Len(times) - 1) |-> Gap(times[i], times[i + 1])])

\* The product with Target * n / total in floating point: a whole product may
\* come out just below.
Scaled(current, total, n) ==
  LET product == current * Target * n
  IN  CASE Target * n >= Factor * total -> Factor * current
        [] Factor * Target * n <= total -> current \div Factor
        [] OTHER -> IF product % total = 0 /\ total # Target * n /\ short
                      THEN product \div total - 1 ELSE product \div total

\* ensureDifficultyChanges: at 1 it may stay.
Changed(current, adjusted, total, n) ==
  IF adjusted # current \/ current = 1 THEN adjusted
  ELSE IF total <= Target * n THEN current + 1 ELSE current - 1

\* CalculateDifficulty of a block at this time on top of c.
Expected(c, time) ==
  LET times == Averaged(c, Timestamps(c, time))
      n == Len(times) - 1
      total == Total(times)
      current == Last(c).base
  IN  Changed(current, Max({1, Scaled(current, total, n)}), total, n)

-----------------------------------------------------------------------------
\* Validation

\* Mutant: without the target time as the least distance.
LaterThan(parent, b) == b.time > parent.time

LongEnoughAfter(parent, b) == b.time >= parent.time + Target

\* validateBasicBlockIntegrity and validateDifficulty, by the clock of n.
Accepts(n, c, b) ==
  /\ LongEnoughAfter(Last(c), b)
  /\ b.time <= Clock(n) + Drift
  /\ b.base = Expected(c, b.time)

-----------------------------------------------------------------------------
\* Actions

Tick ==
  /\ now < MaxTime
  /\ now' = now + 1
  /\ UNCHANGED <<skew, short, chain, have, template>>

\* Mutant: the least time that will be accepted.
FirstTime(m, parent) == Max({parent.time + Target, Clock(m)})

\* updateTime
HeaderTime(m, parent) == Max({parent.time + 1, Clock(m)})

\* A round of the mining loop begins.
CreateNewBlock(m) ==
  /\ template[m] = NoBlock
  /\ LET c == Chain(m)
         time == HeaderTime(m, Last(c))
     IN  template' = [template EXCEPT ![m] =
                        [height |-> Len(c), time |-> time, base |-> Expected(c, time)]]
  /\ UNCHANGED <<skew, short, now, chain, have>>

\* A nonce is found, or none in time.  The block is added to the miner's own
\* chain, or refused, as when the round began too soon after its parent.
EndRound(m) ==
  LET b == template[m]
  IN  /\ b # NoBlock
      /\ template' = [template EXCEPT ![m] = NoBlock]
      /\ \/ UNCHANGED <<chain, have>>
         \/ /\ b.height = have[m] /\ have[m] = Len(chain)
            /\ Accepts(m, Chain(m), b)
            /\ chain' = Append(chain, [time |-> b.time, base |-> b.base])
            /\ have' = [have EXCEPT ![m] = @ + 1]
      /\ UNCHANGED <<skew, short, now>>

\* An announced block, or one of a sync.
Receive(n) ==
  /\ have[n] < Len(chain)
  /\ Accepts(n, Chain(n), chain[have[n] + 1])
  /\ have' = [have EXCEPT ![n] = @ + 1]
  /\ UNCHANGED <<skew, short, now, chain, template>>

Next ==
  \/ Tick
  \/ \E n \in Nodes : CreateNewBlock(n) \/ EndRound(n) \/ Receive(n)

Spec == Init /\ [][Next]_vars

-----------------------------------------------------------------------------
\* Properties

\* The least distance of two blocks is the target distance, so that no average
\* is below the target: however much work the miners do, difficulty rises by
\* one at most, and only when all the averaged blocks came at their first
\* moment; otherwise it falls, and from 1 it never rises again.
DifficultyRatchet ==
  \A h \in 2..Len(chain) :
    LET parents == SubSeq(chain, 1, h - 1)
        times == Averaged(parents, Timestamps(parents, chain[h].time))
        before == chain[h - 1].base
    IN  /\ chain[h].base <= before + 1
        /\ chain[h].base > before =>
             \A i \in 1..(Len(times) - 1) : times[i + 1] - times[i] = Target
        /\ before = 1 => chain[h].base = 1

\* With clocks that differ by less than the drift that is allowed for, a block
\* that its miner could add is accepted by every node that has its parent, as
\* soon as it arrives: the same difficulty comes out everywhere, and no header
\* is ahead of the clock that made it.
AcceptedEverywhere ==
  \A n \in Nodes :
    have[n] < Len(chain) => Accepts(n, Chain(n), chain[have[n] + 1])

-----------------------------------------------------------------------------
\* Invariant

TypeOK ==
  /\ skew \in Skews /\ short \in BOOLEAN /\ now \in Nat
  /\ chain \in Seq([time : Int, base : Nat \ {0}]) /\ Len(chain) >= 1
  /\ have \in [Nodes -> 1..Len(chain)]
  /\ template = [n \in Nodes |-> template[n]]

\* Every block was accepted on top of its parent, and is behind every clock as
\* far as is allowed.
ChainAccepted ==
  \A h \in 2..Len(chain) :
    /\ LongEnoughAfter(chain[h - 1], chain[h])
    /\ chain[h].base = Expected(SubSeq(chain, 1, h - 1), chain[h].time)
    /\ \A n \in Nodes : chain[h].time <= Clock(n) + Drift

\* A template's time was its miner's, or is too soon after its parent's.
TemplatesInTime ==
  \A m \in Nodes :
    LET b == template[m]
    IN  b # NoBlock => /\ b.height \in 1..have[m]
                       /\ b.time \in Int
                       /\ b.time <= Clock(m) \/ b.time = chain[b.height].time + 1

HeadersInvariant == TypeOK /\ ChainAccepted /\ TemplatesInTime

=============================================================================
