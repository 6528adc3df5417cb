------------------------------ MODULE Execution ------------------------------
(***************************************************************************)
(* The account state of one node: how the transactions of a block are      *)
(* chosen, tried on a copy of the state, executed and paid for, and how    *)
(* the state is computed anew when the chain is reverted.                  *)
(*                                                                         *)
(* A block carries the state that its miner computed as its root.  That    *)
(* computation runs the virtual machine alone, which checks neither nonces *)
(* nor fees; the execution of an accepted block checks both, on the state  *)
(* itself, transaction by transaction.  Fees are paid to the receivers of  *)
(* the reward and charged to nobody.  Signatures, gas and contract code    *)
(* are left out: every transaction uses the gas of a transfer.             *)
(***************************************************************************)
EXTENDS Integers, FiniteSets, Sequences, FiniteSetsExt, SequencesExt

CONSTANTS
  Accounts,          \* addresses
  MainKing,          \* the address that genesis endows, and the main king
  Zero,              \* the address of all zeroes, from which data transactions pay
  Script,            \* the address that the built-in instructions pay
  ScriptValue,       \* and what they pay it
  Txs,               \* transactions
  Tx,                \* their contents
  Plans,             \* what happens in a behaviour
  Kings,             \* the rotating kings, in their order
  Premine,           \* GenesisMainKingBalance
  InitialReward,     \* initialBlockReward
  BlocksPerHalving,  \* blocksPerHalving
  Coin,              \* one ANTD, below which a reward is none
  Threshold,         \* eligibilityThreshold
  Confirmations,     \* minConfirmations
  Interval,          \* blocks between two rotations of the king
  MaxHeight          \* bound on the height

ASSUME NumbersAssumption ==
  /\ {Premine, InitialReward, Threshold, ScriptValue} \subseteq Nat
  /\ {BlocksPerHalving, Coin, Confirmations, Interval} \subseteq Nat \ {0}

ASSUME TxAssumption ==
  /\ IsFiniteSet(Accounts)
  /\ {MainKing, Zero, Script} \subseteq Accounts
  /\ Kings \in Seq(Accounts) /\ Kings # <<>>
  /\ Tx \in [Txs -> [from : Accounts, to : Accounts, value : Nat \ {0},
                     nonce : Nat, fee : Nat \ {0}, data : BOOLEAN]]

VARIABLES
  plan,      \* the transactions and miners of the behaviour
  balance,   \* State: the balances of the accounts,
  nonce,     \* and their nonces
  open,      \* bc.state is not nil
  chain,     \* the canonical blocks above genesis
  offered,   \* the block that was mined, or taken off the chain, last
  pool,      \* the pool's transactions
  king,      \* the rotating king manager's current index
  replayed   \* height up to which the state was computed by a replay

vars == <<plan, balance, nonce, open, chain, offered, pool, king, replayed>>

account == <<balance, nonce>>

-----------------------------------------------------------------------------
\* Rewards

\* What a halving leaves of a reward
Halved(r) == IF r \div 2 < Coin THEN 0 ELSE r \div 2

\* maxHalvings is past the halving that leaves none.
RewardAfter(halvings) ==
  LET reward[k \in 0..halvings] ==
        IF k = 0 THEN InitialReward ELSE Halved(reward[k - 1])
  IN  reward[halvings]

\* CalculateBlockReward
Reward(h) == RewardAfter(h \div BlocksPerHalving)

\* The blocks below height n in the period after k halvings
BlocksOf(k, n) ==
  LET first == k * BlocksPerHalving
  IN  IF first >= n THEN 0
      ELSE IF first + BlocksPerHalving <= n THEN BlocksPerHalving
      ELSE n - first

\* CalculateCirculatingSupply, the sum over the periods below height n
CirculatingSupply(n) ==
  Premine + SumFunction([k \in 0..n |-> BlocksOf(k, n) * RewardAfter(k)])

\* A state of the accounts, or what is left of it by a failure
State(ok, b, n) == [ok |-> ok, balance |-> b, nonce |-> n]

Failed(st) == State(FALSE, st.balance, st.nonce)

Live == State(TRUE, balance, nonce)

Credit(st, a, amount) ==
  State(st.ok, [st.balance EXCEPT ![a] = @ + amount], st.nonce)

\* Mutant: what the divisions leave over is paid to nobody.
DistributeRounded(st, miner, total, k) ==
  LET main == (total * 20) \div 200
      rotating == (total * 130) \div 200
      paid == Credit(Credit(st, miner, (total * 50) \div 200), MainKing, main)
  IN  Credit(paid, IF st.balance[k] >= Threshold THEN k ELSE MainKing, rotating)

\* 50 parts of 200 for the miner, 20 for the main king and 130, with what the
\* divisions leave over, for the rotating king k, or the main king when k has
\* too little.
DistributeRewards(st, miner, total, k) ==
  LET mined == (total * 50) \div 200
      main == (total * 20) \div 200
      paid == Credit(Credit(st, miner, mined), MainKing, main)
  IN  Credit(paid, IF st.balance[k] >= Threshold THEN k ELSE MainKing,
             total - mined - main)

-----------------------------------------------------------------------------
\* Transactions

\* Value that reached a less than Confirmations blocks ago: up to the block at
\* height h, and in pending, transactions of the block under execution.
Incoming(a, txs) ==
  MapThenSumSet(LAMBDA i : Tx[txs[i]].value,
                {i \in DOMAIN txs : Tx[txs[i]].to = a /\ Tx[txs[i]].from # a})

Immature(a, h, pending) ==
  LET first == IF h > Confirmations - 1 THEN h - Confirmations + 2 ELSE 1
  IN  Incoming(a, pending)
        + MapThenSumSet(LAMBDA i : Incoming(a, chain[i].txs), first..h)

Spendable(st, a, h, pending) ==
  Max({0, st.balance[a] - Immature(a, h, pending)})

\* VM.Execute: a transfer needs its value only, and sets the nonce whatever it
\* was; data is not parsed, and the built-in instructions run in its place.
Executes(st, t) ==
  IF Tx[t].data THEN st.balance[Zero] >= ScriptValue
  ELSE st.balance[Tx[t].from] >= Tx[t].value

Move(st, a, b, amount) == Credit(Credit(st, a, -amount), b, amount)

SetNonce(st, a, n) == State(st.ok, st.balance, [st.nonce EXCEPT ![a] = n])

Execute(st, t) ==
  IF Tx[t].data THEN Move(st, Zero, Script, ScriptValue)
  ELSE SetNonce(Move(st, Tx[t].from, Tx[t].to, Tx[t].value),
                Tx[t].from, Tx[t].nonce + 1)

Try(st, t) == IF st.ok /\ Executes(st, t) THEN Execute(st, t) ELSE Failed(st)

\* Transactions are executed until one fails.
Tried(st, txs) ==
  LET after[i \in 0..Len(txs)] ==
        IF i = 0 THEN st ELSE Try(after[i - 1], txs[i])
  IN  after[Len(txs)]

\* Mutant: the nonce of a transaction is not checked.
ValidInAnyOrder(st, t, h, pending) ==
  Spendable(st, Tx[t].from, h, pending) >= Tx[t].value + Tx[t].fee

\* validateTransactionForExecutionAtHeight
Valid(st, t, h, pending) ==
  /\ Tx[t].nonce = st.nonce[Tx[t].from]
  /\ Spendable(st, Tx[t].from, h, pending) >= Tx[t].value + Tx[t].fee

Fees(txs) == SumFunction([i \in DOMAIN txs |-> Tx[txs[i]].fee])

\* computeBlockFinalStateRoot, on a copy of the state
Simulated(txs, miner, h, k) ==
  DistributeRewards(Tried(Live, txs), miner, Reward(h) + Fees(txs), k)

\* executeBlockTransactions, on the state itself
Executed(txs) ==
  LET after[i \in 0..Len(txs)] ==
        IF i = 0 THEN Live
        ELSE IF /\ after[i - 1].ok
                /\ Valid(after[i - 1], txs[i], Len(chain), SubSeq(txs, 1, i - 1))
          THEN Try(after[i - 1], txs[i])
        ELSE Failed(after[i - 1])
  IN  after[Len(txs)]

-----------------------------------------------------------------------------
\* Initial state

Genesis == [genesis |-> TRUE]

Endowed == [a \in Accounts |-> IF a = MainKing THEN Premine ELSE 0]

NoNonces == [a \in Accounts |-> 0]

Init ==
  /\ plan \in Plans
  /\ balance = Endowed /\ nonce = NoNonces /\ open = TRUE
  /\ chain = <<>> /\ offered = Genesis /\ pool = {} /\ king = 1 /\ replayed = 0

Tip == IF chain = <<>> THEN Genesis ELSE Last(chain)

-----------------------------------------------------------------------------
\* Actions

Pending(a) == {Tx[t].nonce : t \in {u \in pool : Tx[u].from = a}}

\* The pool wants the nonce after those of the sender's transactions and looks
\* at each transaction's cost by itself.
ExpectedNonce(a) ==
  IF \E n \in Pending(a) : n >= nonce[a] THEN Max(Pending(a)) + 1 ELSE nonce[a]

Submit(t) ==
  /\ open /\ t \in plan.txs \ pool
  /\ Tx[t].nonce = ExpectedNonce(Tx[t].from)
  /\ Spendable(Live, Tx[t].from, Len(chain), <<>>) >= Tx[t].value + Tx[t].fee
  /\ pool' = pool \cup {t}
  /\ UNCHANGED <<plan, account, open, chain, offered, king, replayed>>

\* The assembler takes what is in the pool by falling fees, in no other order.
Templates ==
  {txs \in SetToSeqs(pool) :
     \A i, j \in DOMAIN txs : i < j => Tx[txs[i]].fee >= Tx[txs[j]].fee}

\* A template that the virtual machine refuses is given up.
Mine(m) ==
  /\ open /\ m \in plan.miners /\ Len(chain) < MaxHeight
  /\ \E txs \in Templates :
       LET k == Kings[king]
           final == Simulated(txs, m, Len(chain) + 1, k)
       IN  /\ final.ok
           /\ offered' = [parent |-> Tip, txs |-> txs, miner |-> m, king |-> k,
                          root |-> Failed(final)]
  /\ UNCHANGED <<plan, account, open, chain, pool, king, replayed>>

NextKing(k) == IF k = Len(Kings) THEN 1 ELSE k + 1

\* The manager is set to the king of the block, and rotates when it is time.
KingAfter(k) ==
  LET aligned == CHOOSE i \in DOMAIN Kings : Kings[i] = k
  IN  IF (Len(chain) + 1) % Interval = 0 THEN NextKing(aligned) ELSE aligned

\* The precheck computes the root on a copy.
PrecheckPasses(b) ==
  LET final == Simulated(b.txs, b.miner, Len(chain) + 1, b.king)
  IN  final.ok /\ b.root = Failed(final)

SetAccounts(st) == balance' = st.balance /\ nonce' = st.nonce

\* validateAndExecuteBlock for a block on the tip.  What the transactions before
\* a failed one have done stays.
Import(b) ==
  /\ open /\ b # Genesis /\ b.parent = Tip
  /\ PrecheckPasses(b)
  /\ LET st == Executed(b.txs)
     IN  \/ /\ ~st.ok
            /\ SetAccounts(st)
            /\ UNCHANGED <<chain, pool, king>>
         \/ /\ st.ok
            /\ SetAccounts(DistributeRewards(st, b.miner,
                             Reward(Len(chain) + 1) + Fees(b.txs), b.king))
            /\ chain' = Append(chain, b)
            /\ pool' = pool \ ToSet(b.txs)
            /\ king' = KingAfter(b.king)
  /\ UNCHANGED <<plan, open, offered, replayed>>

\* executeBlockOnState: no fees, and the king of now
Replay(st, h) ==
  LET after == Tried(st, chain[h].txs)
  IN  IF after.ok
      THEN DistributeRewards(after, chain[h].miner, Reward(h), Kings[king])
      ELSE after

\* The state of the first h blocks, or of those before one that fails
Replayed(h) ==
  LET after[i \in 0..h] ==
        IF i = 0 THEN State(TRUE, Endowed, NoNonces)
        ELSE IF after[i - 1].ok THEN Replay(after[i - 1], i)
        ELSE after[i - 1]
  IN  after[h]

\* revertToHeight: the state is cleared and the blocks up to h are executed on
\* it again.  When one fails, the state stays closed.  A reorganization then
\* offers the old chain again.
RevertToHeight(h) ==
  /\ open /\ h < Len(chain)
  /\ LET st == Replayed(h)
     IN  \/ /\ st.ok
            /\ SetAccounts(st)
            /\ chain' = SubSeq(chain, 1, h) /\ replayed' = h
            /\ offered' = chain[h + 1]
            /\ UNCHANGED open
         \/ /\ ~st.ok
            /\ open' = FALSE
            /\ UNCHANGED <<account, chain, offered, replayed>>
  /\ UNCHANGED <<plan, pool, king>>

-----------------------------------------------------------------------------
\* Specification

Next ==
  \/ \E t \in Txs : Submit(t)
  \/ \E m \in Accounts : Mine(m)
  \/ Import(offered)
  \/ \E h \in 0..MaxHeight : RevertToHeight(h)

Spec == Init /\ [][Next]_vars

-----------------------------------------------------------------------------
\* Properties

\* Coins come from genesis, rewards and fees only.  Whatever transfers, failed
\* blocks and replays did before, the balances add up to what the blocks paid
\* out, a replay having lost the fees of the blocks below; and the supply that
\* the node reports is ahead of that by one height, at every halving too.
CoinsAccountedFor ==
  LET rewards == SumFunction([i \in 1..Len(chain) |-> Reward(i)])
      fees == SumFunction([i \in (replayed + 1)..Len(chain) |-> Fees(chain[i].txs)])
  IN  /\ SumFunction(balance) = Premine + rewards + fees
      /\ CirculatingSupply(Len(chain)) - (Premine + rewards)
           = Reward(0) - Reward(Len(chain))

\* Along the chain the nonces of every sender's transfers rise, on a state that
\* rejected blocks have left half executed too, so that no transfer is paid
\* twice.
NoTransferTwice ==
  \A i, j \in DOMAIN chain :
    \A p \in DOMAIN chain[i].txs, q \in DOMAIN chain[j].txs :
      LET t == Tx[chain[i].txs[p]]
          u == Tx[chain[j].txs[q]]
      IN  /\ i < j \/ (i = j /\ p < q)
          /\ t.from = u.from /\ ~t.data /\ ~u.data
          => t.nonce < u.nonce

\* A block that is refused leaves balances and nonces as they were: "rejecting
\* it here prevents the failed validation path from poisoning local
\* balances/nonces" (validateAndExecuteBlock).
RefusedBlockLeavesState ==
  [][chain' = chain => UNCHANGED account]_vars

-----------------------------------------------------------------------------
\* Invariant

Transfer(t) == ~Tx[t].data

\* A block as the assembler makes one
BlockOk(b) ==
  /\ b.txs \in Seq(Txs) /\ b.miner \in Accounts
  /\ b.king \in {Kings[i] : i \in DOMAIN Kings}

TypeOK ==
  /\ balance \in [Accounts -> Int] /\ nonce \in [Accounts -> Nat]
  /\ chain \in Seq({chain[i] : i \in DOMAIN chain})
  /\ \A i \in DOMAIN chain : BlockOk(chain[i])
  /\ offered = Genesis \/ BlockOk(offered)
  /\ pool \subseteq Txs /\ IsFiniteSet(pool)
  /\ king \in DOMAIN Kings /\ replayed \in 0..Len(chain)

\* The nonces of the transfers of txs are below n.
Below(txs, n) ==
  \A p \in DOMAIN txs : Transfer(txs[p]) => Tx[txs[p]].nonce < n[Tx[txs[p]].from]

\* A transfer of the chain has used its nonce, so that the next one of its sender
\* must have a later one.
NoncesUsed == \A i \in DOMAIN chain : Below(chain[i].txs, nonce)

\* Coins and nonces as the code keeps them with every import and revert
CoinInvariant == TypeOK /\ CoinsAccountedFor /\ NoTransferTwice /\ NoncesUsed

=============================================================================
