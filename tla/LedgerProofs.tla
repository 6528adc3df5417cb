---------------------------- MODULE LedgerProofs ----------------------------
(***************************************************************************)
(* What a node keeps, proved for every value of the constants: the coins   *)
(* and the nonces (Execution), the checkpoints (Checkpoints), the pruned   *)
(* store (Pruning) and the headers (Difficulty), each the instance of      *)
(* MCLedger.  The balances add up to what was paid out; the lemmas about   *)
(* sums are those of SumLemmas.                                            *)
(***************************************************************************)
EXTENDS MCLedger, SumLemmas

-----------------------------------------------------------------------------
(* States of the accounts. *)

States == [ok : BOOLEAN, balance : [Accounts -> Int], nonce : [Accounts -> Nat]]

LEMMA StateFields ==
  ASSUME NEW ok, NEW b, NEW n
  PROVE  /\ State(ok, b, n).ok = ok
         /\ State(ok, b, n).balance = b
         /\ State(ok, b, n).nonce = n
BY DEF State

LEMMA StateType ==
  ASSUME NEW ok \in BOOLEAN, NEW b \in [Accounts -> Int], NEW n \in [Accounts -> Nat]
  PROVE  State(ok, b, n) \in States
BY DEF State, States

\* All the coins of a state
Coins(st) == SumFunction(st.balance)

LEMMA CoinsOf ==
  ASSUME NEW st \in States
  PROVE  Coins(st) = SumFunctionOnSet(st.balance, Accounts) /\ Coins(st) \in Int
<1>1. Summable(st.balance, Accounts) /\ DOMAIN st.balance = Accounts
  BY TxAssumption DEF States, Summable
<1> QED BY <1>1, SumType DEF Coins, SumFunction

\* A credit is paid to somebody, and charged to nobody.
LEMMA CreditAdds ==
  ASSUME NEW st \in States, NEW a \in Accounts, NEW x \in Int
  PROVE  /\ Credit(st, a, x) \in States
         /\ Coins(Credit(st, a, x)) = Coins(st) + x
         /\ Credit(st, a, x).ok = st.ok
         /\ Credit(st, a, x).nonce = st.nonce
<1> DEFINE b == [st.balance EXCEPT ![a] = @ + x]
           c == Credit(st, a, x)
<1>1. st.balance \in [Accounts -> Int] /\ st.ok \in BOOLEAN /\ st.nonce \in [Accounts -> Nat]
  BY DEF States
<1>2. c.balance = b /\ c.ok = st.ok /\ c.nonce = st.nonce
  BY StateFields DEF Credit
<1>3. b \in [Accounts -> Int]
  BY <1>1
<1>4. SumFunctionOnSet(b, Accounts) = SumFunctionOnSet(st.balance, Accounts) + x
  <2> DEFINE g == st.balance
  <2>1. b[a] = g[a] + x /\ \A y \in Accounts \ {a} : b[y] = g[y]
    BY <1>1
  <2>2. g[a] \in Int /\ g \in [Accounts -> Int] /\ IsFiniteSet(Accounts)
    BY <1>1, TxAssumption
  <2> HIDE DEF b, g
  <2>3. SumFunctionOnSet(b, Accounts) = SumFunctionOnSet(g, Accounts) + (b[a] - g[a])
    BY <1>3, <2>1, <2>2, SumChanged
  <2>4. b[a] - g[a] = x
    BY <2>1, <2>2
  <2> QED BY <2>3, <2>4 DEF g
<1>5. c \in States
  <2> HIDE DEF b
  <2>1. c = State(st.ok, b, st.nonce)
    BY DEF Credit, b
  <2> QED BY <1>1, <1>3, <2>1, StateType
<1> HIDE DEF b, c
<1>6. Coins(c) = Coins(st) + x
  BY <1>2, <1>4, <1>5, CoinsOf
<1> QED BY <1>2, <1>5, <1>6 DEF c

LEMMA FailedKeeps ==
  ASSUME NEW st \in States
  PROVE  /\ Failed(st) \in States /\ Coins(Failed(st)) = Coins(st)
         /\ ~Failed(st).ok /\ Failed(st).nonce = st.nonce
<1>1. st.balance \in [Accounts -> Int] /\ st.ok \in BOOLEAN /\ st.nonce \in [Accounts -> Nat]
  BY DEF States
<1>2. Failed(st) \in States
  <2>1. State(FALSE, st.balance, st.nonce) \in States
    BY <1>1, StateType
  <2> QED BY <2>1 DEF Failed
<1>3. Failed(st).ok = FALSE /\ Failed(st).balance = st.balance /\ Failed(st).nonce = st.nonce
  BY DEF Failed, State
<1> QED BY <1>2, <1>3 DEF Coins

\* A reward is paid whole.
LEMMA RewardsAdd ==
  ASSUME NEW st \in States, NEW miner \in Accounts, NEW k \in Accounts, NEW total \in Int
  PROVE  /\ DistributeRewards(st, miner, total, k) \in States
         /\ Coins(DistributeRewards(st, miner, total, k)) = Coins(st) + total
         /\ DistributeRewards(st, miner, total, k).ok = st.ok
         /\ DistributeRewards(st, miner, total, k).nonce = st.nonce
<1> DEFINE mined == (total * 50) \div 200
           main == (total * 20) \div 200
           st1 == Credit(st, miner, mined)
           paid == Credit(st1, MainKing, main)
           last == IF st.balance[k] >= Threshold THEN k ELSE MainKing
           all == Credit(paid, last, total - mined - main)
<1>1. mined \in Int /\ main \in Int
  OBVIOUS
<1>2. MainKing \in Accounts /\ last \in Accounts
  BY TxAssumption
<1> HIDE DEF mined, main, last
<1>3. /\ st1 \in States /\ Coins(st1) = Coins(st) + mined
      /\ st1.ok = st.ok /\ st1.nonce = st.nonce
  BY <1>1, CreditAdds
<1> HIDE DEF st1
<1>4. /\ paid \in States /\ Coins(paid) = Coins(st1) + main
      /\ paid.ok = st.ok /\ paid.nonce = st.nonce
  BY <1>1, <1>2, <1>3, CreditAdds
<1> HIDE DEF paid
<1>5. /\ all \in States /\ Coins(all) = Coins(paid) + (total - mined - main)
      /\ all.ok = st.ok /\ all.nonce = st.nonce
  BY <1>1, <1>2, <1>4, CreditAdds
<1>6. Coins(all) = Coins(st) + total
  BY <1>1, <1>3, <1>4, <1>5, CoinsOf
<1>7. DistributeRewards(st, miner, total, k) = all
  BY DEF DistributeRewards, all, paid, st1, last, main, mined
<1> QED BY <1>5, <1>6, <1>7

\* A transaction moves coins, and a transfer sets the nonce of its sender.
LEMMA TryKeeps ==
  ASSUME NEW st \in States, NEW t \in Txs
  PROVE  /\ Try(st, t) \in States /\ Coins(Try(st, t)) = Coins(st)
         /\ Try(st, t).ok => st.ok
         /\ Try(st, t).nonce =
              IF Try(st, t).ok /\ Transfer(t)
                THEN [st.nonce EXCEPT ![Tx[t].from] = Tx[t].nonce + 1]
                ELSE st.nonce
<1>1. /\ Tx[t].from \in Accounts /\ Tx[t].to \in Accounts /\ Tx[t].value \in Int
      /\ Tx[t].nonce \in Nat /\ Zero \in Accounts /\ Script \in Accounts /\ ScriptValue \in Int
  BY TxAssumption, NumbersAssumption
<1>2. ASSUME NEW a \in Accounts, NEW b \in Accounts, NEW x \in Int
      PROVE  /\ Move(st, a, b, x) \in States /\ Coins(Move(st, a, b, x)) = Coins(st)
             /\ Move(st, a, b, x).ok = st.ok /\ Move(st, a, b, x).nonce = st.nonce
  <2> DEFINE s == Credit(st, a, -x)
  <2>1. -x \in Int
    OBVIOUS
  <2>2. s \in States /\ Coins(s) = Coins(st) + (-x) /\ s.ok = st.ok /\ s.nonce = st.nonce
    BY <2>1, CreditAdds
  <2> HIDE DEF s
  <2>3. /\ Credit(s, b, x) \in States /\ Coins(Credit(s, b, x)) = Coins(s) + x
        /\ Credit(s, b, x).ok = st.ok /\ Credit(s, b, x).nonce = st.nonce
    BY <2>2, CreditAdds
  <2>4. Coins(Credit(s, b, x)) = Coins(st)
    BY <2>2, <2>3, CoinsOf
  <2> QED BY <2>3, <2>4 DEF Move, s
<1>3. CASE ~(st.ok /\ Executes(st, t))
  BY <1>3, FailedKeeps DEF Try
<1>4. CASE st.ok /\ Executes(st, t) /\ ~Transfer(t)
  BY <1>1, <1>2, <1>4 DEF Try, Execute, Transfer
<1>5. CASE st.ok /\ Executes(st, t) /\ Transfer(t)
  <2> DEFINE s == Move(st, Tx[t].from, Tx[t].to, Tx[t].value)
             n == [st.nonce EXCEPT ![Tx[t].from] = Tx[t].nonce + 1]
  <2>1. s \in States /\ Coins(s) = Coins(st) /\ s.ok = st.ok /\ s.nonce = st.nonce
    BY <1>1, <1>2
  <2>2. Try(st, t) = State(s.ok, s.balance, n)
    BY <1>5, <2>1 DEF Try, Execute, SetNonce, Transfer
  <2>3. n \in [Accounts -> Nat]
    BY <1>1 DEF States
  <2> HIDE DEF s, n
  <2>4. s.ok \in BOOLEAN /\ s.balance \in [Accounts -> Int]
    BY <2>1 DEF States
  <2>5. Try(st, t) \in States
    BY <2>2, <2>3, <2>4, StateType
  <2>6. /\ Try(st, t).ok = s.ok /\ Try(st, t).balance = s.balance
        /\ Try(st, t).nonce = n
    BY <2>2, StateFields
  <2> QED BY <1>5, <2>1, <2>5, <2>6 DEF Coins, n
<1> QED BY <1>3, <1>4, <1>5

-----------------------------------------------------------------------------
(* What is computed step by step. *)

\* Transactions one after another
LEMMA TriedSteps ==
  ASSUME NEW st \in States, NEW txs \in Seq(Txs)
  PROVE  \E f \in [0..Len(txs) -> States] :
           /\ f[0] = st /\ Tried(st, txs) = f[Len(txs)]
           /\ \A i \in 1..Len(txs) : f[i] = Try(f[i - 1], txs[i])
<1> DEFINE n == Len(txs)
           step == [i \in 1..n |-> [s \in States |-> Try(s, txs[i])]]
           g == CHOOSE f : f = [i \in 0..n |-> IF i = 0 THEN st ELSE Try(f[i - 1], txs[i])]
<1>1. n \in Nat /\ \A i \in 1..n : txs[i] \in Txs
  OBVIOUS
<1>2. step \in [1..n -> [States -> States]]
  BY <1>1, TryKeeps
<1>3. PICK f : Steps(n, States, st, step, f)
  <2>1. n \in Nat /\ st \in States
    BY <1>1
  <2> HIDE DEF step, n
  <2> QED BY <1>2, <2>1, StepsExist
<1>4. f = [i \in 0..n |-> IF i = 0 THEN st ELSE Try(f[i - 1], txs[i])]
  <2>1. ASSUME NEW i \in 1..n PROVE f[i] = Try(f[i - 1], txs[i])
    <3>1. f[i - 1] \in States /\ f[i] = step[i][f[i - 1]]
      BY <1>1, <1>3 DEF Steps
    <3> QED BY <3>1
  <2>2. ASSUME NEW i \in 0..n
        PROVE  f[i] = IF i = 0 THEN st ELSE Try(f[i - 1], txs[i])
    <3>1. i # 0 => i \in 1..n
      BY <1>1
    <3> QED BY <1>3, <2>1, <3>1 DEF Steps
  <2>3. f = [i \in 0..n |-> f[i]]
    BY <1>3 DEF Steps
  <2> HIDE DEF step
  <2> QED BY <2>2, <2>3
<1>5. g = [i \in 0..n |-> IF i = 0 THEN st ELSE Try(g[i - 1], txs[i])]
  BY <1>4
<1>6. Tried(st, txs) = g[n]
  BY DEF Tried
<1> HIDE DEF g, step
<1>7. g[0] = st /\ \A i \in 1..n : g[i] = Try(g[i - 1], txs[i])
  BY <1>1, <1>5
<1>8. \A i \in 0..n : g[i] \in States
  <2>1. ASSUME NEW i \in 1..n, g[i - 1] \in States PROVE g[i] \in States
    BY <1>1, <1>7, <2>1, TryKeeps
  <2> HIDE DEF n
  <2> QED BY <1>1, <1>7, <2>1, StepsStay
<1>9. g \in [0..n -> States]
  BY <1>5, <1>8
<1> QED BY <1>6, <1>7, <1>9

\* What one transaction of a block is executed to
Step(st, txs, i) ==
  IF st.ok /\ Valid(st, txs[i], Len(chain), SubSeq(txs, 1, i - 1))
    THEN Try(st, txs[i]) ELSE Failed(st)

LEMMA StepType ==
  ASSUME NEW st \in States, NEW txs, NEW i, txs[i] \in Txs
  PROVE  Step(st, txs, i) \in States
BY TryKeeps, FailedKeeps DEF Step

\* The transactions of a block one after another
LEMMA ExecutedSteps ==
  ASSUME Live \in States, NEW txs \in Seq(Txs)
  PROVE  \E f \in [0..Len(txs) -> States] :
           /\ f[0] = Live /\ Executed(txs) = f[Len(txs)]
           /\ \A i \in 1..Len(txs) : f[i] = Step(f[i - 1], txs, i)
<1> DEFINE n == Len(txs)
           step == [i \in 1..n |-> [s \in States |-> Step(s, txs, i)]]
           g == CHOOSE f : f = [i \in 0..n |-> IF i = 0 THEN Live ELSE Step(f[i - 1], txs, i)]
<1>1. n \in Nat /\ \A i \in 1..n : txs[i] \in Txs
  OBVIOUS
<1>2. step \in [1..n -> [States -> States]]
  BY <1>1, StepType
<1>3. PICK f : Steps(n, States, Live, step, f)
  <2>1. n \in Nat /\ Live \in States
    BY <1>1
  <2> HIDE DEF step, n
  <2> QED BY <1>2, <2>1, StepsExist
<1>4. f = [i \in 0..n |-> IF i = 0 THEN Live ELSE Step(f[i - 1], txs, i)]
  <2>1. ASSUME NEW i \in 1..n PROVE f[i] = Step(f[i - 1], txs, i)
    <3>1. f[i - 1] \in States /\ f[i] = step[i][f[i - 1]]
      BY <1>1, <1>3 DEF Steps
    <3> QED BY <3>1
  <2>2. ASSUME NEW i \in 0..n
        PROVE  f[i] = IF i = 0 THEN Live ELSE Step(f[i - 1], txs, i)
    <3>1. i # 0 => i \in 1..n
      BY <1>1
    <3> QED BY <1>3, <2>1, <3>1 DEF Steps
  <2>3. f = [i \in 0..n |-> f[i]]
    BY <1>3 DEF Steps
  <2> HIDE DEF step
  <2> QED BY <2>2, <2>3
<1>5. g = [i \in 0..n |-> IF i = 0 THEN Live ELSE Step(g[i - 1], txs, i)]
  BY <1>4
<1>6. Executed(txs) = g[n]
  BY DEF Executed, Step
<1> HIDE DEF g, step
<1>7. g[0] = Live /\ \A i \in 1..n : g[i] = Step(g[i - 1], txs, i)
  BY <1>1, <1>5
<1>8. \A i \in 0..n : g[i] \in States
  <2>1. ASSUME NEW i \in 1..n, g[i - 1] \in States PROVE g[i] \in States
    BY <1>1, <1>7, <2>1, StepType
  <2> HIDE DEF n
  <2> QED BY <1>1, <1>7, <2>1, StepsStay
<1>9. g \in [0..n -> States]
  BY <1>5, <1>8
<1> QED BY <1>6, <1>7, <1>9

\* Rewards are whole numbers.
LEMMA RewardType ==
  ASSUME NEW k \in Nat
  PROVE  RewardAfter(k) \in Nat
<1> DEFINE step == [i \in 1..k |-> [r \in Nat |-> Halved(r)]]
           g == CHOOSE f : f = [i \in 0..k |-> IF i = 0 THEN InitialReward ELSE Halved(f[i - 1])]
<1>1. InitialReward \in Nat /\ \A r \in Nat : Halved(r) \in Nat
  BY NumbersAssumption DEF Halved
<1>2. step \in [1..k -> [Nat -> Nat]]
  BY <1>1
<1>3. PICK f : Steps(k, Nat, InitialReward, step, f)
  <2>1. k \in Nat /\ InitialReward \in Nat
    BY <1>1
  <2> HIDE DEF step
  <2> QED BY <1>2, <2>1, StepsExist
<1>4. f = [i \in 0..k |-> IF i = 0 THEN InitialReward ELSE Halved(f[i - 1])]
  <2>1. ASSUME NEW i \in 1..k PROVE f[i] = Halved(f[i - 1])
    <3>1. i - 1 \in 0..k
      OBVIOUS
    <3>2. f[i - 1] \in Nat
      BY <1>3, <3>1 DEF Steps
    <3>3. f[i] = step[i][f[i - 1]]
      BY <1>3 DEF Steps
    <3> QED BY <3>2, <3>3
  <2>2. ASSUME NEW i \in 0..k
        PROVE  f[i] = IF i = 0 THEN InitialReward ELSE Halved(f[i - 1])
    <3>1. i # 0 => i \in 1..k
      BY <1>1
    <3> QED BY <1>3, <2>1, <3>1 DEF Steps
  <2>3. f = [i \in 0..k |-> f[i]]
    BY <1>3 DEF Steps
  <2> HIDE DEF step
  <2> QED BY <2>2, <2>3
<1>5. g = [i \in 0..k |-> IF i = 0 THEN InitialReward ELSE Halved(g[i - 1])]
  BY <1>4
<1>6. RewardAfter(k) = g[k]
  BY DEF RewardAfter
<1> HIDE DEF g, step
<1>7. g[0] = InitialReward /\ \A i \in 1..k : g[i] = Halved(g[i - 1])
  <2>1. g[0] = InitialReward
    BY <1>5
  <2>2. ASSUME NEW i \in 1..k PROVE g[i] = Halved(g[i - 1])
    <3>1. i \in 0..k /\ i # 0
      OBVIOUS
    <3> QED BY <1>5, <3>1
  <2> QED BY <2>1, <2>2
<1>8. \A i \in 0..k : g[i] \in Nat
  <2>1. ASSUME NEW i \in 1..k, g[i - 1] \in Nat PROVE g[i] \in Nat
    BY <1>1, <1>7, <2>1
  <2> HIDE DEF g
  <2> QED BY <1>1, <1>7, <2>1, StepsStay
<1> QED BY <1>6, <1>8

\* What one block is replayed to
ReplayStep(st, i) == IF st.ok THEN Replay(st, i) ELSE st

LEMMA KingType ==
  ASSUME NEW i \in DOMAIN Kings
  PROVE  Kings[i] \in Accounts
BY TxAssumption

\* Transactions move coins only.
LEMMA TriedType ==
  ASSUME NEW st \in States, NEW txs \in Seq(Txs)
  PROVE  Tried(st, txs) \in States /\ Coins(Tried(st, txs)) = Coins(st)
<1>1. PICK f \in [0..Len(txs) -> States] :
        /\ f[0] = st /\ Tried(st, txs) = f[Len(txs)]
        /\ \A i \in 1..Len(txs) : f[i] = Try(f[i - 1], txs[i])
  BY TriedSteps
<1> DEFINE n == Len(txs)
           g == [i \in 0..n |-> Coins(f[i])]
           S == {Coins(st)}
<1>2. n \in Nat /\ \A i \in 1..n : txs[i] \in Txs
  OBVIOUS
<1>3. ASSUME NEW i \in 1..n, g[i - 1] \in S PROVE g[i] \in S
  <2>1. i - 1 \in 0..n /\ i \in 0..n /\ f[i - 1] \in States
    BY <1>2
  <2>2. f[i] = Try(f[i - 1], txs[i]) /\ txs[i] \in Txs
    BY <1>1, <1>2
  <2>3. Coins(f[i]) = Coins(f[i - 1])
    BY <2>1, <2>2, TryKeeps
  <2> QED BY <1>3, <2>1, <2>3
<1>4. g[0] \in S
  BY <1>1, <1>2
<1>5. \A i \in 0..n : g[i] \in S
  <2> HIDE DEF g, S, n
  <2> QED BY <1>2, <1>3, <1>4, StepsStay
<1>6. g[n] = Coins(st)
  BY <1>2, <1>5
<1> QED BY <1>1, <1>2, <1>6

LEMMA RewardIs ==
  ASSUME NEW h \in Nat
  PROVE  Reward(h) \in Nat
<1>1. h \div BlocksPerHalving \in Nat
  BY NumbersAssumption
<1> QED BY <1>1, RewardType DEF Reward

LEMMA ReplayStepType ==
  ASSUME NEW st \in States, NEW i \in Nat, BlockOk(chain[i]), king \in DOMAIN Kings
  PROVE  ReplayStep(st, i) \in States
<1>1. chain[i].txs \in Seq(Txs) /\ chain[i].miner \in Accounts
  BY DEF BlockOk
<1>2. Tried(st, chain[i].txs) \in States
  BY <1>1, TriedType
<1>3. Kings[king] \in Accounts /\ Reward(i) \in Int
  BY KingType, RewardIs
<1>4. DistributeRewards(Tried(st, chain[i].txs), chain[i].miner, Reward(i), Kings[king]) \in States
  BY <1>1, <1>2, <1>3, RewardsAdd
<1> QED BY <1>2, <1>4 DEF ReplayStep, Replay

\* The blocks that are replayed one after another
LEMMA ReplayedSteps ==
  ASSUME NEW h \in Nat, king \in DOMAIN Kings, \A i \in 1..h : BlockOk(chain[i])
  PROVE  \E f \in [0..h -> States] :
           /\ f[0] = State(TRUE, Endowed, NoNonces) /\ Replayed(h) = f[h]
           /\ \A i \in 1..h : f[i] = ReplayStep(f[i - 1], i)
<1> DEFINE first == State(TRUE, Endowed, NoNonces)
           step == [i \in 1..h |-> [s \in States |-> ReplayStep(s, i)]]
           g == CHOOSE f : f = [i \in 0..h |-> IF i = 0 THEN first ELSE ReplayStep(f[i - 1], i)]
<1>1. first \in States
  <2>1. Endowed \in [Accounts -> Int] /\ NoNonces \in [Accounts -> Nat]
    BY NumbersAssumption DEF Endowed, NoNonces
  <2> QED BY <2>1, StateType
<1> HIDE DEF first
<1>2. step \in [1..h -> [States -> States]]
  BY ReplayStepType
<1>3. PICK f : Steps(h, States, first, step, f)
  <2> HIDE DEF step
  <2> QED BY <1>1, <1>2, StepsExist
<1>4. f = [i \in 0..h |-> IF i = 0 THEN first ELSE ReplayStep(f[i - 1], i)]
  <2>1. ASSUME NEW i \in 1..h PROVE f[i] = ReplayStep(f[i - 1], i)
    <3>1. f[i - 1] \in States /\ f[i] = step[i][f[i - 1]]
      BY <1>1, <1>3 DEF Steps
    <3> QED BY <3>1
  <2>2. ASSUME NEW i \in 0..h
        PROVE  f[i] = IF i = 0 THEN first ELSE ReplayStep(f[i - 1], i)
    <3>1. i # 0 => i \in 1..h
      BY <1>1
    <3> QED BY <1>3, <2>1, <3>1 DEF Steps
  <2>3. f = [i \in 0..h |-> f[i]]
    BY <1>3 DEF Steps
  <2> HIDE DEF step
  <2> QED BY <2>2, <2>3
<1>5. g = [i \in 0..h |-> IF i = 0 THEN first ELSE ReplayStep(g[i - 1], i)]
  BY <1>4
<1>6. Replayed(h) = g[h]
  BY DEF Replayed, ReplayStep, first
<1> HIDE DEF g, step
<1>7. g[0] = first /\ \A i \in 1..h : g[i] = ReplayStep(g[i - 1], i)
  BY <1>1, <1>5
<1>8. \A i \in 0..h : g[i] \in States
  <2>1. ASSUME NEW i \in 1..h, g[i - 1] \in States PROVE g[i] \in States
    BY <1>1, <1>7, <2>1, ReplayStepType
  <2> QED BY <1>1, <1>7, <2>1, StepsStay
<1>9. g \in [0..h -> States]
  BY <1>5, <1>8
<1> QED BY <1>6, <1>7, <1>9 DEF first

-----------------------------------------------------------------------------
(* Nonces. *)

\* What a transaction makes of the nonces, and of what failed before it.
LEMMA TryNonce ==
  ASSUME NEW st \in States, NEW t \in Txs
  PROVE  \/ Try(st, t).nonce = st.nonce
         \/ /\ Transfer(t)
            /\ Try(st, t).nonce = [st.nonce EXCEPT ![Tx[t].from] = Tx[t].nonce + 1]
BY TryKeeps

LEMMA TryOk ==
  ASSUME NEW st \in States, NEW t \in Txs, Try(st, t).ok
  PROVE  /\ st.ok
         /\ Transfer(t) =>
              Try(st, t).nonce = [st.nonce EXCEPT ![Tx[t].from] = Tx[t].nonce + 1]
BY TryKeeps

\* A nonce that is below one of the steps' nonces, and below those of the
\* transfers that come after it, stays below.
LEMMA StaysBelow ==
  ASSUME NEW n \in Nat, NEW txs, NEW f \in [0..n -> States], NEW a \in Accounts,
         NEW x \in Nat, NEW m \in 0..n, x < f[m].nonce[a],
         \A i \in 1..n : txs[i] \in Txs /\ f[i] = Try(f[i - 1], txs[i]),
         \A q \in (m + 1)..n :
           Transfer(txs[q]) /\ Tx[txs[q]].from = a => x < Tx[txs[q]].nonce
  PROVE  x < f[n].nonce[a]
<1> DEFINE T == {i \in 0..n : i < m \/ x < f[i].nonce[a]}
<1>1. ASSUME NEW i \in 0..n, i < n, i \in T PROVE i + 1 \in T
  <2> DEFINE t == txs[i + 1]
  <2>1. i + 1 \in 0..n /\ f[i] \in States /\ t \in Txs /\ f[i + 1] = Try(f[i], t)
    <3>1. i + 1 \in 1..n /\ (i + 1) - 1 = i
      BY <1>1
    <3>2. txs[i + 1] \in Txs /\ f[i + 1] = Try(f[(i + 1) - 1], txs[i + 1])
      BY <3>1
    <3> QED BY <3>1, <3>2
  <2>2. CASE i + 1 <= m
    <3>1. i + 1 < m \/ i + 1 = m
      BY <2>2
    <3> QED BY <2>1, <3>1
  <2>3. CASE i + 1 > m
    <3> DEFINE c == Tx[t].from
               d == Tx[t].nonce
               old == f[i].nonce
    <3>1. x < old[a]
      BY <1>1, <2>3
    <3>2. old \in [Accounts -> Nat] /\ c \in Accounts /\ d \in Nat
      BY <2>1, TxAssumption DEF States
    <3>3. Transfer(t) /\ c = a => x < d
      BY <2>1, <2>3
    <3>4. \/ Try(f[i], t).nonce = old
          \/ Transfer(t) /\ Try(f[i], t).nonce = [old EXCEPT ![c] = d + 1]
      <4> HIDE DEF t
      <4> QED BY <2>1, TryNonce
    <3> HIDE DEF c, d, old, t
    <3>5. x < Try(f[i], t).nonce[a]
      <4> DEFINE new == [old EXCEPT ![c] = d + 1]
      <4>1. new[a] = IF a = c THEN d + 1 ELSE old[a]
        BY <3>2
      <4>2. Transfer(t) => x < new[a]
        BY <3>1, <3>2, <3>3, <4>1
      <4> HIDE DEF new
      <4>3. CASE Transfer(t) /\ Try(f[i], t).nonce = new
        BY <4>2, <4>3
      <4>4. CASE Try(f[i], t).nonce = old
        BY <3>1, <4>4
      <4> QED BY <3>4, <4>3, <4>4 DEF new
    <3> QED BY <2>1, <3>5
  <2> QED BY <2>2, <2>3
<1>2. 0 \in T
  <2>1. m = 0 \/ 0 < m
    OBVIOUS
  <2> QED BY <2>1
<1>3. \A i \in 0..n : i \in T
  <2> HIDE DEF T
  <2> QED BY <1>1, <1>2, UpTo
<1>4. n \in 0..n /\ m <= n
  OBVIOUS
<1>5. n < m \/ x < f[n].nonce[a]
  BY <1>3, <1>4
<1> QED BY <1>4, <1>5

\* What has failed stays so.
LEMMA TriedOk ==
  ASSUME NEW n \in Nat, NEW txs, NEW f \in [0..n -> States], f[n].ok,
         \A i \in 1..n : txs[i] \in Txs /\ f[i] = Try(f[i - 1], txs[i])
  PROVE  \A i \in 0..n : f[i].ok
<1> DEFINE T == {i \in 0..n : f[n - i].ok}
<1>1. ASSUME NEW i \in 0..n, i < n, i \in T PROVE i + 1 \in T
  <2> DEFINE j == n - i
  <2>1. j \in 1..n /\ j - 1 = n - (i + 1) /\ j - 1 \in 0..n /\ i + 1 \in 0..n
    BY <1>1
  <2>2. f[j].ok
    BY <1>1
  <2> HIDE DEF j
  <2>3. f[j - 1] \in States /\ txs[j] \in Txs /\ f[j] = Try(f[j - 1], txs[j])
    BY <2>1
  <2>4. Try(f[j - 1], txs[j]).ok
    BY <2>2, <2>3
  <2>5. f[j - 1].ok
    BY <2>3, <2>4, TryOk
  <2> QED BY <2>1, <2>5
<1>2. 0 \in T
  OBVIOUS
<1>3. \A i \in 0..n : i \in T
  <2> HIDE DEF T
  <2> QED BY <1>1, <1>2, UpTo
<1>4. ASSUME NEW i \in 0..n PROVE f[i].ok
  <2>1. n - i \in 0..n /\ n - (n - i) = i
    OBVIOUS
  <2>2. f[n - (n - i)].ok
    BY <1>3, <2>1
  <2> QED BY <2>1, <2>2
<1> QED BY <1>4

\* Those of the transfers of txs are below those of us, and they rise.
Precede(txs, us) ==
  \A p \in DOMAIN txs, q \in DOMAIN us :
    Transfer(txs[p]) /\ Transfer(us[q]) /\ Tx[txs[p]].from = Tx[us[q]].from
      => Tx[txs[p]].nonce < Tx[us[q]].nonce

Rise(txs) ==
  \A p, q \in DOMAIN txs :
    p < q /\ Transfer(txs[p]) /\ Transfer(txs[q]) /\ Tx[txs[p]].from = Tx[txs[q]].from
      => Tx[txs[p]].nonce < Tx[txs[q]].nonce

\* Transactions that are executed leave earlier nonces below the new ones.
LEMMA TriedBelow ==
  ASSUME NEW st \in States, NEW us \in Seq(Txs), NEW txs \in Seq(Txs),
         Below(us, st.nonce), Precede(us, txs)
  PROVE  Below(us, Tried(st, txs).nonce)
<1>1. PICK f \in [0..Len(txs) -> States] :
        /\ f[0] = st /\ Tried(st, txs) = f[Len(txs)]
        /\ \A i \in 1..Len(txs) : f[i] = Try(f[i - 1], txs[i])
  BY TriedSteps
<1> DEFINE n == Len(txs)
<1>2. n \in Nat /\ DOMAIN txs = 1..n /\ \A i \in 1..n : txs[i] \in Txs
  OBVIOUS
<1>3. ASSUME NEW p \in DOMAIN us, Transfer(us[p])
      PROVE  Tx[us[p]].nonce < Tried(st, txs).nonce[Tx[us[p]].from]
  <2> DEFINE a == Tx[us[p]].from
             x == Tx[us[p]].nonce
  <2>1. a \in Accounts /\ x \in Nat
    <3>1. us[p] \in Txs
      OBVIOUS
    <3> QED BY <3>1, TxAssumption
  <2>2. x < f[0].nonce[a]
    BY <1>1, <1>3 DEF Below
  <2>3. \A q \in 1..n : Transfer(txs[q]) /\ Tx[txs[q]].from = a => x < Tx[txs[q]].nonce
    BY <1>2, <1>3 DEF Precede
  <2> HIDE DEF a, x, n
  <2>4. x < f[n].nonce[a]
    <3>1. 0 \in 0..n /\ 0 + 1 = 1
      BY <1>2
    <3>2. \A i \in 1..n : txs[i] \in Txs /\ f[i] = Try(f[i - 1], txs[i])
      BY <1>1, <1>2 DEF n
    <3>3. f \in [0..n -> States]
      BY <1>1 DEF n
    <3>4. \A q \in (0 + 1)..n : Transfer(txs[q]) /\ Tx[txs[q]].from = a => x < Tx[txs[q]].nonce
      BY <2>3, <3>1
    <3> QED BY <1>2, <2>1, <2>2, <3>1, <3>2, <3>3, <3>4, StaysBelow
  <2> QED BY <1>1, <2>4 DEF a, x, n
<1> QED BY <1>3 DEF Below

\* And their own, when none of them fails.
LEMMA TriedBelowToo ==
  ASSUME NEW st \in States, NEW txs \in Seq(Txs), Rise(txs), Tried(st, txs).ok
  PROVE  Below(txs, Tried(st, txs).nonce)
<1>1. PICK f \in [0..Len(txs) -> States] :
        /\ f[0] = st /\ Tried(st, txs) = f[Len(txs)]
        /\ \A i \in 1..Len(txs) : f[i] = Try(f[i - 1], txs[i])
  BY TriedSteps
<1> DEFINE n == Len(txs)
<1>2. n \in Nat /\ DOMAIN txs = 1..n /\ \A i \in 1..n : txs[i] \in Txs
  OBVIOUS
<1>3. /\ f \in [0..n -> States] /\ f[n].ok
      /\ \A i \in 1..n : txs[i] \in Txs /\ f[i] = Try(f[i - 1], txs[i])
  BY <1>1, <1>2
<1> HIDE DEF n
<1>4. \A i \in 0..n : f[i].ok
  BY <1>2, <1>3, TriedOk
<1>5. ASSUME NEW p \in 1..n, Transfer(txs[p])
      PROVE  Tx[txs[p]].nonce < Tried(st, txs).nonce[Tx[txs[p]].from]
  <2> DEFINE a == Tx[txs[p]].from
             x == Tx[txs[p]].nonce
  <2>1. a \in Accounts /\ x \in Nat
    BY <1>2, TxAssumption
  <2>2. x < f[p].nonce[a]
    <3>1. f[p - 1] \in States /\ f[p] = Try(f[p - 1], txs[p]) /\ txs[p] \in Txs /\ f[p].ok
      BY <1>2, <1>3, <1>4
    <3>2. f[p].nonce = [f[p - 1].nonce EXCEPT ![a] = x + 1]
      <4>1. Try(f[p - 1], txs[p]).ok
        BY <3>1
      <4> QED BY <1>5, <3>1, <4>1, TryOk
    <3>3. f[p - 1].nonce \in [Accounts -> Nat]
      BY <3>1 DEF States
    <3> HIDE DEF a, x
    <3> QED BY <2>1, <3>2, <3>3
  <2>3. \A q \in (p + 1)..n : Transfer(txs[q]) /\ Tx[txs[q]].from = a => x < Tx[txs[q]].nonce
    BY <1>2, <1>5 DEF Rise
  <2> HIDE DEF a, x
  <2>4. p \in 0..n
    BY <1>2
  <2>5. x < f[n].nonce[a]
    BY <1>2, <1>3, <2>1, <2>2, <2>3, <2>4, StaysBelow
  <2> QED BY <1>1, <2>5 DEF a, x, n
<1> QED BY <1>2, <1>5 DEF Below

-----------------------------------------------------------------------------
(* The execution of a block. *)

\* A transaction whose nonce is checked moves coins, and nonces only up.
LEMMA StepMoves ==
  ASSUME NEW st \in States, NEW txs, NEW i, txs[i] \in Txs
  PROVE  /\ Coins(Step(st, txs, i)) = Coins(st)
         /\ \A a \in Accounts : st.nonce[a] <= Step(st, txs, i).nonce[a]
<1> DEFINE t == txs[i]
<1>1. st.nonce \in [Accounts -> Nat] /\ t \in Txs
  BY DEF States
<1> HIDE DEF t
<1>2. CASE ~(st.ok /\ Valid(st, t, Len(chain), SubSeq(txs, 1, i - 1)))
  <2>1. Step(st, txs, i) = Failed(st)
    BY <1>2 DEF Step, t
  <2> QED BY <1>1, <2>1, FailedKeeps
<1>3. CASE st.ok /\ Valid(st, t, Len(chain), SubSeq(txs, 1, i - 1))
  <2>1. Step(st, txs, i) = Try(st, t)
    BY <1>3 DEF Step, t
  <2> DEFINE c == Tx[t].from
             new == [st.nonce EXCEPT ![c] = Tx[t].nonce + 1]
  <2>2. Tx[t].nonce = st.nonce[c] /\ c \in Accounts
    BY <1>1, <1>3, TxAssumption DEF Valid
  <2>3. \A a \in Accounts : st.nonce[a] <= new[a] /\ st.nonce[a] <= st.nonce[a]
    BY <1>1, <2>2
  <2>4. Try(st, t).nonce = st.nonce \/ Try(st, t).nonce = new
    BY <1>1, TryNonce
  <2>5. Coins(Try(st, t)) = Coins(st)
    BY <1>1, TryKeeps
  <2> HIDE DEF new, c
  <2> QED BY <2>1, <2>3, <2>4, <2>5
<1> QED BY <1>2, <1>3

\* One that did not fail had the nonce of its sender, when it is a transfer.
LEMMA StepOk ==
  ASSUME NEW st \in States, NEW txs, NEW i, txs[i] \in Txs, Step(st, txs, i).ok
  PROVE  /\ st.ok
         /\ Transfer(txs[i]) =>
              /\ st.nonce[Tx[txs[i]].from] = Tx[txs[i]].nonce
              /\ Step(st, txs, i).nonce[Tx[txs[i]].from] = Tx[txs[i]].nonce + 1
<1> DEFINE t == txs[i]
<1>1. st.nonce \in [Accounts -> Nat] /\ t \in Txs /\ Tx[t].from \in Accounts
  BY TxAssumption DEF States
<1> HIDE DEF t
<1>2. st.ok /\ Valid(st, t, Len(chain), SubSeq(txs, 1, i - 1))
  BY FailedKeeps DEF Step, t
<1>3. Step(st, txs, i) = Try(st, t)
  BY <1>2 DEF Step, t
<1>4. Try(st, t).ok
  BY <1>3
<1>5. Transfer(t) => Try(st, t).nonce = [st.nonce EXCEPT ![Tx[t].from] = Tx[t].nonce + 1]
  BY <1>1, <1>4, TryOk
<1>6. Tx[t].nonce = st.nonce[Tx[t].from]
  BY <1>2 DEF Valid
<1>7. Transfer(t) => Try(st, t).nonce[Tx[t].from] = Tx[t].nonce + 1
  BY <1>1, <1>5
<1> QED BY <1>2, <1>3, <1>6, <1>7 DEF t

\* f is the execution of txs.
Execution(txs, f) ==
  /\ f \in [0..Len(txs) -> States]
  /\ f[0] = Live /\ Executed(txs) = f[Len(txs)]
  /\ \A i \in 1..Len(txs) : f[i] = Step(f[i - 1], txs, i)

LEMMA NoncesRise ==
  ASSUME NEW txs \in Seq(Txs), NEW f, Execution(txs, f),
         NEW a \in Accounts, NEW m \in 0..Len(txs)
  PROVE  \A i \in m..Len(txs) : f[m].nonce[a] <= f[i].nonce[a]
<1> DEFINE n == Len(txs)
           T == {i \in 0..n : i < m \/ f[m].nonce[a] <= f[i].nonce[a]}
<1>1. /\ n \in Nat /\ f \in [0..n -> States]
      /\ \A i \in 1..n : txs[i] \in Txs /\ f[i] = Step(f[i - 1], txs, i)
  BY DEF Execution
<1> HIDE DEF n
<1>2. \A i \in 0..n : f[i].nonce[a] \in Nat
  BY <1>1 DEF States
<1>3. ASSUME NEW i \in 0..n, i < n, i \in T PROVE i + 1 \in T
  <2>1. i + 1 \in 1..n /\ (i + 1) - 1 = i /\ i + 1 \in 0..n
    BY <1>1, <1>3
  <2>2. f[i] \in States /\ txs[i + 1] \in Txs
    BY <1>1, <2>1
  <2>3. f[i + 1] = Step(f[i], txs, i + 1)
    <3>1. f[i + 1] = Step(f[(i + 1) - 1], txs, i + 1)
      BY <1>1, <2>1
    <3> QED BY <2>1, <3>1
  <2>4. f[i].nonce[a] <= f[i + 1].nonce[a]
    BY <2>2, <2>3, StepMoves
  <2>5. CASE i + 1 < m
    BY <2>1, <2>5
  <2>6. CASE i + 1 = m
    <3>1. f[m].nonce[a] <= f[i + 1].nonce[a]
      BY <1>2, <2>1, <2>6
    <3> QED BY <2>1, <3>1
  <2>7. CASE i + 1 > m
    <3>1. f[m].nonce[a] <= f[i].nonce[a]
      BY <1>1, <1>3, <2>7
    <3>2. f[m].nonce[a] <= f[i + 1].nonce[a]
      <4>1. m \in 0..n
        BY DEF n
      <4> QED BY <1>2, <2>1, <2>4, <3>1, <4>1
    <3> QED BY <2>1, <3>2
  <2>8. m \in Nat
    BY <1>1 DEF n
  <2> QED BY <2>5, <2>6, <2>7, <2>8
<1>4. 0 \in T
  <2>1. m \in 0..n /\ (m = 0 \/ 0 < m)
    BY <1>1 DEF n
  <2> QED BY <1>1, <1>2, <2>1
<1>5. \A i \in 0..n : i \in T
  <2> HIDE DEF T
  <2> QED BY <1>1, <1>3, <1>4, UpTo
<1>6. ASSUME NEW i \in m..n PROVE f[m].nonce[a] <= f[i].nonce[a]
  <2>1. i \in 0..n /\ ~(i < m)
    BY <1>1 DEF n
  <2> QED BY <1>5, <2>1
<1> QED BY <1>6 DEF n

LEMMA NoneFailed ==
  ASSUME NEW txs \in Seq(Txs), NEW f, Execution(txs, f), f[Len(txs)].ok
  PROVE  \A i \in 0..Len(txs) : f[i].ok
<1> DEFINE n == Len(txs)
           T == {i \in 0..n : f[n - i].ok}
<1>1. /\ n \in Nat /\ f \in [0..n -> States] /\ f[n].ok
      /\ \A i \in 1..n : txs[i] \in Txs /\ f[i] = Step(f[i - 1], txs, i)
  BY DEF Execution
<1> HIDE DEF n
<1>2. ASSUME NEW i \in 0..n, i < n, i \in T PROVE i + 1 \in T
  <2> DEFINE j == n - i
  <2>1. j \in 1..n /\ j - 1 = n - (i + 1) /\ j - 1 \in 0..n /\ i + 1 \in 0..n
    BY <1>1, <1>2
  <2>2. f[j].ok
    BY <1>2
  <2> HIDE DEF j
  <2>3. f[j - 1] \in States /\ txs[j] \in Txs /\ f[j] = Step(f[j - 1], txs, j)
    BY <1>1, <2>1
  <2>4. Step(f[j - 1], txs, j).ok
    BY <2>2, <2>3
  <2>5. f[j - 1].ok
    BY <2>3, <2>4, StepOk
  <2> QED BY <2>1, <2>5
<1>3. 0 \in T
  BY <1>1
<1>4. \A i \in 0..n : i \in T
  <2> HIDE DEF T
  <2> QED BY <1>1, <1>2, <1>3, UpTo
<1>5. ASSUME NEW i \in 0..n PROVE f[i].ok
  <2>1. n - i \in 0..n /\ n - (n - i) = i
    BY <1>1
  <2>2. f[n - (n - i)].ok
    BY <1>4, <2>1
  <2> QED BY <2>1, <2>2
<1> QED BY <1>5 DEF n

\* The nonces of the transfers of txs are not below n.
Above(txs, n) ==
  \A p \in DOMAIN txs : Transfer(txs[p]) => n[Tx[txs[p]].from] <= Tx[txs[p]].nonce

\* What the execution of a block leaves, when it fails too
LEMMA ExecutedKeeps ==
  ASSUME Live \in States, NEW txs \in Seq(Txs)
  PROVE  /\ Executed(txs) \in States /\ Coins(Executed(txs)) = Coins(Live)
         /\ \A a \in Accounts : Live.nonce[a] <= Executed(txs).nonce[a]
<1>1. PICK f \in [0..Len(txs) -> States] :
        /\ f[0] = Live /\ Executed(txs) = f[Len(txs)]
        /\ \A i \in 1..Len(txs) : f[i] = Step(f[i - 1], txs, i)
  BY ExecutedSteps
<1>2. Execution(txs, f)
  BY <1>1 DEF Execution
<1> DEFINE n == Len(txs)
           g == [i \in 0..n |-> Coins(f[i])]
           S == {Coins(Live)}
<1>3. n \in Nat /\ \A i \in 1..n : txs[i] \in Txs
  OBVIOUS
<1>4. ASSUME NEW i \in 1..n, g[i - 1] \in S PROVE g[i] \in S
  <2>1. i - 1 \in 0..n /\ i \in 0..n /\ f[i - 1] \in States
    BY <1>3
  <2>2. Coins(f[i]) = Coins(f[i - 1])
    BY <1>1, <1>3, <2>1, StepMoves
  <2> QED BY <1>4, <2>1, <2>2
<1>5. g[0] \in S
  BY <1>1, <1>3
<1>6. \A i \in 0..n : g[i] \in S
  <2> HIDE DEF g, S, n
  <2> QED BY <1>3, <1>4, <1>5, StepsStay
<1>7. g[n] = Coins(Live)
  BY <1>3, <1>6
<1>8. ASSUME NEW a \in Accounts PROVE f[0].nonce[a] <= f[n].nonce[a]
  <2>1. 0 \in 0..Len(txs) /\ n \in 0..Len(txs)
    BY <1>3
  <2> QED BY <1>2, <2>1, NoncesRise
<1> QED BY <1>1, <1>3, <1>7, <1>8

\* And when it does not: the nonces of its transfers were the next ones.
LEMMA ExecutedNonces ==
  ASSUME Live \in States, NEW txs \in Seq(Txs), Executed(txs).ok
  PROVE  Above(txs, Live.nonce) /\ Rise(txs) /\ Below(txs, Executed(txs).nonce)
<1>1. PICK f \in [0..Len(txs) -> States] :
        /\ f[0] = Live /\ Executed(txs) = f[Len(txs)]
        /\ \A i \in 1..Len(txs) : f[i] = Step(f[i - 1], txs, i)
  BY ExecutedSteps
<1>2. Execution(txs, f)
  BY <1>1 DEF Execution
<1> DEFINE n == Len(txs)
<1>3. n \in Nat /\ DOMAIN txs = 1..n /\ \A i \in 1..n : txs[i] \in Txs
  OBVIOUS
<1>4. \A i \in 0..n : f[i].ok /\ f[i] \in States
  BY <1>1, <1>2, NoneFailed
<1>5. ASSUME NEW m \in 0..n, NEW i \in m..n, NEW a \in Accounts
      PROVE  f[m].nonce[a] <= f[i].nonce[a] /\ f[m].nonce[a] \in Nat /\ f[i].nonce[a] \in Nat
  <2>1. i \in 0..n
    BY <1>3
  <2>2. f[m].nonce[a] <= f[i].nonce[a]
    BY <1>2, NoncesRise
  <2> QED BY <1>4, <2>1, <2>2 DEF States
<1>6. ASSUME NEW p \in 1..n, Transfer(txs[p])
      PROVE  /\ f[p - 1].nonce[Tx[txs[p]].from] = Tx[txs[p]].nonce
             /\ f[p].nonce[Tx[txs[p]].from] = Tx[txs[p]].nonce + 1
             /\ Tx[txs[p]].from \in Accounts /\ Tx[txs[p]].nonce \in Nat
  <2>1. p \in 0..n /\ p - 1 \in 0..n
    BY <1>3
  <2>2. f[p - 1] \in States /\ txs[p] \in Txs /\ f[p] = Step(f[p - 1], txs, p)
    BY <1>1, <1>3, <1>4, <2>1
  <2>3. f[p].ok
    BY <1>4, <2>1
  <2>4. Step(f[p - 1], txs, p).ok
    BY <2>2, <2>3
  <2>5. Tx[txs[p]].from \in Accounts /\ Tx[txs[p]].nonce \in Nat
    BY <2>2, TxAssumption
  <2>6. /\ f[p - 1].nonce[Tx[txs[p]].from] = Tx[txs[p]].nonce
        /\ Step(f[p - 1], txs, p).nonce[Tx[txs[p]].from] = Tx[txs[p]].nonce + 1
    BY <1>6, <2>2, <2>4, StepOk
  <2> QED BY <2>2, <2>5, <2>6
<1>7. Above(txs, Live.nonce)
  <2>1. ASSUME NEW p \in 1..n, Transfer(txs[p])
        PROVE  Live.nonce[Tx[txs[p]].from] <= Tx[txs[p]].nonce
    <3>1. 0 \in 0..n /\ p - 1 \in 0..n
      BY <1>3
    <3>2. f[0].nonce[Tx[txs[p]].from] <= f[p - 1].nonce[Tx[txs[p]].from]
      BY <1>5, <1>6, <2>1, <3>1
    <3> QED BY <1>1, <1>6, <2>1, <3>2
  <2> QED BY <1>3, <2>1 DEF Above
<1>8. Below(txs, Executed(txs).nonce)
  <2>1. ASSUME NEW p \in 1..n, Transfer(txs[p])
        PROVE  Tx[txs[p]].nonce < f[n].nonce[Tx[txs[p]].from]
    <3>1. p \in 0..n /\ n \in p..n
      BY <1>3
    <3> DEFINE a == Tx[txs[p]].from
               x == Tx[txs[p]].nonce
    <3>2. a \in Accounts /\ x \in Nat /\ f[p].nonce[a] = x + 1
      BY <1>6, <2>1
    <3> HIDE DEF a, x
    <3>3. f[p].nonce[a] <= f[n].nonce[a] /\ f[n].nonce[a] \in Nat
      BY <1>5, <3>1, <3>2
    <3>4. x < f[n].nonce[a]
      BY <3>2, <3>3
    <3> QED BY <3>4 DEF a, x
  <2> QED BY <1>1, <1>3, <2>1 DEF Below
<1>9. Rise(txs)
  <2>1. ASSUME NEW p \in 1..n, NEW q \in 1..n, p < q, Transfer(txs[p]), Transfer(txs[q]),
               Tx[txs[p]].from = Tx[txs[q]].from
        PROVE  Tx[txs[p]].nonce < Tx[txs[q]].nonce
    <3>1. p \in 0..n /\ q - 1 \in p..n
      BY <1>3, <2>1
    <3> DEFINE a == Tx[txs[p]].from
               x == Tx[txs[p]].nonce
               y == Tx[txs[q]].nonce
    <3>2. a \in Accounts /\ x \in Nat /\ f[p].nonce[a] = x + 1
      BY <1>6, <2>1
    <3>3. y \in Nat /\ f[q - 1].nonce[a] = y
      BY <1>6, <2>1
    <3> HIDE DEF a, x, y
    <3>4. f[p].nonce[a] <= f[q - 1].nonce[a]
      BY <1>5, <3>1, <3>2
    <3>5. x < y
      BY <3>2, <3>3, <3>4
    <3> QED BY <3>5 DEF a, x, y
  <2> QED BY <1>3, <2>1 DEF Rise
<1> QED BY <1>7, <1>8, <1>9

-----------------------------------------------------------------------------
(* What was paid out. *)

\* g gives the numbers from m to n.
Numbers(g, m, n) == g = [i \in m..n |-> g[i]] /\ \A i \in m..n : g[i] \in Int

\* Sums of numbers, of none and of one more
LEMMA SumOf ==
  ASSUME NEW m \in Int, NEW n \in Int, NEW g, Numbers(g, m, n)
  PROVE  SumFunction(g) = SumFunctionOnSet(g, m..n) /\ SumFunction(g) \in Int
<1> DEFINE A == m..n
<1>1. DOMAIN g = A /\ \A i \in A : g[i] \in Int
  <2>1. DOMAIN [i \in A |-> g[i]] = A
    OBVIOUS
  <2> QED BY <2>1 DEF Numbers
<1>2. Summable(g, A)
  BY <1>1, FS_Interval DEF Summable
<1> HIDE DEF A
<1>3. SumFunctionOnSet(g, A) \in Int
  BY <1>2, SumType
<1> QED BY <1>1, <1>3 DEF SumFunction, A

LEMMA SumNone ==
  ASSUME NEW m \in Int, NEW n \in Int, n < m, NEW g, Numbers(g, m, n)
  PROVE  SumFunction(g) = 0
<1>1. m..n = {}
  OBVIOUS
<1>2. DOMAIN g = {}
  BY <1>1 DEF Numbers
<1> QED BY <1>2, SumEmpty DEF SumFunction

LEMMA SumOneMore ==
  ASSUME NEW m \in Int, NEW n \in Int, m <= n + 1,
         NEW g, Numbers(g, m, n), NEW h, NEW k, k = n + 1, Numbers(h, m, k),
         \A i \in m..n : h[i] = g[i]
  PROVE  SumFunction(h) = SumFunction(g) + h[k]
<1>1. k \in Int /\ \A i \in m..(n + 1) : h[i] \in Int
  BY DEF Numbers
<1>2. SumFunction(g) = SumFunctionOnSet(g, m..n)
  BY SumOf
<1>3. SumFunction(h) = SumFunctionOnSet(h, m..k)
  BY <1>1, SumOf
<1>4. SumFunctionOnSet(h, m..(n + 1)) = SumFunctionOnSet(h, m..n) + h[n + 1]
  BY <1>1, SumNext
<1>5. SumFunctionOnSet(h, m..n) = SumFunctionOnSet(g, m..n)
  <2> DEFINE A == m..n
  <2>1. Summable(g, A) /\ Summable(h, A) /\ \A i \in A : h[i] = g[i]
    BY FS_Interval DEF Summable, Numbers
  <2> HIDE DEF A
  <2>2. SumFunctionOnSet(h, A) = SumFunctionOnSet(g, A)
    BY <2>1, SumSame
  <2> QED BY <2>2 DEF A
<1> QED BY <1>2, <1>3, <1>4, <1>5

\* The rewards of n blocks, and the fees of the blocks of c after the first r
Rewards(n) == SumFunction([i \in 1..n |-> Reward(i)])

FeesAfter(c, r) == SumFunction([i \in (r + 1)..Len(c) |-> Fees(c[i].txs)])

LEMMA RewardsNone == Rewards(0) = 0
<1> DEFINE g == [i \in 1..0 |-> Reward(i)]
<1>1. Numbers(g, 1, 0)
  BY DEF Numbers
<1> HIDE DEF g
<1>2. SumFunction(g) = 0
  BY <1>1, SumNone
<1> QED BY <1>2 DEF Rewards, g

LEMMA RewardsNext ==
  ASSUME NEW n \in Nat
  PROVE  /\ Rewards(n + 1) = Rewards(n) + Reward(n + 1)
         /\ Rewards(n) \in Int
<1> DEFINE k == n + 1
           g == [i \in 1..n |-> Reward(i)]
           h == [i \in 1..k |-> Reward(i)]
<1>1. \A i \in 1..k : Reward(i) \in Int
  BY RewardIs
<1>2. Numbers(g, 1, n) /\ Numbers(h, 1, k)
  BY <1>1 DEF Numbers
<1>3. /\ \A i \in 1..n : h[i] = g[i]
      /\ h[k] = Reward(k)
  OBVIOUS
<1>4. k = n + 1 /\ 1 <= n + 1
  OBVIOUS
<1> HIDE DEF g, h, k
<1>5. SumFunction(h) = SumFunction(g) + h[k]
  BY <1>2, <1>3, <1>4, SumOneMore
<1>6. SumFunction(g) \in Int
  BY <1>2, SumOf
<1> QED BY <1>3, <1>5, <1>6 DEF Rewards, g, h, k

LEMMA FeesType ==
  ASSUME NEW txs \in Seq(Txs)
  PROVE  Fees(txs) \in Int
<1> DEFINE g == [i \in DOMAIN txs |-> Tx[txs[i]].fee]
<1>1. DOMAIN txs = 1..Len(txs) /\ Len(txs) \in Nat
  OBVIOUS
<1>2. \A i \in 1..Len(txs) : Tx[txs[i]].fee \in Int
  BY TxAssumption
<1>3. Numbers(g, 1, Len(txs))
  BY <1>1, <1>2 DEF Numbers
<1> HIDE DEF g
<1>4. SumFunction(g) \in Int
  BY <1>1, <1>3, SumOf
<1> QED BY <1>4 DEF Fees, g

LEMMA FeesNone ==
  ASSUME NEW c, Len(c) \in Nat
  PROVE  FeesAfter(c, Len(c)) = 0
<1> DEFINE n == Len(c)
           m == n + 1
           g == [i \in m..n |-> Fees(c[i].txs)]
<1>1. m \in Int /\ n \in Int /\ n < m
  OBVIOUS
<1>2. Numbers(g, m, n)
  BY DEF Numbers
<1> HIDE DEF g, m, n
<1>3. SumFunction(g) = 0
  BY <1>1, <1>2, SumNone
<1> QED BY <1>3 DEF FeesAfter, g, m, n

LEMMA FeesNext ==
  ASSUME NEW c, NEW d, Len(c) \in Nat, Len(d) = Len(c) + 1,
         NEW r \in 0..Len(c), \A i \in 1..Len(c) : BlockOk(c[i]) /\ d[i] = c[i],
         BlockOk(d[Len(d)])
  PROVE  /\ FeesAfter(d, r) = FeesAfter(c, r) + Fees(d[Len(d)].txs)
         /\ FeesAfter(c, r) \in Int
<1> DEFINE n == Len(c)
           m == r + 1
           g == [i \in m..n |-> Fees(c[i].txs)]
           k == n + 1
           h == [i \in m..k |-> Fees(d[i].txs)]
<1>1. m \in Int /\ n \in Int /\ m <= n + 1 /\ k = n + 1 /\ k = Len(d)
  OBVIOUS
<1>2. \A i \in m..n : Fees(c[i].txs) \in Int /\ Fees(d[i].txs) = Fees(c[i].txs)
  <2> TAKE i \in m..n
  <2>1. i \in 1..Len(c)
    OBVIOUS
  <2>2. c[i].txs \in Seq(Txs) /\ d[i] = c[i]
    BY <2>1 DEF BlockOk
  <2> QED BY <2>2, FeesType
<1>3. Fees(d[k].txs) \in Int
  <2>1. d[k].txs \in Seq(Txs)
    BY <1>1 DEF BlockOk
  <2> QED BY <2>1, FeesType
<1> HIDE DEF m, n, k
<1>4. \A i \in m..k : i \in m..n \/ i = k
  BY <1>1
<1>5. Numbers(g, m, n) /\ Numbers(h, m, k)
  BY <1>2, <1>3, <1>4 DEF Numbers
<1>6. (\A i \in m..n : h[i] = g[i]) /\ h[k] = Fees(d[k].txs)
  <2>1. k \in m..k /\ \A i \in m..n : i \in m..k
    BY <1>1
  <2> QED BY <1>2, <2>1
<1> HIDE DEF g, h
<1>7. SumFunction(h) = SumFunction(g) + h[k]
  BY <1>1, <1>5, <1>6, SumOneMore
<1>8. SumFunction(g) \in Int
  BY <1>1, <1>5, SumOf
<1>9. FeesAfter(c, r) = SumFunction(g)
  BY DEF FeesAfter, g, m, n
<1>10. FeesAfter(d, r) = SumFunction(h)
  <2>1. FeesAfter(d, r) = SumFunction([i \in (r + 1)..Len(d) |-> Fees(d[i].txs)])
    BY DEF FeesAfter
  <2> QED BY <1>1, <2>1 DEF h, m
<1> QED BY <1>1, <1>6, <1>7, <1>8, <1>9, <1>10

\* Genesis endows the main king with the premine.
LEMMA GenesisCoins ==
  /\ State(TRUE, Endowed, NoNonces) \in States
  /\ Coins(State(TRUE, Endowed, NoNonces)) = Premine
  /\ SumFunction(Endowed) = Premine
<1> DEFINE z == [a \in Accounts |-> 0]
<1>1. Endowed \in [Accounts -> Int] /\ NoNonces \in [Accounts -> Nat] /\ z \in [Accounts -> Int]
  BY NumbersAssumption DEF Endowed, NoNonces
<1>2. State(TRUE, Endowed, NoNonces) \in States
  BY <1>1, StateType
<1>3. IsFiniteSet(Accounts) /\ MainKing \in Accounts /\ Premine \in Int
  BY TxAssumption, NumbersAssumption
<1>4. SumFunctionOnSet(z, Accounts) = 0
  <2> DEFINE T == {s \in SUBSET Accounts : SumFunctionOnSet(z, s) # 0}
  <2> SUFFICES ASSUME T # {} PROVE FALSE
    OBVIOUS
  <2>1. PICK s \in T : \A x \in s : s \ {x} \notin T
    <3>1. T \in SUBSET (SUBSET Accounts)
      OBVIOUS
    <3> HIDE DEF T
    <3> QED BY <1>3, <3>1, SetLeast
  <2>2. s \in SUBSET Accounts /\ s # {}
    BY <2>1, SumEmpty
  <2>3. PICK x \in s : TRUE
    BY <2>2
  <2>4. Summable(z, s) /\ z[x] = 0
    BY <1>3, <2>2, FS_Subset DEF Summable
  <2>5. SumFunctionOnSet(z, s \ {x}) = 0
    BY <2>1, <2>2
  <2> HIDE DEF z
  <2>6. SumFunctionOnSet(z, s) = z[x] + SumFunctionOnSet(z, s \ {x})
    BY <2>4, SumTake
  <2> QED BY <2>1, <2>4, <2>5, <2>6
<1>5. SumFunctionOnSet(Endowed, Accounts) = Premine
  <2>1. /\ \A a \in Accounts \ {MainKing} : Endowed[a] = z[a]
        /\ Endowed[MainKing] = Premine /\ z[MainKing] = 0
    BY <1>3 DEF Endowed
  <2> HIDE DEF z
  <2>2. SumFunctionOnSet(Endowed, Accounts)
          = SumFunctionOnSet(z, Accounts) + (Endowed[MainKing] - z[MainKing])
    BY <1>1, <1>3, <2>1, SumChanged
  <2> QED BY <1>3, <1>4, <2>1, <2>2
<1>6. Coins(State(TRUE, Endowed, NoNonces)) = SumFunctionOnSet(Endowed, Accounts)
  <2>1. State(TRUE, Endowed, NoNonces).balance = Endowed
    BY DEF State
  <2> QED BY <1>2, <2>1, CoinsOf
<1>7. SumFunction(Endowed) = SumFunctionOnSet(Endowed, Accounts)
  BY DEF SumFunction, Endowed
<1> QED BY <1>2, <1>5, <1>6, <1>7

-----------------------------------------------------------------------------
(* The supply that the node reports. *)

\* The period of height n is the only one that holds n.
LEMMA Period ==
  ASSUME NEW n \in Nat, NEW k \in Nat, NEW b \in Nat \ {0}
  PROVE  k * b <= n /\ n < k * b + b <=> k = n \div b
<1> DEFINE q == n \div b
<1>1. q \in Nat /\ q * b <= n /\ n < q * b + b
  OBVIOUS
<1> HIDE DEF q
<1>2. ASSUME NEW i \in Nat, NEW j \in Nat, i < j PROVE i * b + b <= j * b
  <2> DEFINE d == j - i - 1
  <2>1. d \in Nat /\ j = d + i + 1
    BY <1>2
  <2> HIDE DEF d
  <2>2. d * b \in Nat /\ j * b = d * b + i * b + b
    BY <2>1
  <2>3. i * b \in Nat
    OBVIOUS
  <2> QED BY <2>2, <2>3
<1>3. k * b \in Nat /\ q * b \in Nat
  BY <1>1
<1>4. CASE k < q
  BY <1>1, <1>2, <1>3, <1>4 DEF q
<1>5. CASE q < k
  BY <1>1, <1>2, <1>3, <1>5 DEF q
<1>6. CASE k = q
  BY <1>1, <1>6 DEF q
<1> QED BY <1>1, <1>4, <1>5, <1>6

\* One more block is one more block of its period.
LEMMA BlocksNext ==
  ASSUME NEW n \in Nat, NEW k \in Nat
  PROVE  /\ BlocksOf(k, n) \in Int
         /\ BlocksOf(k, n + 1) =
              IF k = n \div BlocksPerHalving THEN BlocksOf(k, n) + 1 ELSE BlocksOf(k, n)
<1> DEFINE b == BlocksPerHalving
           first == k * b
<1>1. b \in Nat \ {0} /\ first \in Nat
  BY NumbersAssumption
<1>2. first <= n /\ n < first + b <=> k = n \div b
  BY <1>1, Period
<1>3. \A m \in Nat : BlocksOf(k, m) = IF first >= m THEN 0 ELSE IF first + b <= m THEN b ELSE m - first
  BY DEF BlocksOf
<1> DEFINE q == n \div b
<1>4. BlocksOf(k, n + 1) = IF k = q THEN BlocksOf(k, n) + 1 ELSE BlocksOf(k, n)
  <2> HIDE DEF first, q, b
  <2>1. first <= n /\ n < first + b <=> k = q
    BY <1>2 DEF q
  <2>2. n + 1 \in Nat
    OBVIOUS
  <2> QED BY <1>1, <1>3, <2>1, <2>2
<1>5. BlocksOf(k, n) \in Int
  <2> HIDE DEF first, b
  <2> QED BY <1>1, <1>3
<1> QED BY <1>4, <1>5

\* The sum over the periods
Periods(n, m) == SumFunctionOnSet([k \in 0..n |-> BlocksOf(k, m) * RewardAfter(k)], 0..n)

LEMMA PeriodsNext ==
  ASSUME NEW n \in Nat
  PROVE  /\ Periods(n + 1, n + 1) = Periods(n, n) + Reward(n)
         /\ Periods(n, n) \in Int
<1> DEFINE A == 0..n
           k1 == n + 1
           q == n \div BlocksPerHalving
           g == [k \in A |-> BlocksOf(k, n) * RewardAfter(k)]
           h == [k \in A |-> BlocksOf(k, n + 1) * RewardAfter(k)]
           f == [k \in 0..k1 |-> BlocksOf(k, n + 1) * RewardAfter(k)]
<1>1. n + 1 \in Nat /\ IsFiniteSet(A)
  BY FS_Interval
<1>2. q \in A
  BY NumbersAssumption
<1>3. /\ \A k \in Nat : BlocksOf(k, n) \in Int /\ BlocksOf(k, n + 1) \in Int
      /\ \A k \in Nat : RewardAfter(k) \in Int
  <2>1. ASSUME NEW k \in Nat PROVE BlocksOf(k, n) \in Int
    BY BlocksNext
  <2>2. ASSUME NEW k \in Nat PROVE BlocksOf(k, n + 1) \in Int
    <3>1. BlocksOf(k, k1) \in Int
      <4>1. k1 \in Nat
        BY <1>1
      <4> HIDE DEF k1
      <4> QED BY <4>1, BlocksNext
    <3> QED BY <3>1
  <2>3. ASSUME NEW k \in Nat PROVE RewardAfter(k) \in Int
    BY RewardType
  <2> QED BY <2>1, <2>2, <2>3
<1>4. \A k \in 0..(n + 1) : BlocksOf(k, n) * RewardAfter(k) \in Int
                              /\ BlocksOf(k, n + 1) * RewardAfter(k) \in Int
  <2> TAKE k \in 0..(n + 1)
  <2>1. k \in Nat
    OBVIOUS
  <2> DEFINE x == BlocksOf(k, n)
             y == BlocksOf(k, n + 1)
             z == RewardAfter(k)
  <2>2. x \in Int /\ y \in Int /\ z \in Int
    BY <1>3, <2>1
  <2> HIDE DEF x, y, z
  <2>3. x * z \in Int /\ y * z \in Int
    BY <2>2
  <2> QED BY <2>3 DEF x, y, z
<1>5. g \in [A -> Int] /\ h \in [A -> Int] /\ f \in [0..k1 -> Int]
  BY <1>4
<1>6. \A k \in A \ {q} : h[k] = g[k]
  <2> TAKE k \in A \ {q}
  <2>1. BlocksOf(k, n + 1) = BlocksOf(k, n)
    BY BlocksNext
  <2> QED BY <2>1
<1>7. h[q] - g[q] = Reward(n)
  <2> DEFINE x == BlocksOf(q, n)
             z == RewardAfter(q)
  <2>1. q \in Nat /\ BlocksOf(q, n + 1) = x + 1
    BY <1>2, BlocksNext
  <2>2. x \in Int /\ z \in Int
    BY <1>3, <2>1
  <2>3. h[q] = (x + 1) * z /\ g[q] = x * z
    BY <1>2, <2>1
  <2>4. Reward(n) = z
    BY DEF Reward
  <2> HIDE DEF x, z, q, g, h
  <2>5. (x + 1) * z - x * z = z
    <3>1. (x + 1) * z = x * z + z /\ x * z \in Int
      BY <2>2
    <3> QED BY <2>2, <3>1
  <2> QED BY <2>3, <2>4, <2>5
<1>8. f[k1] = 0 /\ \A k \in A : f[k] = h[k]
  <2>1. BlocksOf(n + 1, n + 1) = 0
    <3>1. (n + 1) * BlocksPerHalving >= n + 1
      <4> DEFINE c == BlocksPerHalving - 1
      <4>1. c \in Nat /\ BlocksPerHalving = c + 1
        BY NumbersAssumption
      <4> HIDE DEF c
      <4>2. (n + 1) * c \in Nat /\ (n + 1) * (c + 1) = (n + 1) * c + (n + 1)
        BY <4>1
      <4> QED BY <4>1, <4>2
    <3> QED BY <3>1 DEF BlocksOf
  <2>2. RewardAfter(n + 1) \in Int /\ n + 1 \in 0..k1
    BY <1>1, <1>3
  <2>3. f[k1] = 0
    BY <2>1, <2>2
  <2> QED BY <2>3
<1>9. SumFunctionOnSet(f, 0..k1) = SumFunctionOnSet(f, A) + f[k1]
  <2>1. 0 <= n + 1 /\ 0 \in Int /\ n \in Int
    OBVIOUS
  <2>2. \A i \in 0..(n + 1) : f[i] \in Int
    BY <1>5
  <2> HIDE DEF f
  <2>3. SumFunctionOnSet(f, 0..(n + 1)) = SumFunctionOnSet(f, 0..n) + f[n + 1]
    BY <2>1, <2>2, SumNext
  <2> QED BY <2>3
<1> HIDE DEF q, g, h, f
<1>10. SumFunctionOnSet(f, A) = SumFunctionOnSet(h, A)
  <2>1. Summable(f, A) /\ Summable(h, A)
    BY <1>1, <1>5, <1>8 DEF Summable
  <2>2. \A k \in A : f[k] = h[k]
    BY <1>8
  <2> HIDE DEF A
  <2> QED BY <2>1, <2>2, SumSame
<1>11. SumFunctionOnSet(h, A) = SumFunctionOnSet(g, A) + (h[q] - g[q])
  <2> HIDE DEF A
  <2> QED BY <1>1, <1>2, <1>5, <1>6, SumChanged
<1>12. SumFunctionOnSet(g, A) \in Int
  <2>1. Summable(g, A)
    BY <1>1, <1>5 DEF Summable
  <2> HIDE DEF A
  <2> QED BY <2>1, SumType
<1>13. Reward(n) \in Int
  BY RewardIs
<1>14. Periods(n + 1, n + 1) = SumFunctionOnSet(f, 0..k1)
  BY DEF Periods, f
<1>15. Periods(n, n) = SumFunctionOnSet(g, A)
  BY DEF Periods, g
<1> HIDE DEF A, k1
<1>16. SumFunctionOnSet(f, 0..k1) = SumFunctionOnSet(g, A) + Reward(n)
  BY <1>7, <1>8, <1>9, <1>10, <1>11, <1>12, <1>13
<1> QED BY <1>12, <1>14, <1>15, <1>16

\* It is ahead of what was paid out by one height.
LEMMA SupplyAhead ==
  ASSUME NEW n \in Nat
  PROVE  CirculatingSupply(n) - (Premine + Rewards(n)) = Reward(0) - Reward(n)
<1>1. ASSUME NEW m \in Nat PROVE CirculatingSupply(m) = Premine + Periods(m, m)
  <2> DEFINE g == [k \in 0..m |-> BlocksOf(k, m) * RewardAfter(k)]
  <2>1. DOMAIN g = 0..m
    OBVIOUS
  <2> HIDE DEF g
  <2>2. SumFunction(g) = SumFunctionOnSet(g, 0..m)
    BY <2>1 DEF SumFunction
  <2> QED BY <2>2 DEF CirculatingSupply, Periods, g
<1> DEFINE T == {m \in 0..n : Periods(m, m) - Rewards(m) = Reward(0) - Reward(m)}
<1>2. 0 \in T
  <2>1. Periods(0, 0) = 0
    <3> DEFINE g == [k \in 0..0 |-> BlocksOf(k, 0) * RewardAfter(k)]
    <3>1. BlocksOf(0, 0) = 0 /\ RewardAfter(0) \in Int
      <4>1. 0 * BlocksPerHalving = 0
        BY NumbersAssumption
      <4> QED BY <4>1, RewardType DEF BlocksOf
    <3>2. 0..0 = {0} /\ g[0] = 0
      BY <3>1
    <3>3. Summable(g, {0})
      BY <3>2, FS_Singleton DEF Summable
    <3> HIDE DEF g
    <3>4. SumFunctionOnSet(g, {0}) = g[0] + SumFunctionOnSet(g, {0} \ {0})
      BY <3>3, SumTake
    <3>5. {0} \ {0} = {}
      OBVIOUS
    <3>6. SumFunctionOnSet(g, {0}) = 0
      BY <3>2, <3>4, <3>5, SumEmpty
    <3> QED BY <3>2, <3>6 DEF Periods, g
  <2>2. Reward(0) \in Int
    BY RewardIs
  <2> QED BY <2>1, <2>2, RewardsNone
<1>3. ASSUME NEW m \in 0..n, m < n, m \in T PROVE m + 1 \in T
  <2> DEFINE p == Periods(m, m)
             r == Rewards(m)
             x == Reward(m)
             y == Reward(m + 1)
             z == Reward(0)
  <2>1. Periods(m + 1, m + 1) = p + x /\ p \in Int
    BY PeriodsNext
  <2>2. Rewards(m + 1) = r + y /\ r \in Int
    BY RewardsNext
  <2>3. x \in Int /\ y \in Int /\ z \in Int
    BY RewardIs
  <2>4. p - r = z - x
    BY <1>3
  <2> HIDE DEF p, r, x, y, z
  <2>5. (p + x) - (r + y) = z - y
    BY <2>1, <2>2, <2>3, <2>4
  <2>6. Periods(m + 1, m + 1) - Rewards(m + 1) = Reward(0) - Reward(m + 1)
    BY <2>1, <2>2, <2>5 DEF y, z
  <2> QED BY <1>3, <2>6
<1>4. \A m \in 0..n : m \in T
  <2> HIDE DEF T
  <2> QED BY <1>2, <1>3, UpTo
<1>5. Periods(n, n) - Rewards(n) = Reward(0) - Reward(n)
  BY <1>4
<1>6. Periods(n, n) \in Int /\ Rewards(n) \in Int /\ Premine \in Int
  BY PeriodsNext, RewardsNext, NumbersAssumption
<1>7. CirculatingSupply(n) - (Premine + Rewards(n)) = Periods(n, n) - Rewards(n)
  BY <1>1, <1>6
<1> QED BY <1>5, <1>7

-----------------------------------------------------------------------------
(* The invariant. *)

\* Nonces rise in every block of c and from one block to the next.
RisesAlong(c) ==
  /\ \A i \in DOMAIN c : Rise(c[i].txs)
  /\ \A i, j \in DOMAIN c : i < j => Precede(c[i].txs, c[j].txs)

LEMMA RisesAlongChain ==
  ASSUME \A i \in DOMAIN chain : i \in Int
  PROVE  NoTransferTwice <=> RisesAlong(chain)
<1>1. ASSUME NoTransferTwice PROVE RisesAlong(chain)
  <2>1. ASSUME NEW i \in DOMAIN chain PROVE Rise(chain[i].txs)
    BY <1>1 DEF NoTransferTwice, Rise, Transfer
  <2>2. ASSUME NEW i \in DOMAIN chain, NEW j \in DOMAIN chain, i < j
        PROVE  Precede(chain[i].txs, chain[j].txs)
    BY <1>1, <2>2 DEF NoTransferTwice, Precede, Transfer
  <2> QED BY <2>1, <2>2 DEF RisesAlong
<1>2. ASSUME RisesAlong(chain) PROVE NoTransferTwice
  <2> SUFFICES ASSUME NEW i \in DOMAIN chain, NEW j \in DOMAIN chain,
                      NEW p \in DOMAIN chain[i].txs, NEW q \in DOMAIN chain[j].txs,
                      i < j \/ (i = j /\ p < q),
                      Tx[chain[i].txs[p]].from = Tx[chain[j].txs[q]].from,
                      ~Tx[chain[i].txs[p]].data, ~Tx[chain[j].txs[q]].data
               PROVE  Tx[chain[i].txs[p]].nonce < Tx[chain[j].txs[q]].nonce
    BY DEF NoTransferTwice
  <2>1. CASE i < j
    <3>1. Precede(chain[i].txs, chain[j].txs)
      BY <1>2, <2>1 DEF RisesAlong
    <3> QED BY <3>1 DEF Precede, Transfer
  <2>2. CASE i = j /\ p < q
    <3>1. Rise(chain[i].txs)
      BY <1>2 DEF RisesAlong
    <3> QED BY <2>2, <3>1 DEF Rise, Transfer
  <2> QED BY <2>1, <2>2
<1> QED BY <1>1, <1>2

\* The coins of the chain c above genesis, with the fees of the blocks above r
Paid(c, r) == Premine + Rewards(Len(c)) + FeesAfter(c, r)

LEMMA CoinsMeans ==
  ASSUME Len(chain) \in Nat
  PROVE  CoinsAccountedFor <=> SumFunction(balance) = Paid(chain, replayed)
<1>1. CirculatingSupply(Len(chain)) - (Premine + Rewards(Len(chain)))
        = Reward(0) - Reward(Len(chain))
  BY SupplyAhead
<1> QED BY <1>1 DEF CoinsAccountedFor, Paid, Rewards, FeesAfter

\* The parts of the invariant, of any chain and accounts
ChainOk(c) ==
  /\ Len(c) \in Nat /\ c \in Seq({c[i] : i \in DOMAIN c})
  /\ \A i \in 1..Len(c) : BlockOk(c[i])
  /\ RisesAlong(c)

UsedIn(c, n) == \A i \in 1..Len(c) : Below(c[i].txs, n)

AccountsOk(b, n, c, r) ==
  /\ b \in [Accounts -> Int] /\ n \in [Accounts -> Nat] /\ r \in 0..Len(c)
  /\ SumFunction(b) = Paid(c, r) /\ UsedIn(c, n)

RestOk ==
  /\ offered = Genesis \/ BlockOk(offered)
  /\ pool \subseteq Txs /\ IsFiniteSet(pool)
  /\ king \in DOMAIN Kings

LEMMA InvariantParts ==
  CoinInvariant <=> ChainOk(chain) /\ AccountsOk(balance, nonce, chain, replayed) /\ RestOk
<1>1. chain \in Seq({chain[i] : i \in DOMAIN chain})
        => /\ Len(chain) \in Nat /\ DOMAIN chain = 1..Len(chain)
           /\ \A i \in DOMAIN chain : i \in Int
  OBVIOUS
<1>2. chain \in Seq({chain[i] : i \in DOMAIN chain}) =>
        /\ NoTransferTwice <=> RisesAlong(chain)
        /\ CoinsAccountedFor <=> SumFunction(balance) = Paid(chain, replayed)
  BY <1>1, RisesAlongChain, CoinsMeans
<1> QED BY <1>1, <1>2
   DEF CoinInvariant, TypeOK, NoncesUsed, ChainOk, UsedIn, AccountsOk, RestOk

\* A chain with one more block, and with fewer
LEMMA SeqSelf ==
  ASSUME NEW S, NEW c \in Seq(S)
  PROVE  /\ c \in Seq({c[i] : i \in DOMAIN c})
         /\ Len(c) \in Nat /\ DOMAIN c = 1..Len(c)
OBVIOUS

\* Transfers below the next nonces come before those that have them.
LEMMA BelowPrecedes ==
  ASSUME NEW txs \in Seq(Txs), NEW us \in Seq(Txs), NEW n \in [Accounts -> Nat],
         Below(txs, n), Above(us, n)
  PROVE  Precede(txs, us)
<1> SUFFICES ASSUME NEW p \in DOMAIN txs, NEW q \in DOMAIN us,
                    Transfer(txs[p]), Transfer(us[q]), Tx[txs[p]].from = Tx[us[q]].from
             PROVE  Tx[txs[p]].nonce < Tx[us[q]].nonce
  BY DEF Precede
<1>1. txs[p] \in Txs /\ us[q] \in Txs
  OBVIOUS
<1> DEFINE a == Tx[txs[p]].from
           x == Tx[txs[p]].nonce
           y == Tx[us[q]].nonce
<1>2. a \in Accounts /\ x \in Nat /\ y \in Nat
  BY <1>1, TxAssumption
<1>3. x < n[a] /\ n[a] <= y
  BY DEF Below, Above
<1>4. n[a] \in Nat
  BY <1>2
<1> HIDE DEF a, x, y
<1>5. x < y
  BY <1>2, <1>3, <1>4
<1> QED BY <1>5 DEF x, y

LEMMA ChainLonger ==
  ASSUME NEW c, ChainOk(c), NEW b, BlockOk(b), NEW n \in [Accounts -> Nat],
         UsedIn(c, n), Above(b.txs, n), Rise(b.txs)
  PROVE  /\ ChainOk(Append(c, b)) /\ Len(Append(c, b)) = Len(c) + 1
         /\ \A i \in 1..Len(c) : Append(c, b)[i] = c[i]
         /\ Append(c, b)[Len(c) + 1] = b
<1> DEFINE S == {c[i] : i \in DOMAIN c} \cup {b}
           d == Append(c, b)
<1>1. c \in Seq(S) /\ b \in S /\ Len(c) \in Nat /\ DOMAIN c = 1..Len(c)
  <2>1. c \in Seq({c[i] : i \in DOMAIN c})
    BY DEF ChainOk
  <2> QED BY <2>1
<1> HIDE DEF S
<1>2. /\ d \in Seq(S) /\ Len(d) = Len(c) + 1
      /\ \A i \in 1..Len(c) : d[i] = c[i]
      /\ d[Len(c) + 1] = b
  BY <1>1
<1> HIDE DEF d
<1>3. d \in Seq({d[i] : i \in DOMAIN d}) /\ DOMAIN d = 1..Len(d)
  BY <1>2, SeqSelf
<1>4. \A i \in 1..Len(d) : i \in 1..Len(c) \/ i = Len(c) + 1
  BY <1>1, <1>2
<1>5. \A i \in 1..Len(d) : BlockOk(d[i])
  BY <1>2, <1>4 DEF ChainOk
<1>6. RisesAlong(d)
  <2>1. \A i \in DOMAIN d : Rise(d[i].txs)
    BY <1>1, <1>2, <1>3, <1>4 DEF ChainOk, RisesAlong
  <2>2. ASSUME NEW i \in DOMAIN d, NEW j \in DOMAIN d, i < j
        PROVE  Precede(d[i].txs, d[j].txs)
    <3>1. i \in 1..Len(c) /\ d[i] = c[i]
      BY <1>1, <1>2, <1>3, <1>4, <2>2
    <3>2. CASE j \in 1..Len(c)
      BY <1>1, <1>2, <2>2, <3>1, <3>2 DEF ChainOk, RisesAlong
    <3>3. CASE j = Len(c) + 1
      <4>1. c[i].txs \in Seq(Txs) /\ b.txs \in Seq(Txs) /\ Below(c[i].txs, n)
        BY <3>1 DEF ChainOk, BlockOk, UsedIn
      <4>2. Precede(c[i].txs, b.txs)
        BY <4>1, BelowPrecedes
      <4> QED BY <1>2, <3>1, <3>3, <4>2
    <3> QED BY <1>3, <1>4, <3>2, <3>3
  <2> QED BY <2>1, <2>2 DEF RisesAlong
<1>7. ChainOk(d)
  BY <1>1, <1>2, <1>3, <1>5, <1>6 DEF ChainOk
<1> QED BY <1>2, <1>7 DEF d

LEMMA ChainShorter ==
  ASSUME NEW c, ChainOk(c), NEW h \in 0..Len(c)
  PROVE  /\ ChainOk(SubSeq(c, 1, h)) /\ Len(SubSeq(c, 1, h)) = h
         /\ \A i \in 1..h : SubSeq(c, 1, h)[i] = c[i]
<1> DEFINE S == {c[i] : i \in DOMAIN c}
           d == SubSeq(c, 1, h)
<1>1. c \in Seq(S) /\ Len(c) \in Nat /\ DOMAIN c = 1..Len(c)
  <2>1. c \in Seq({c[i] : i \in DOMAIN c})
    BY DEF ChainOk
  <2> QED BY <2>1
<1> HIDE DEF S
<1>2. d \in Seq(S) /\ Len(d) = h /\ \A i \in 1..h : d[i] = c[i]
  BY <1>1
<1> HIDE DEF d
<1>3. d \in Seq({d[i] : i \in DOMAIN d}) /\ DOMAIN d = 1..h
  BY <1>2, SeqSelf
<1>4. \A i \in 1..h : i \in 1..Len(c) /\ d[i] = c[i]
  BY <1>1, <1>2
<1>5. \A i \in 1..h : BlockOk(d[i])
  BY <1>4 DEF ChainOk
<1>6. RisesAlong(d)
  BY <1>1, <1>3, <1>4 DEF ChainOk, RisesAlong
<1>7. ChainOk(d)
  BY <1>2, <1>3, <1>5, <1>6 DEF ChainOk
<1> QED BY <1>2, <1>7 DEF d

\* What a replay computes, when no block fails
LEMMA ReplayedKeeps ==
  ASSUME ChainOk(chain), king \in DOMAIN Kings, NEW h \in 0..Len(chain), Replayed(h).ok
  PROVE  /\ Replayed(h) \in States /\ Coins(Replayed(h)) = Premine + Rewards(h)
         /\ \A j \in 1..h : Below(chain[j].txs, Replayed(h).nonce)
<1>1. h \in Nat /\ DOMAIN chain = 1..Len(chain) /\ \A i \in 1..h : i \in 1..Len(chain)
  BY DEF ChainOk
<1>2. \A i \in 1..h : BlockOk(chain[i])
  BY <1>1 DEF ChainOk
<1>3. PICK f \in [0..h -> States] :
        /\ f[0] = State(TRUE, Endowed, NoNonces) /\ Replayed(h) = f[h]
        /\ \A i \in 1..h : f[i] = ReplayStep(f[i - 1], i)
  BY <1>1, <1>2, ReplayedSteps
<1> DEFINE T == {i \in 0..h :
                   f[i].ok => /\ Coins(f[i]) = Premine + Rewards(i)
                              /\ \A j \in 1..i : Below(chain[j].txs, f[i].nonce)}
<1>4. 0 \in T
  <2>1. Coins(f[0]) = Premine
    BY <1>3, GenesisCoins
  <2>2. Coins(f[0]) = Premine + Rewards(0)
    BY <2>1, RewardsNone, NumbersAssumption
  <2> QED BY <1>1, <2>2
<1>5. ASSUME NEW i \in 0..h, i < h, i \in T PROVE i + 1 \in T
  <2>1. i + 1 \in 1..h /\ (i + 1) - 1 = i /\ i + 1 \in 0..h /\ i + 1 \in Nat
    BY <1>1, <1>5
  <2> DEFINE b == chain[i + 1]
             st == f[i]
             after == Tried(st, b.txs)
             final == DistributeRewards(after, b.miner, Reward(i + 1), Kings[king])
  <2>2. st \in States /\ b.txs \in Seq(Txs) /\ b.miner \in Accounts /\ BlockOk(b)
    BY <1>2, <2>1 DEF BlockOk
  <2>3. Kings[king] \in Accounts /\ Reward(i + 1) \in Int
    BY <2>1, KingType, RewardIs
  <2>4. f[i + 1] = IF st.ok THEN (IF after.ok THEN final ELSE after) ELSE st
    <3>1. f[i + 1] = ReplayStep(f[(i + 1) - 1], i + 1)
      BY <1>3, <2>1
    <3> QED BY <2>1, <3>1 DEF ReplayStep, Replay
  <2>5. after \in States /\ Coins(after) = Coins(st)
    BY <2>2, TriedType
  <2>6. /\ final \in States /\ Coins(final) = Coins(after) + Reward(i + 1)
        /\ final.ok = after.ok /\ final.nonce = after.nonce
    <3> DEFINE miner == b.miner
               r == Reward(i + 1)
               k == Kings[king]
    <3>1. miner \in Accounts /\ r \in Int /\ k \in Accounts
      BY <2>2, <2>3
    <3> HIDE DEF after, miner, r, k
    <3>2. /\ DistributeRewards(after, miner, r, k) \in States
          /\ Coins(DistributeRewards(after, miner, r, k)) = Coins(after) + r
          /\ DistributeRewards(after, miner, r, k).ok = after.ok
          /\ DistributeRewards(after, miner, r, k).nonce = after.nonce
      BY <2>5, <3>1, RewardsAdd
    <3> QED BY <3>2 DEF miner, r, k
  <2>7. ASSUME f[i + 1].ok
        PROVE  /\ Coins(f[i + 1]) = Premine + Rewards(i + 1)
               /\ \A j \in 1..(i + 1) : Below(chain[j].txs, f[i + 1].nonce)
    <3> HIDE DEF after, final, b
    <3>1. st.ok /\ after.ok /\ f[i + 1] = final
      BY <2>4, <2>7
    <3>2. /\ Coins(st) = Premine + Rewards(i)
          /\ \A j \in 1..i : Below(chain[j].txs, st.nonce)
      BY <1>5, <3>1
    <3>3. Coins(final) = Premine + Rewards(i + 1)
      <4>1. Rewards(i + 1) = Rewards(i) + Reward(i + 1) /\ Rewards(i) \in Int
        <5>1. i \in Nat
          BY <1>1
        <5> QED BY <5>1, RewardsNext
      <4> QED BY <2>3, <2>5, <2>6, <3>2, <4>1, NumbersAssumption
    <3>4. ASSUME NEW j \in 1..i PROVE Below(chain[j].txs, after.nonce)
      <4>1. j \in 1..h /\ j < i + 1 /\ j \in DOMAIN chain /\ i + 1 \in DOMAIN chain
        BY <1>1, <2>1
      <4>2. chain[j].txs \in Seq(Txs) /\ Below(chain[j].txs, st.nonce)
        BY <1>2, <3>2, <4>1 DEF BlockOk
      <4>3. Precede(chain[j].txs, b.txs)
        BY <4>1 DEF ChainOk, RisesAlong, b
      <4> DEFINE us == chain[j].txs
      <4> HIDE DEF us
      <4>4. us \in Seq(Txs) /\ Below(us, st.nonce) /\ Precede(us, b.txs)
        BY <4>2, <4>3 DEF us
      <4>5. Below(us, after.nonce)
        BY <2>2, <4>4, TriedBelow DEF after
      <4> QED BY <4>5 DEF us
    <3>5. Below(b.txs, after.nonce)
      <4>1. Rise(b.txs)
        BY <1>1, <2>1 DEF ChainOk, RisesAlong, b
      <4>2. Tried(st, b.txs).ok
        BY <3>1 DEF after
      <4> QED BY <2>2, <4>1, <4>2, TriedBelowToo DEF after
    <3>6. \A j \in 1..(i + 1) : Below(chain[j].txs, after.nonce)
      <4>1. \A j \in 1..(i + 1) : j \in 1..i \/ j = i + 1
        OBVIOUS
      <4> QED BY <3>4, <3>5, <4>1 DEF b
    <3> QED BY <2>6, <3>1, <3>3, <3>6
  <2> QED BY <2>1, <2>7
<1>6. \A i \in 0..h : i \in T
  <2> HIDE DEF T
  <2> QED BY <1>1, <1>4, <1>5, UpTo
<1>7. h \in 0..h
  BY <1>1
<1>8. f[h].ok => /\ Coins(f[h]) = Premine + Rewards(h)
                 /\ \A j \in 1..h : Below(chain[j].txs, f[h].nonce)
  BY <1>6, <1>7
<1>9. f[h] \in States
  BY <1>7
<1> QED BY <1>3, <1>8, <1>9

\* Nonces that are used stay so when nonces go up.
LEMMA UsedStay ==
  ASSUME NEW c, ChainOk(c), NEW n \in [Accounts -> Nat], NEW k \in [Accounts -> Nat],
         UsedIn(c, n), \A a \in Accounts : n[a] <= k[a]
  PROVE  UsedIn(c, k)
<1> SUFFICES ASSUME NEW i \in 1..Len(c), NEW p \in DOMAIN c[i].txs, Transfer(c[i].txs[p])
             PROVE  Tx[c[i].txs[p]].nonce < k[Tx[c[i].txs[p]].from]
  BY DEF UsedIn, Below
<1> DEFINE t == c[i].txs[p]
<1>1. t \in Txs
  <2>1. c[i].txs \in Seq(Txs)
    BY DEF ChainOk, BlockOk
  <2> QED BY <2>1
<1>2. Tx[t].nonce < n[Tx[t].from]
  BY DEF UsedIn, Below
<1> HIDE DEF t
<1>3. Tx[t].from \in Accounts /\ Tx[t].nonce \in Nat
  BY <1>1, TxAssumption
<1>4. n[Tx[t].from] <= k[Tx[t].from] /\ n[Tx[t].from] \in Nat /\ k[Tx[t].from] \in Nat
  BY <1>3
<1>5. Tx[t].nonce < k[Tx[t].from]
  BY <1>2, <1>3, <1>4
<1> QED BY <1>5 DEF t

\* The accounts as they are
LEMMA LiveIs ==
  ASSUME balance \in [Accounts -> Int], nonce \in [Accounts -> Nat]
  PROVE  /\ Live \in States /\ Live.nonce = nonce
         /\ Coins(Live) = SumFunction(balance)
<1>1. Live.balance = balance /\ Live.nonce = nonce
  BY DEF Live, State
<1>2. Live \in States
  BY DEF Live, State, States
<1> QED BY <1>1, <1>2 DEF Coins

\* The next king, after a block that names a king
LEMMA KingAfterType ==
  ASSUME NEW b, BlockOk(b), Len(chain) \in Nat
  PROVE  KingAfter(b.king) \in DOMAIN Kings
<1> DEFINE aligned == CHOOSE i \in DOMAIN Kings : Kings[i] = b.king
<1>1. Kings \in Seq(Accounts) /\ DOMAIN Kings = 1..Len(Kings) /\ Len(Kings) \in Nat
  BY TxAssumption
<1>2. aligned \in DOMAIN Kings
  <2>1. \E i \in DOMAIN Kings : Kings[i] = b.king
    BY DEF BlockOk
  <2> QED BY <2>1
<1>3. NextKing(aligned) \in DOMAIN Kings
  <2> HIDE DEF aligned
  <2> QED BY <1>1, <1>2 DEF NextKing
<1>4. KingAfter(b.king) = NextKing(aligned) \/ KingAfter(b.king) = aligned
  BY DEF KingAfter
<1> HIDE DEF aligned
<1> QED BY <1>2, <1>3, <1>4

As == AccountsOk(balance, nonce, chain, replayed)

Parts == ChainOk(chain) /\ As /\ RestOk

LEMMA PartsNow == CoinInvariant <=> Parts
BY InvariantParts DEF Parts, As

LEMMA PartsNext == CoinInvariant' <=> Parts'
BY PartsNow, PTL

LEMMA ExecutionInit == Init => CoinInvariant
<1> SUFFICES ASSUME Init PROVE Parts
  BY PartsNow
<1>1. /\ balance = Endowed /\ nonce = NoNonces /\ chain = <<>> /\ offered = Genesis
      /\ pool = {} /\ king = 1 /\ replayed = 0
  BY DEF Init
<1>2. ChainOk(<<>>)
  BY DEF ChainOk, RisesAlong
<1>3. Endowed \in [Accounts -> Int] /\ NoNonces \in [Accounts -> Nat]
  BY NumbersAssumption DEF Endowed, NoNonces
<1>4. Paid(<<>>, 0) = Premine
  <2> DEFINE c == <<>>
  <2>1. Len(c) = 0
    OBVIOUS
  <2> HIDE DEF c
  <2>2. FeesAfter(c, 0) = 0
    BY <2>1, FeesNone
  <2>3. Paid(c, 0) = Premine
    BY <2>1, <2>2, RewardsNone, NumbersAssumption DEF Paid
  <2> QED BY <2>3 DEF c
<1>5. As
  <2>1. UsedIn(<<>>, NoNonces)
    BY DEF UsedIn
  <2> QED BY <1>1, <1>3, <1>4, <2>1, GenesisCoins DEF As, AccountsOk
<1>6. RestOk
  <2>1. 1 \in DOMAIN Kings
    BY TxAssumption
  <2> QED BY <1>1, <2>1, FS_EmptySet DEF RestOk
<1> QED BY <1>1, <1>2, <1>5, <1>6 DEF Parts

LEMMA SubmitKeeps ==
  ASSUME CoinInvariant, NEW t \in Txs, Submit(t)
  PROVE  CoinInvariant'
<1>1. ChainOk(chain) /\ As /\ RestOk
  BY PartsNow DEF Parts
<1>2. /\ pool' = pool \cup {t}
      /\ balance' = balance /\ nonce' = nonce /\ chain' = chain /\ offered' = offered
      /\ king' = king /\ replayed' = replayed
  BY DEF Submit, account
<1>3. pool' \subseteq Txs /\ IsFiniteSet(pool')
  BY <1>1, <1>2, FS_AddElement DEF RestOk
<1>4. ChainOk(chain)' /\ As' /\ RestOk'
  BY <1>1, <1>2, <1>3 DEF RestOk, As
<1> QED BY <1>4, PartsNext DEF Parts

LEMMA MineKeeps ==
  ASSUME CoinInvariant, NEW m \in Accounts, Mine(m)
  PROVE  CoinInvariant'
<1>1. ChainOk(chain) /\ As /\ RestOk
  BY PartsNow DEF Parts
<1>2. PICK txs \in Templates :
        offered' = [parent |-> Tip, txs |-> txs, miner |-> m, king |-> Kings[king],
                    root |-> Failed(Simulated(txs, m, Len(chain) + 1, Kings[king]))]
  BY DEF Mine
<1>3. /\ balance' = balance /\ nonce' = nonce /\ chain' = chain /\ pool' = pool
      /\ king' = king /\ replayed' = replayed
  BY DEF Mine, account
<1>4. txs \in Seq(Txs)
  <2> DEFINE n == Cardinality(pool)
  <2>1. n \in Nat /\ pool \subseteq Txs
    BY <1>1, FS_CardinalityType DEF RestOk
  <2>2. txs \in SetToSeqs(pool)
    BY DEF Templates
  <2>3. txs \in [1..n -> pool]
    BY <2>2 DEF SetToSeqs
  <2> HIDE DEF n
  <2> QED BY <2>1, <2>3
<1>5. BlockOk(offered')
  BY <1>1, <1>2, <1>4 DEF BlockOk, RestOk
<1>6. ChainOk(chain)' /\ As' /\ RestOk'
  BY <1>1, <1>3, <1>5 DEF RestOk, As
<1> QED BY <1>6, PartsNext DEF Parts

LEMMA ImportKeeps ==
  ASSUME CoinInvariant, Import(offered)
  PROVE  CoinInvariant'
<1> DEFINE b == offered
           n == Len(chain)
           st == Executed(b.txs)
           total == Reward(n + 1) + Fees(b.txs)
           final == DistributeRewards(st, b.miner, total, b.king)
<1>1. ChainOk(chain) /\ As /\ RestOk
  BY PartsNow DEF Parts
<1>2. BlockOk(b) /\ n \in Nat
  BY <1>1 DEF Import, RestOk, ChainOk
<1>3. /\ balance \in [Accounts -> Int] /\ nonce \in [Accounts -> Nat]
      /\ replayed \in 0..n
      /\ SumFunction(balance) = Paid(chain, replayed) /\ UsedIn(chain, nonce)
  BY <1>1 DEF As, AccountsOk
<1>4. offered' = offered /\ replayed' = replayed
  BY DEF Import
<1>5. b.txs \in Seq(Txs) /\ b.miner \in Accounts /\ b.king \in Accounts
  BY <1>2, KingType DEF BlockOk
<1>6. /\ Live \in States /\ Live.nonce = nonce /\ Coins(Live) = SumFunction(balance)
  BY <1>3, LiveIs
<1>7. /\ st \in States /\ Coins(st) = SumFunction(balance)
      /\ \A a \in Accounts : nonce[a] <= st.nonce[a]
  <2> HIDE DEF b
  <2> QED BY <1>5, <1>6, ExecutedKeeps
<1>8. UsedIn(chain, st.nonce) /\ st.nonce \in [Accounts -> Nat] /\ st.balance \in [Accounts -> Int]
  <2>1. st.nonce \in [Accounts -> Nat] /\ st.balance \in [Accounts -> Int]
    BY <1>7 DEF States
  <2> HIDE DEF st
  <2> QED BY <1>1, <1>3, <1>7, <2>1, UsedStay
<1>9. CASE ~st.ok
  <2>1. /\ balance' = st.balance /\ nonce' = st.nonce
        /\ chain' = chain /\ pool' = pool /\ king' = king
    BY <1>9 DEF Import, SetAccounts
  <2>2. SumFunction(st.balance) = Paid(chain, replayed)
    BY <1>3, <1>7 DEF Coins
  <2>3. As'
    <3> HIDE DEF st, b, n
    <3>1. AccountsOk(st.balance, st.nonce, chain, replayed)
      BY <1>3, <1>8, <2>2 DEF AccountsOk, n
    <3> QED BY <1>4, <2>1, <3>1 DEF As
  <2>4. RestOk'
    BY <1>1, <1>4, <2>1 DEF RestOk
  <2> QED BY <1>1, <2>1, <2>3, <2>4, PartsNext DEF Parts
<1>10. CASE st.ok
  <2> DEFINE d == Append(chain, b)
  <2>1. /\ balance' = final.balance /\ nonce' = final.nonce
        /\ chain' = d /\ pool' = pool \ ToSet(b.txs) /\ king' = KingAfter(b.king)
    BY <1>10 DEF Import, SetAccounts
  <2>2. total \in Int /\ Reward(n + 1) \in Int /\ Fees(b.txs) \in Int
    BY <1>2, <1>5, RewardIs, FeesType
  <2>3. /\ final \in States /\ Coins(final) = Coins(st) + total
        /\ final.nonce = st.nonce
    <3> DEFINE miner == b.miner
               k == b.king
    <3>1. miner \in Accounts /\ k \in Accounts
      BY <1>5
    <3> HIDE DEF st, total, miner, k
    <3>2. /\ DistributeRewards(st, miner, total, k) \in States
          /\ Coins(DistributeRewards(st, miner, total, k)) = Coins(st) + total
          /\ DistributeRewards(st, miner, total, k).nonce = st.nonce
      BY <1>7, <2>2, <3>1, RewardsAdd
    <3> QED BY <3>2 DEF miner, k
  <2>4. Above(b.txs, nonce) /\ Rise(b.txs) /\ Below(b.txs, st.nonce)
    <3> HIDE DEF b
    <3> QED BY <1>5, <1>6, <1>10, ExecutedNonces
  <2>5. /\ ChainOk(d) /\ Len(d) = n + 1
        /\ \A i \in 1..n : d[i] = chain[i]
        /\ d[n + 1] = b
    <3> HIDE DEF b
    <3> QED BY <1>1, <1>2, <1>3, <2>4, ChainLonger
  <2>6. Paid(d, replayed) = Paid(chain, replayed) + total
    <3> DEFINE r == replayed
    <3>1. /\ Rewards(n + 1) = Rewards(n) + Reward(n + 1) /\ Rewards(n) \in Int
      BY <1>2, RewardsNext
    <3>2. /\ FeesAfter(d, r) = FeesAfter(chain, r) + Fees(d[Len(d)].txs)
          /\ FeesAfter(chain, r) \in Int
      <4>1. \A i \in 1..Len(chain) : BlockOk(chain[i]) /\ d[i] = chain[i]
        BY <1>1, <2>5 DEF ChainOk
      <4>2. BlockOk(d[Len(d)]) /\ Len(d) = Len(chain) + 1 /\ r \in 0..Len(chain)
        BY <1>2, <1>3, <2>5
      <4> HIDE DEF d, r
      <4> QED BY <1>2, <4>1, <4>2, FeesNext
    <3>3. Premine \in Int
      BY NumbersAssumption
    <3>4. Paid(d, r) = Premine + Rewards(n + 1) + FeesAfter(d, r)
      BY <2>5 DEF Paid
    <3>5. Paid(chain, r) = Premine + Rewards(n) + FeesAfter(chain, r)
      BY DEF Paid
    <3>6. d[Len(d)] = b
      BY <2>5
    <3> HIDE DEF d, b, n, r
    <3>7. Paid(d, r) = Paid(chain, r) + total
      BY <2>2, <3>1, <3>2, <3>3, <3>4, <3>5, <3>6
    <3> QED BY <3>7 DEF r
  <2>7. SumFunction(final.balance) = Paid(d, replayed)
    BY <1>3, <1>7, <2>3, <2>6 DEF Coins
  <2>8. UsedIn(d, st.nonce)
    <3>1. \A i \in 1..(n + 1) : i \in 1..n \/ i = n + 1
      BY <1>2
    <3> HIDE DEF d, st, b
    <3> QED BY <1>8, <2>4, <2>5, <3>1 DEF UsedIn
  <2>9. AccountsOk(final.balance, final.nonce, d, replayed)
    <3>1. final.balance \in [Accounts -> Int]
      BY <2>3 DEF States
    <3>2. replayed \in 0..Len(d)
      BY <1>2, <1>3, <2>5
    <3> HIDE DEF final, d, st
    <3> QED BY <1>8, <2>3, <2>7, <2>8, <3>1, <3>2 DEF AccountsOk
  <2>10. As'
    <3> HIDE DEF final, d, st
    <3> QED BY <1>4, <2>1, <2>9 DEF As
  <2>11. RestOk'
    <3>1. pool' \subseteq Txs /\ IsFiniteSet(pool')
      BY <1>1, <2>1, FS_Subset DEF RestOk
    <3>2. king' \in DOMAIN Kings
      BY <1>2, <2>1, KingAfterType
    <3> QED BY <1>1, <1>4, <3>1, <3>2 DEF RestOk
  <2>12. ChainOk(chain)'
    BY <2>1, <2>5
  <2> QED BY <2>10, <2>11, <2>12, PartsNext DEF Parts
<1> QED BY <1>9, <1>10

LEMMA RevertKeeps ==
  ASSUME CoinInvariant, NEW h \in 0..MaxHeight, RevertToHeight(h)
  PROVE  CoinInvariant'
<1> DEFINE st == Replayed(h)
           d == SubSeq(chain, 1, h)
<1>1. ChainOk(chain) /\ As /\ RestOk
  BY PartsNow DEF Parts
<1>2. h \in 0..Len(chain) /\ h < Len(chain) /\ h + 1 \in 1..Len(chain) /\ h \in Nat
  BY <1>1 DEF RevertToHeight, ChainOk
<1>3. pool' = pool /\ king' = king
  BY DEF RevertToHeight
<1>4. CASE ~st.ok
  <2>1. /\ balance' = balance /\ nonce' = nonce /\ chain' = chain
        /\ offered' = offered /\ replayed' = replayed
    BY <1>4 DEF RevertToHeight, account
  <2>2. ChainOk(chain)' /\ As' /\ RestOk'
    BY <1>1, <1>3, <2>1 DEF RestOk, As
  <2> QED BY <2>2, PartsNext DEF Parts
<1>5. CASE st.ok
  <2>1. /\ balance' = st.balance /\ nonce' = st.nonce
        /\ chain' = d /\ replayed' = h /\ offered' = chain[h + 1]
    BY <1>5 DEF RevertToHeight, SetAccounts
  <2>2. /\ st \in States /\ Coins(st) = Premine + Rewards(h)
        /\ \A j \in 1..h : Below(chain[j].txs, st.nonce)
    BY <1>1, <1>2, <1>5, ReplayedKeeps DEF RestOk
  <2>3. /\ ChainOk(d) /\ Len(d) = h
        /\ \A i \in 1..h : d[i] = chain[i]
    BY <1>1, <1>2, ChainShorter
  <2>4. AccountsOk(st.balance, st.nonce, d, h)
    <3> HIDE DEF d, st
    <3>1. FeesAfter(d, h) = 0
      BY <1>2, <2>3, FeesNone
    <3>2. SumFunction(st.balance) = Paid(d, h)
      <4>1. Rewards(h) \in Int /\ Premine \in Int
        BY <1>2, RewardsNext, NumbersAssumption
      <4> QED BY <2>2, <2>3, <3>1, <4>1 DEF Coins, Paid
    <3>3. UsedIn(d, st.nonce)
      BY <2>2, <2>3 DEF UsedIn
    <3>4. st.balance \in [Accounts -> Int] /\ st.nonce \in [Accounts -> Nat] /\ h \in 0..Len(d)
      BY <1>2, <2>2, <2>3 DEF States
    <3> QED BY <3>2, <3>3, <3>4 DEF AccountsOk
  <2>5. As'
    <3> HIDE DEF d, st
    <3> QED BY <2>1, <2>4 DEF As
  <2>6. RestOk'
    <3>1. BlockOk(chain[h + 1])
      BY <1>1, <1>2 DEF ChainOk
    <3> QED BY <1>1, <1>3, <2>1, <3>1 DEF RestOk
  <2>7. ChainOk(chain)'
    BY <2>1, <2>3
  <2> QED BY <2>5, <2>6, <2>7, PartsNext DEF Parts
<1> QED BY <1>4, <1>5

\* Coins are accounted for, and no transfer is paid twice, on every chain that is
\* built from transactions tried and executed, and computed anew when it is
\* reverted.
THEOREM CoinsStaySound == LedgerSpec => []LedgerSound
<1>1. LedgerInit => CoinInvariant
  BY ExecutionInit DEF LedgerInit
<1>2. CoinInvariant /\ [LedgerNext]_<<service, ledgerVars, diffVars, pruneVars, syncVars,
                                     tipVars, banVars, cpVars>>
        => CoinInvariant'
  <2> SUFFICES ASSUME CoinInvariant,
                      [LedgerNext]_<<service, ledgerVars, diffVars, pruneVars, syncVars,
                                     tipVars, banVars, cpVars>>
               PROVE  CoinInvariant'
    OBVIOUS
  <2>1. CASE UNCHANGED ledgerVars
    <3>1. /\ balance' = balance /\ nonce' = nonce /\ chain' = chain /\ offered' = offered
          /\ pool' = pool /\ king' = king /\ replayed' = replayed
      BY <2>1 DEF ledgerVars, vars
    <3>2. ChainOk(chain)' /\ As' /\ RestOk'
      BY <3>1, PartsNow DEF Parts, RestOk, As
    <3> QED BY <3>2, PartsNext DEF Parts
  <2>2. CASE Next
    BY <2>2, SubmitKeeps, MineKeeps, ImportKeeps, RevertKeeps DEF Next
  <2>3. UNCHANGED ledgerVars \/ Next
    BY DEF LedgerNext
  <2> QED BY <2>1, <2>2, <2>3
<1>3. CoinInvariant => LedgerSound
  BY DEF CoinInvariant, LedgerSound
<1> QED BY <1>1, <1>2, <1>3, PTL DEF LedgerSpec

-----------------------------------------------------------------------------
(* Checkpoints: none is lost, and they follow the chain. *)

\* What is put into a list is a checkpoint, and a list stays one.
LEMMA CpNothing == Cps!None \in Cps!Entries /\ Cps!NoList \in Cps!Lists
BY DEF Cps!None, Cps!Entries, Cps!NoList, Cps!Lists, Cps!Checkpoint

LEMMA CpLocalEntry ==
  ASSUME NEW e \in Cps!Entries, NEW x \in CpIds
  PROVE  /\ Cps!WithBlock(e, x) \in Cps!Entries
         /\ e # Cps!None => Cps!WithBlock(e, x) # Cps!None
BY CpAssumption
   DEF Cps!WithBlock, Cps!More, Cps!Entries, Cps!None, Cps!Checkpoint

LEMMA CpRemoteEntry ==
  ASSUME NEW e \in Cps!Entries, NEW x \in CpIds, NEW v \in Nat
  PROVE  /\ Cps!WithRemote(e, x, v) \in Cps!Entries
         /\ e # Cps!None => Cps!WithRemote(e, x, v) # Cps!None
BY CpAssumption
   DEF Cps!WithRemote, Cps!More, Cps!Entries, Cps!None, Cps!Checkpoint

LEMMA CpList ==
  ASSUME NEW f \in Cps!Lists, NEW h \in Cps!Slots, NEW e \in Cps!Entries,
         f[h] # Cps!None => e # Cps!None
  PROVE  /\ [f EXCEPT ![h] = e] \in Cps!Lists
         /\ \A k \in Cps!Slots : f[k] # Cps!None => [f EXCEPT ![h] = e][k] # Cps!None
BY DEF Cps!Lists

\* What AddCheckpoint and a remote make of the lists, as one new list.
LEMMA CpAdded ==
  ASSUME Cps!TypeOK, NEW c \in cpCreators, Cps!AddCheckpoint(c), cpStats # "inside"
  PROVE  \E f \in Cps!Lists :
           /\ cpCps' = [cpCps EXCEPT !["chain"] = f]
           /\ \A h \in Cps!Slots : cpCps["chain"][h] # Cps!None => f[h] # Cps!None
<1> DEFINE l == cpCps["chain"]
           e == l[c.slot]
           new == Cps!WithBlock(e, c.id)
           f == [l EXCEPT ![c.slot] = new]
<1>1. l \in Cps!Lists /\ c.slot \in Cps!Slots /\ c.id \in CpIds
  BY DEF Cps!TypeOK, Cps!Managers
<1>2. e \in Cps!Entries
  BY <1>1 DEF Cps!Lists
<1>3. cpCps' = [cpCps EXCEPT !["chain"] = f]
  BY DEF Cps!AddCheckpoint
<1> HIDE DEF l, e
<1>4. new \in Cps!Entries /\ (e # Cps!None => new # Cps!None)
  BY <1>1, <1>2, CpLocalEntry
<1> HIDE DEF new
<1>5. /\ f \in Cps!Lists
      /\ \A k \in Cps!Slots : l[k] # Cps!None => f[k] # Cps!None
  BY <1>1, <1>4, CpList DEF e
<1> QED BY <1>3, <1>5 DEF l

LEMMA CpRemote ==
  ASSUME Cps!TypeOK, NEW m \in Cps!Managers, Cps!ProcessRemote(m)
  PROVE  \E s \in cpPlan.savers, f \in Cps!Lists :
           /\ s \in CpSavers
           /\ cpSavers' = [cpSavers EXCEPT ![s] = Cps!Saver(m, "copy", Cps!NoList)]
           /\ cpCps' = [cpCps EXCEPT ![m] = f]
           /\ \A h \in Cps!Slots : cpCps[m][h] # Cps!None => f[h] # Cps!None
<1>1. PICK s \in cpPlan.savers, h \in 1..cpPlan.slots, x \in CpIds, v \in 1..CpTrust :
        /\ "remote" \in cpPlan.faults
        /\ cpUp
        /\ m = "chain" => cpStats = "none"
        /\ cpSavers[s].pc = "idle"
        /\ cpSavers' = [cpSavers EXCEPT ![s] = Cps!Saver(m, "copy", Cps!NoList)]
        /\ cpCps' = [cpCps EXCEPT ![m][h] = Cps!WithRemote(@, x, v)]
        /\ UNCHANGED <<cpPlan, Cps!chainVars, cpList, Cps!fileVars, cpStats, cpLoaded, cpUp>>
  BY DEF Cps!ProcessRemote
<1> DEFINE l == cpCps[m]
           e == l[h]
           new == Cps!WithRemote(e, x, v)
           f == [l EXCEPT ![h] = new]
<1>2. s \in CpSavers /\ h \in Cps!Slots /\ v \in Nat /\ l \in Cps!Lists
  BY CpAssumption DEF Cps!Slots, Cps!TypeOK
<1>3. e \in Cps!Entries
  BY <1>2 DEF Cps!Lists
<1>4. cpCps' = [cpCps EXCEPT ![m] = f]
  BY <1>1
<1> HIDE DEF l, e
<1>5. new \in Cps!Entries /\ (e # Cps!None => new # Cps!None)
  BY <1>2, <1>3, CpRemoteEntry
<1> HIDE DEF new
<1>6. /\ f \in Cps!Lists
      /\ \A k \in Cps!Slots : l[k] # Cps!None => f[k] # Cps!None
  BY <1>2, <1>5, CpList DEF e
<1> QED BY <1>1, <1>2, <1>4, <1>6 DEF l

LEMMA CpTypeStep ==
  ASSUME Cps!TypeOK, [Cps!Next]_(Cps!vars)
  PROVE  Cps!TypeOK'
<1> USE CpAssumption, CpNothing
    DEF Cps!TypeOK, Cps!Managers, Cps!SaverStates, Cps!Saver, Cps!chainVars,
        Cps!fileVars
<1>1. CASE UNCHANGED Cps!vars
  BY <1>1 DEF Cps!vars
<1>2. ASSUME NEW h \in Cps!Slots, NEW x \in CpIds, Cps!AcceptBlock(h, x)
      PROVE  Cps!TypeOK'
  <2> USE <1>2 DEF Cps!AcceptBlock, Cps!Creator, Cps!NoBlock
  <2>1. cpCanon' \in [Cps!Slots -> CpIds \cup {"none"}]
    OBVIOUS
  <2>2. cpCreators' \subseteq [slot : Cps!Slots, id : CpIds, pc : {"check", "add", "wait"}]
    OBVIOUS
  <2> QED BY <2>1, <2>2
<1>3. ASSUME NEW c \in cpCreators, Cps!CheckCanonical(c)
      PROVE  Cps!TypeOK'
  BY <1>3 DEF Cps!CheckCanonical, Cps!Creator
<1>4. ASSUME NEW c \in cpCreators, Cps!AddCheckpoint(c)
      PROVE  Cps!TypeOK'
  <2> USE <1>4 DEF Cps!AddCheckpoint, Cps!Creator
  <2>1. CASE cpStats = "inside"
    BY <2>1
  <2>2. CASE cpStats # "inside"
    <3>1. cpCps' \in [Cps!Managers -> Cps!Lists]
      BY <2>2, CpAdded
    <3>2. cpSavers' \in [CpSavers -> Cps!SaverStates]
      <4>1. Cps!Saver("chain", "copy", Cps!NoList) \in Cps!SaverStates
        OBVIOUS
      <4> HIDE DEF Cps!SaverStates
      <4> QED BY <2>2, <4>1
    <3>3. cpCreators' \subseteq cpCreators
      BY <2>2
    <3> QED BY <2>2, <3>1, <3>2, <3>3
  <2> QED BY <2>1, <2>2
<1>5. ASSUME NEW m \in Cps!Managers, Cps!ProcessRemote(m)
      PROVE  Cps!TypeOK'
  <2>1. PICK s \in cpPlan.savers, f \in Cps!Lists :
          /\ s \in CpSavers
          /\ cpSavers' = [cpSavers EXCEPT ![s] = Cps!Saver(m, "copy", Cps!NoList)]
          /\ cpCps' = [cpCps EXCEPT ![m] = f]
    BY <1>5, CpRemote
  <2>2. cpCps' \in [Cps!Managers -> Cps!Lists]
    BY <2>1
  <2>3. cpSavers' \in [CpSavers -> Cps!SaverStates]
    BY <2>1
  <2> QED BY <1>5, <2>2, <2>3 DEF Cps!ProcessRemote
<1>6. ASSUME NEW m \in Cps!Managers, Cps!SaveHourly(m)
      PROVE  Cps!TypeOK'
  BY <1>6 DEF Cps!SaveHourly
<1>7. CASE Cps!BeginStats \/ Cps!EndStats
  BY <1>7 DEF Cps!BeginStats, Cps!EndStats
<1>8. ASSUME NEW s \in CpSavers, Cps!CopyMap(s)
      PROVE  Cps!TypeOK'
  BY <1>8 DEF Cps!CopyMap
<1>9. ASSUME NEW s \in CpSavers, Cps!SetConfig(s)
      PROVE  Cps!TypeOK'
  BY <1>9 DEF Cps!SetConfig
<1>10. ASSUME NEW s \in CpSavers, Cps!TruncateFile(s)
      PROVE  Cps!TypeOK'
  BY <1>10 DEF Cps!TruncateFile
<1>11. ASSUME NEW s \in CpSavers, Cps!WriteFile(s)
      PROVE  Cps!TypeOK'
  BY <1>11 DEF Cps!WriteFile, Cps!Idle
<1>12. CASE Cps!Stop \/ Cps!Crash
  <2>1. Cps!Down /\ UNCHANGED <<cpPlan, cpCanon, cpLoaded>>
    BY <1>12 DEF Cps!Stop, Cps!Crash
  <2>2. cpFile' \in Cps!Lists /\ cpTorn' \in BOOLEAN
    BY <1>12 DEF Cps!Stop, Cps!Crash
  <2> QED BY <2>1, <2>2 DEF Cps!Down, Cps!Idle
<1>13. CASE Cps!Start
  BY <1>13 DEF Cps!Start
<1>14. [Cps!Next]_(Cps!vars)
  OBVIOUS
<1> QED BY <1>1, <1>2, <1>3, <1>4, <1>5, <1>6, <1>7, <1>8, <1>9, <1>10, <1>11,
           <1>12, <1>13, <1>14
        DEF Cps!Next

\* Whichever manager saves, the copy it saves covers what the node has loaded.
LEMMA CopiesStep ==
  ASSUME Cps!TypeOK, Cps!EveryCopyCovers, [Cps!Next]_(Cps!vars)
  PROVE  Cps!EveryCopyCovers'
<1> USE CpAssumption, CpNothing
    DEF Cps!TypeOK, Cps!Managers, Cps!Saver, Cps!chainVars, Cps!fileVars,
        Cps!EveryCopyCovers, Cps!Covers
<1>1. CASE UNCHANGED Cps!vars
  BY <1>1 DEF Cps!vars
<1>2. ASSUME NEW h \in Cps!Slots, NEW x \in CpIds, Cps!AcceptBlock(h, x)
      PROVE  Cps!EveryCopyCovers'
  BY <1>2 DEF Cps!AcceptBlock
<1>3. ASSUME NEW c \in cpCreators, Cps!CheckCanonical(c)
      PROVE  Cps!EveryCopyCovers'
  BY <1>3 DEF Cps!CheckCanonical
<1>4. ASSUME NEW c \in cpCreators, Cps!AddCheckpoint(c)
      PROVE  Cps!EveryCopyCovers'
  <2> USE <1>4 DEF Cps!AddCheckpoint
  <2>1. CASE cpStats = "inside"
    BY <2>1
  <2>2. CASE cpStats # "inside"
    <3>1. PICK f \in Cps!Lists :
            /\ cpCps' = [cpCps EXCEPT !["chain"] = f]
            /\ \A h \in Cps!Slots : cpCps["chain"][h] # Cps!None => f[h] # Cps!None
      BY <2>2, CpAdded
    <3>4. \A s \in CpSavers : cpSavers'[s] = cpSavers[s] \/ (cpSavers'[s].pc = "copy" /\ cpUp)
      BY <2>2
    <3>5. cpUp => \A m \in Cps!Managers : Cps!Covers(cpCps[m])'
      BY <2>2, <3>1
    <3> QED BY <2>2, <3>4, <3>5
  <2> QED BY <2>1, <2>2
<1>5. ASSUME NEW m \in Cps!Managers, Cps!ProcessRemote(m)
      PROVE  Cps!EveryCopyCovers'
  <2>1. PICK s \in cpPlan.savers, f \in Cps!Lists :
          /\ s \in CpSavers
          /\ cpSavers' = [cpSavers EXCEPT ![s] = Cps!Saver(m, "copy", Cps!NoList)]
          /\ cpCps' = [cpCps EXCEPT ![m] = f]
          /\ \A h \in Cps!Slots : cpCps[m][h] # Cps!None => f[h] # Cps!None
    BY <1>5, CpRemote
  <2> QED BY <1>5, <2>1 DEF Cps!ProcessRemote
<1>6. ASSUME NEW m \in Cps!Managers, Cps!SaveHourly(m)
      PROVE  Cps!EveryCopyCovers'
  BY <1>6 DEF Cps!SaveHourly
<1>7. CASE Cps!BeginStats \/ Cps!EndStats
  BY <1>7 DEF Cps!BeginStats, Cps!EndStats
<1>8. ASSUME NEW s \in CpSavers, Cps!CopyMap(s)
      PROVE  Cps!EveryCopyCovers'
  BY <1>8 DEF Cps!CopyMap, Cps!SaverStates
<1>9. ASSUME NEW s \in CpSavers, Cps!SetConfig(s)
      PROVE  Cps!EveryCopyCovers'
  BY <1>9 DEF Cps!SetConfig, Cps!SaverStates
<1>10. ASSUME NEW s \in CpSavers, Cps!TruncateFile(s)
      PROVE  Cps!EveryCopyCovers'
  BY <1>10 DEF Cps!TruncateFile, Cps!SaverStates
<1>11. ASSUME NEW s \in CpSavers, Cps!WriteFile(s)
      PROVE  Cps!EveryCopyCovers'
  BY <1>11 DEF Cps!WriteFile, Cps!Idle, Cps!SaverStates
<1>12. CASE Cps!Stop \/ Cps!Crash
  <2>1. Cps!Down /\ UNCHANGED cpLoaded
    BY <1>12 DEF Cps!Stop, Cps!Crash
  <2>2. Cps!Covers(cpFile)'
    BY <1>12 DEF Cps!Stop, Cps!Crash
  <2> QED BY <2>1, <2>2 DEF Cps!Down, Cps!Idle
<1>13. CASE Cps!Start
  BY <1>13 DEF Cps!Start
<1>14. [Cps!Next]_(Cps!vars)
  OBVIOUS
<1> QED BY <1>1, <1>2, <1>3, <1>4, <1>5, <1>6, <1>7, <1>8, <1>9, <1>10, <1>11,
           <1>12, <1>13, <1>14
        DEF Cps!Next

\* A chain without holes is as high as its last block.
LEMMA CpHeight ==
  ASSUME NEW n \in 0..CpMaxSlot,
         \A h \in Cps!Slots : cpCanon[h] # Cps!NoBlock <=> h <= n
  PROVE  Cps!Height = n
<1> DEFINE Top(m) == \A h \in Cps!Slots : cpCanon[h] # Cps!NoBlock <=> h <= m
<1>1. ASSUME NEW m \in 0..CpMaxSlot, Top(m)
      PROVE  m = n
  <2>1. /\ m < n => n \in Cps!Slots
        /\ n < m => m \in Cps!Slots
    BY CpAssumption DEF Cps!Slots
  <2> QED BY <1>1, <2>1, CpAssumption
<1>2. Cps!Height = CHOOSE m \in 0..CpMaxSlot : Top(m)
  BY DEF Cps!Height
<1> HIDE DEF Top
<1>3. Top(n)
  BY DEF Top
<1> QED BY <1>1, <1>2, <1>3

\* A goroutine that goes on to its next step still has its block.
LEMMA MovedOn ==
  ASSUME Cps!CreatorsOnChain, Cps!EveryBlockCheckpointed, cpUp,
         NEW c \in cpCreators, NEW pc,
         cpCreators' = (cpCreators \ {c}) \cup {Cps!Creator(c.slot, c.id, pc)},
         UNCHANGED <<cpCanon, cpCps, cpFile, cpUp>>
  PROVE  Cps!CreatorsOnChain' /\ Cps!EveryBlockCheckpointed'
<1> DEFINE d == Cps!Creator(c.slot, c.id, pc)
<1>1. d \in cpCreators' /\ d.slot = c.slot /\ d.id = c.id
  BY DEF Cps!Creator
<1> HIDE DEF d
<1>2. \A k : (\E e \in cpCreators : e.slot = k) => \E e \in cpCreators' : e.slot = k
  BY <1>1
<1>3. \A e \in cpCreators' : cpCanon[e.slot] = e.id
  BY <1>1 DEF Cps!CreatorsOnChain, d
<1>4. Cps!CreatorsOnChain'
  BY <1>3 DEF Cps!CreatorsOnChain
<1>5. Cps!EveryBlockCheckpointed'
  BY <1>2 DEF Cps!EveryBlockCheckpointed, Cps!Checkpointed
<1> QED BY <1>4, <1>5

\* Where no fault is, a goroutine works on a block that stays until it has made
\* the checkpoint, and only Stop, which waits for it, ends the process.
LEMMA ChainStep ==
  ASSUME Cps!TypeOK, Cps!EveryCopyCovers, Cps!ChainFollowed, Cps!Quiet,
         [Cps!Next]_(Cps!vars)
  PROVE  Cps!CreatorsOnChain' /\ Cps!EveryBlockCheckpointed'
<1> USE CpAssumption
    DEF Cps!TypeOK, Cps!ChainFollowed, Cps!EveryBlockCheckpointed,
        Cps!CreatorsOnChain, Cps!Checkpointed, Cps!chainVars, Cps!fileVars
<1> DEFINE Followed == Cps!CreatorsOnChain /\ Cps!EveryBlockCheckpointed
<1>1. CASE UNCHANGED <<cpCanon, cpCreators, cpCps, cpFile, cpUp>>
  BY <1>1
<1>2. ASSUME NEW h \in Cps!Slots, NEW x \in CpIds, Cps!AcceptBlock(h, x)
      PROVE  Followed'
  <2> USE <1>2 DEF Cps!AcceptBlock
  <2>1. PICK n \in 0..CpMaxSlot :
          \A k \in Cps!Slots : cpCanon[k] # Cps!NoBlock <=> k <= n
    OBVIOUS
  <2>2. h <= n + 1 /\ (h <= n => cpCreators = {})
    BY <2>1, CpHeight DEF Cps!Quiet
  <2>3. cpCreators' = cpCreators \cup {Cps!Creator(h, x, "check")}
    BY DEF Cps!Quiet
  <2>4. /\ h \in 0..CpMaxSlot
        /\ \A k \in Cps!Slots : cpCanon'[k] # Cps!NoBlock <=> k <= h
    BY <2>1, <2>2 DEF Cps!Slots, Cps!NoBlock
  <2>5. \A c \in cpCreators' : cpCanon'[c.slot] = c.id
    BY <2>1, <2>2, <2>3 DEF Cps!Creator, Cps!Slots, Cps!NoBlock
  <2>6. ASSUME NEW k \in Cps!Slots, cpCanon'[k] # Cps!NoBlock
        PROVE  Cps!Checkpointed(k, cpCps["chain"])' \/ \E c \in cpCreators' : c.slot = k
    <3>1. CASE k = h
      <4>1. Cps!Creator(h, x, "check") \in cpCreators' /\ Cps!Creator(h, x, "check").slot = h
        BY <2>3 DEF Cps!Creator
      <4> QED BY <3>1, <4>1
    <3>2. CASE k # h
      BY <2>3, <2>4, <2>6, <3>2 DEF Cps!Slots
    <3> QED BY <3>1, <3>2
  <2> QED BY <2>4, <2>5, <2>6
<1>3. ASSUME NEW c \in cpCreators, Cps!CheckCanonical(c)
      PROVE  Followed'
  <2>1. /\ UNCHANGED <<cpCanon, cpCps, cpFile, cpUp>> /\ cpUp
        /\ cpCreators' = (cpCreators \ {c}) \cup {Cps!Creator(c.slot, c.id, "add")}
    BY <1>3 DEF Cps!CheckCanonical, Cps!EveryCopyCovers
  <2> QED BY <2>1, MovedOn
<1>4. ASSUME NEW c \in cpCreators, Cps!AddCheckpoint(c)
      PROVE  Followed'
  <2> USE <1>4 DEF Cps!AddCheckpoint, Cps!EveryCopyCovers
  <2>1. CASE cpStats = "inside"
    <3>1. /\ UNCHANGED <<cpCanon, cpCps, cpFile, cpUp>> /\ cpUp
          /\ cpCreators' = (cpCreators \ {c}) \cup {Cps!Creator(c.slot, c.id, "wait")}
      BY <2>1
    <3> QED BY <3>1, MovedOn
  <2>2. CASE cpStats # "inside"
    <3>1. /\ UNCHANGED <<cpCanon, cpFile, cpUp>> /\ cpUp
          /\ cpCreators' = cpCreators \ {c}
      BY <2>2
    <3>2. cpCps["chain"] \in Cps!Lists /\ c.slot \in Cps!Slots
      BY DEF Cps!Managers
    <3>3. \A k \in Cps!Slots : cpCps'["chain"][k] =
            IF k = c.slot THEN Cps!WithBlock(cpCps["chain"][k], c.id)
            ELSE cpCps["chain"][k]
      BY <2>2, <3>2 DEF Cps!Managers, Cps!Lists
    <3>4. Cps!Checkpointed(c.slot, cpCps["chain"])'
      BY <3>1, <3>2, <3>3
         DEF Cps!WithBlock, Cps!Checkpoint, Cps!Lists, Cps!Entries, Cps!More
    <3>5. ASSUME NEW k \in Cps!Slots, cpCanon[k] # Cps!NoBlock
          PROVE  Cps!Checkpointed(k, cpCps["chain"])' \/ \E d \in cpCreators' : d.slot = k
      BY <3>1, <3>2, <3>3, <3>4, <3>5
    <3> QED BY <3>1, <3>5
  <2> QED BY <2>1, <2>2
<1>5. ASSUME NEW m \in Cps!Managers, Cps!ProcessRemote(m) \/ Cps!SaveHourly(m)
      PROVE  Followed'
  BY <1>1, <1>5 DEF Cps!ProcessRemote, Cps!SaveHourly, Cps!Quiet
<1>6. CASE Cps!BeginStats \/ Cps!EndStats
  BY <1>1, <1>6 DEF Cps!BeginStats, Cps!EndStats
<1>7. ASSUME NEW s \in CpSavers,
             Cps!CopyMap(s) \/ Cps!SetConfig(s) \/ Cps!TruncateFile(s)
      PROVE  Followed'
  BY <1>1, <1>7 DEF Cps!CopyMap, Cps!SetConfig, Cps!TruncateFile
<1>8. ASSUME NEW s \in CpSavers, Cps!WriteFile(s)
      PROVE  Followed'
  BY <1>8 DEF Cps!WriteFile, Cps!EveryCopyCovers
<1>9. CASE Cps!Stop \/ Cps!Crash
  BY <1>9 DEF Cps!Stop, Cps!Crash, Cps!Down, Cps!Quiet, Cps!Managers
<1>10. CASE Cps!Start
  BY <1>10 DEF Cps!Start, Cps!Managers
<1>11. CASE UNCHANGED Cps!vars
  BY <1>1, <1>11 DEF Cps!vars
<1>12. [Cps!Next]_(Cps!vars)
  OBVIOUS
<1> QED BY <1>2, <1>3, <1>4, <1>5, <1>6, <1>7, <1>8, <1>9, <1>10, <1>11, <1>12
        DEF Cps!Next

LEMMA CpPlanStays ==
  ASSUME [Cps!Next]_(Cps!vars)
  PROVE  cpPlan' = cpPlan
BY DEF Cps!Next, Cps!vars, Cps!AcceptBlock, Cps!CheckCanonical,
       Cps!AddCheckpoint, Cps!ProcessRemote, Cps!SaveHourly, Cps!BeginStats,
       Cps!EndStats, Cps!CopyMap, Cps!SetConfig, Cps!TruncateFile,
       Cps!WriteFile, Cps!Stop, Cps!Crash, Cps!Start

\* For any number of heights, blocks, goroutines and managers' saves: every
\* height that had a checkpoint when the node started keeps one, and without
\* the faults of the plan the chain's blocks have theirs
\* (createCheckpointFromBlock, AddCheckpoint, saveCheckpointsToConfig).
THEOREM CheckpointsStaySound == Cps!Spec => []CheckpointsSound
<1> DEFINE Inv == Cps!TypeOK /\ Cps!EveryCopyCovers /\ Cps!ChainFollowed
<1>1. Cps!Init => Inv
  <2> SUFFICES ASSUME Cps!Init PROVE Inv
    OBVIOUS
  <2> USE CpAssumption, CpNothing
      DEF Cps!Init, Cps!Saver, Cps!Idle, Cps!Managers, Cps!NoBlock
  <2>1. Cps!TypeOK
    BY DEF Cps!TypeOK, Cps!SaverStates
  <2>2. Cps!EveryCopyCovers
    BY DEF Cps!EveryCopyCovers, Cps!Covers, Cps!NoList, Cps!Slots
  <2>3. Cps!CreatorsOnChain /\ Cps!EveryBlockCheckpointed
    <3>1. 0 \in 0..CpMaxSlot /\ \A h \in Cps!Slots : ~(h <= 0)
      BY DEF Cps!Slots
    <3> QED BY <3>1 DEF Cps!CreatorsOnChain, Cps!EveryBlockCheckpointed
  <2> QED BY <2>1, <2>2, <2>3 DEF Cps!ChainFollowed
<1>2. Inv /\ [Cps!Next]_(Cps!vars) => Inv'
  <2> SUFFICES ASSUME Inv, [Cps!Next]_(Cps!vars) PROVE Inv'
    OBVIOUS
  <2>1. Cps!TypeOK' /\ Cps!EveryCopyCovers'
    BY CpTypeStep, CopiesStep
  <2>2. Cps!Quiet' = Cps!Quiet
    BY CpPlanStays DEF Cps!Quiet
  <2>3. Cps!ChainFollowed'
    BY <2>2, ChainStep DEF Cps!ChainFollowed
  <2> QED BY <2>1, <2>3
<1>3. Inv => CheckpointsSound
  BY DEF CheckpointsSound, Cps!ChainCheckpointed, Cps!LoadedNeverLost,
         Cps!ChainFollowed, Cps!Quiet, Cps!EveryBlockCheckpointed,
         Cps!Checkpointed, Cps!EveryCopyCovers, Cps!Covers
<1> QED BY <1>1, <1>2, <1>3, PTL DEF Cps!Spec

-----------------------------------------------------------------------------
(* Pruning: what is missing was marked, and was old. *)

\* The heights of a pass, in order, are heights, and there is one at least.
LEMMA PassTakesHeights ==
  ASSUME NEW S \in SUBSET (Nat \ {0}), S # {}, NEW todo \in Prune!InOrder(S)
  PROVE  /\ todo \in Seq(Nat \ {0})
         /\ 1 \in 1..Len(todo)
         /\ \A i \in 1..Len(todo) : todo[i] \in S
<1>1. PICK n \in 0..PruneMaxHeight : todo \in [1..n -> S]
  BY DEF Prune!InOrder
<1>2. n \in Nat /\ n # 0
  <2>1. n \in Nat
    BY PruneAssumption
  <2>2. PICK h \in S : TRUE
    OBVIOUS
  <2>3. PICK i \in DOMAIN todo : todo[i] = h
    BY <2>2 DEF Prune!InOrder
  <2> QED BY <1>1, <2>1, <2>3
<1>3. todo \in Seq(S) /\ Len(todo) = n
  BY <1>1, <1>2
<1>4. \A i \in 1..n : todo[i] \in S
  BY <1>1
<1>5. todo \in [1..n -> Nat \ {0}]
  BY <1>1
<1>6. todo \in Seq(Nat \ {0})
  BY <1>2, <1>5
<1> QED BY <1>2, <1>3, <1>4, <1>6

\* The next height of a pass, or the next step of this one.
LEMMA PassGoesOn ==
  ASSUME Prune!TypeOK, prunePass # Prune!NoPass
  PROVE  \/ Prune!Advanced = Prune!NoPass
         \/ \E next \in 1..Len(prunePass.todo), step \in 1..3 :
              /\ Prune!Advanced = Prune!Pass(prunePass.todo, next, step)
              /\ step >= 2 => /\ next = prunePass.next
                              /\ step = prunePass.step + 1
<1> DEFINE t == prunePass.todo  n == prunePass.next  s == prunePass.step
<1>1. n \in 1..Len(t) /\ s \in 1..3 /\ Len(t) \in Nat
  BY DEF Prune!TypeOK, Prune!PassOK, Prune!Steps
<1>2. CASE s < 2 \/ (s = 2 /\ Prune!EndOfBatch)
  <2>1. s + 1 \in 1..3 /\ Prune!Advanced = Prune!Pass(t, n, s + 1)
    BY <1>1, <1>2 DEF Prune!Advanced
  <2> QED BY <1>1, <2>1
<1>3. CASE ~(s < 2 \/ (s = 2 /\ Prune!EndOfBatch)) /\ n < Len(t)
  <2>1. n + 1 \in 1..Len(t) /\ 1 \in 1..3 /\ ~(1 >= 2)
    BY <1>1, <1>3
  <2>2. Prune!Advanced = Prune!Pass(t, n + 1, 1)
    BY <1>3 DEF Prune!Advanced
  <2> QED BY <2>1, <2>2
<1>4. CASE ~(s < 2 \/ (s = 2 /\ Prune!EndOfBatch)) /\ ~(n < Len(t))
  BY <1>4 DEF Prune!Advanced
<1> QED BY <1>2, <1>3, <1>4

\* The fields of a pass.
LEMMA PassFields ==
  ASSUME NEW t, NEW n, NEW s
  PROVE  /\ Prune!Pass(t, n, s).todo = t
         /\ Prune!Pass(t, n, s).next = n
         /\ Prune!Pass(t, n, s).step = s
BY DEF Prune!Pass

\* No pass is at step 0, and a pass has a height.
LEMMA PassRuns ==
  ASSUME Prune!TypeOK, NEW i \in 1..3, Prune!InPass(Prune!Steps[i])
  PROVE  /\ prunePass # Prune!NoPass
         /\ prunePass.step = i
         /\ prunePass.next \in 1..Len(prunePass.todo)
         /\ Prune!Height = prunePass.todo[prunePass.next]
         /\ Prune!Height \in Nat \ {0}
<1>1. prunePass # Prune!NoPass /\ prunePass.step \in 1..3 /\ prunePass.next \in 1..Len(prunePass.todo)
  BY DEF Prune!TypeOK, Prune!PassOK, Prune!InPass, Prune!Steps
<1>2. prunePass.step = i
  BY <1>1 DEF Prune!InPass, Prune!Steps
<1>3. Prune!Height \in Nat \ {0}
  BY <1>1 DEF Prune!TypeOK, Prune!PassOK, Prune!Height
<1> QED BY <1>1, <1>2, <1>3 DEF Prune!Height

\* What is left of a pass by a step that fails, or goes on.
LEMMA PassLeft ==
  ASSUME Prune!TypeOK, prunePass # Prune!NoPass,
         NEW n \in 1..Len(prunePass.todo), NEW s \in 1..3,
         prunePass' = Prune!Pass(prunePass.todo, n, s)
  PROVE  Prune!PassOK'
<1>1. prunePass.todo \in Seq(Nat \ {0})
  BY DEF Prune!TypeOK, Prune!PassOK
<1>2. /\ prunePass'.todo = prunePass.todo
      /\ prunePass'.next = n
      /\ prunePass'.step = s
  BY PassFields
<1> QED BY <1>1, <1>2 DEF Prune!PassOK, Prune!Steps

\* What is deleted was marked, and a pass keeps to old heights.
LEMMA PassStep ==
  ASSUME Prune!TypeOK, Prune!MarkedFirst, Prune!OldHeights,
         [Prune!Next]_(Prune!vars)
  PROVE  /\ Prune!PassOK'
         /\ Prune!MarkedFirst'
         /\ Prune!OldHeights'
<1>1. /\ Prune!NoPass.step = 0 /\ Prune!NoPass.todo = <<>>
  BY DEF Prune!NoPass, Prune!Pass
<1>2. ASSUME prunePass' = Prune!NoPass
      PROVE  /\ Prune!PassOK'
             /\ Prune!MarkedFirst'
             /\ Prune!OldHeights'
  BY <1>1, <1>2 DEF Prune!PassOK, Prune!MarkedFirst, Prune!OldHeights
<1>3. ASSUME UNCHANGED prunePass, DOMAIN pruneMarked \subseteq DOMAIN pruneMarked',
             pruneTruncations' = 0 => /\ pruneTruncations = 0
                                      /\ Len(pruneCanon') >= Len(pruneCanon),
             Len(pruneCanon') \in Nat
      PROVE  /\ Prune!PassOK'
             /\ Prune!MarkedFirst'
             /\ Prune!OldHeights'
  <2>1. Prune!PassOK'
    BY <1>3 DEF Prune!TypeOK, Prune!PassOK
  <2>2. Prune!MarkedFirst'
    BY <1>3 DEF Prune!MarkedFirst, Prune!Height
  <2>3. Prune!OldHeights'
    <3> SUFFICES ASSUME pruneTruncations' = 0, NEW i \in 1..Len(prunePass.todo)
                 PROVE  prunePass.todo[i] + PruneDepth <= Len(pruneCanon')
      BY <1>3 DEF Prune!OldHeights
    <3>1. prunePass.todo[i] + PruneDepth <= Len(pruneCanon)
      BY <1>3 DEF Prune!OldHeights
    <3>2. prunePass.todo[i] \in Nat
      BY <1>1 DEF Prune!TypeOK, Prune!PassOK
    <3>3. Len(pruneCanon) \in Nat
      BY DEF Prune!TypeOK
    <3> QED BY <1>3, <3>1, <3>2, <3>3, PruneAssumption
  <2> QED BY <2>1, <2>2, <2>3
<1>4. ASSUME NEW n \in 1..Len(prunePass.todo), NEW s \in 1..3,
             prunePass # Prune!NoPass,
             prunePass' = Prune!Pass(prunePass.todo, n, s),
             s >= 2 => prunePass.todo[n] \in DOMAIN pruneMarked',
             UNCHANGED <<pruneCanon, pruneTruncations>>
      PROVE  /\ Prune!PassOK'
             /\ Prune!MarkedFirst'
             /\ Prune!OldHeights'
  <2>1. /\ prunePass'.todo = prunePass.todo
        /\ prunePass'.next = n
        /\ prunePass'.step = s
    BY <1>4, PassFields
  <2>2. Prune!PassOK'
    BY <1>4, PassLeft
  <2>3. Prune!MarkedFirst'
    BY <1>4, <2>1 DEF Prune!MarkedFirst, Prune!Height
  <2>4. Prune!OldHeights'
    BY <1>4, <2>1 DEF Prune!OldHeights
  <2> QED BY <2>2, <2>3, <2>4
<1>5. ASSUME NEW n \in 1..3, Prune!InPass(Prune!Steps[n]), prunePass' = Prune!Advanced,
             DOMAIN pruneMarked \subseteq DOMAIN pruneMarked',
             n = 1 => Prune!Height \in DOMAIN pruneMarked',
             UNCHANGED <<pruneCanon, pruneTruncations>>
      PROVE  /\ Prune!PassOK'
             /\ Prune!MarkedFirst'
             /\ Prune!OldHeights'
  <2>1. prunePass # Prune!NoPass /\ prunePass.step = n
    BY <1>5, PassRuns
  <2>2. CASE Prune!Advanced = Prune!NoPass
    BY <1>2, <1>5, <2>2
  <2>3. ASSUME NEW next \in 1..Len(prunePass.todo), NEW step \in 1..3,
               Prune!Advanced = Prune!Pass(prunePass.todo, next, step),
               step >= 2 => next = prunePass.next /\ step = prunePass.step + 1
        PROVE  /\ Prune!PassOK'
               /\ Prune!MarkedFirst'
               /\ Prune!OldHeights'
    <3>1. step >= 2 => prunePass.todo[next] \in DOMAIN pruneMarked'
      BY <1>5, <2>1, <2>3 DEF Prune!MarkedFirst, Prune!Height
    <3> QED BY <1>4, <1>5, <2>1, <2>3, <3>1
  <2> QED BY <2>1, <2>2, <2>3, PassGoesOn
<1>6. CASE Prune!AddBlock
  <2>1. /\ UNCHANGED <<prunePass, pruneMarked, pruneTruncations>>
        /\ Len(pruneCanon') = Len(pruneCanon) + 1 /\ Len(pruneCanon) \in Nat
    BY <1>6 DEF Prune!AddBlock, Prune!TypeOK, Prune!Block
  <2> QED BY <1>3, <2>1
<1>7. ASSUME NEW h \in 1..PruneMaxHeight, Prune!TruncateTo(h)
      PROVE  /\ Prune!PassOK'
             /\ Prune!MarkedFirst'
             /\ Prune!OldHeights'
  <2>1. /\ UNCHANGED <<prunePass, pruneMarked>> /\ Len(pruneCanon') \in Nat
        /\ pruneTruncations' # 0
    BY <1>7, PruneAssumption DEF Prune!TruncateTo, Prune!TypeOK
  <2> QED BY <1>3, <2>1
<1>8. ASSUME NEW h \in 1..PruneMaxHeight, Prune!GetBlock(h)
      PROVE  /\ Prune!PassOK'
             /\ Prune!MarkedFirst'
             /\ Prune!OldHeights'
  <2>1. UNCHANGED <<pruneCanon, pruneTruncations, pruneMarked>> /\ Len(pruneCanon) \in Nat
    BY <1>8 DEF Prune!GetBlock, Prune!chainVars, Prune!TypeOK
  <2>2. UNCHANGED prunePass \/ prunePass' = Prune!NoPass
    BY <1>8 DEF Prune!GetBlock
  <2> QED BY <1>2, <1>3, <2>1, <2>2
<1>9. CASE Prune!Evict \/ Prune!Restart \/ UNCHANGED Prune!vars
  <2>1. UNCHANGED <<pruneCanon, pruneTruncations, pruneMarked, prunePass>> /\ Len(pruneCanon) \in Nat
    BY <1>9 DEF Prune!Evict, Prune!Restart, Prune!vars, Prune!chainVars, Prune!TypeOK
  <2> QED BY <1>3, <2>1
<1>10. CASE Prune!StartPass
  <2> DEFINE S == Prune!Unmarked((prunePruned + 1)..Prune!PruneTarget(Len(pruneCanon)))
  <2>1. PICK todo \in Prune!InOrder(S) : prunePass' = Prune!Pass(todo, 1, 1)
    BY <1>10 DEF Prune!StartPass
  <2>2. S # {} /\ S \subseteq Nat \ {0} /\ UNCHANGED <<pruneCanon, pruneTruncations>>
    BY <1>10, PruneAssumption
    DEF Prune!StartPass, Prune!chainVars, Prune!TypeOK, Prune!Unmarked, Prune!PruneTarget
  <2>3. /\ todo \in Seq(Nat \ {0}) /\ 1 \in 1..Len(todo)
        /\ \A i \in 1..Len(todo) : todo[i] \in S
    BY <2>2, PassTakesHeights
  <2>4. /\ prunePass'.todo = todo /\ prunePass'.next = 1 /\ prunePass'.step = 1
    BY <2>1, PassFields
  <2>5. Prune!PassOK'
    BY <2>1, <2>3, <2>4 DEF Prune!PassOK, Prune!Steps
  <2>6. Prune!MarkedFirst'
    BY <2>4 DEF Prune!MarkedFirst
  <2>7. ASSUME NEW h \in S PROVE h + PruneDepth <= Len(pruneCanon)
    BY PruneAssumption DEF Prune!Unmarked, Prune!PruneTarget, Prune!TypeOK
  <2>8. Prune!OldHeights'
    BY <2>2, <2>3, <2>4, <2>7 DEF Prune!OldHeights
  <2> QED BY <2>5, <2>6, <2>8
<1>11. CASE Prune!MarkBlockPruned
  <2>1. /\ Prune!InPass(Prune!Steps[1]) /\ prunePass' = Prune!Advanced
        /\ DOMAIN pruneMarked' = DOMAIN pruneMarked \cup {Prune!Height}
        /\ UNCHANGED <<pruneCanon, pruneTruncations>>
    BY <1>11 DEF Prune!MarkBlockPruned, Prune!Steps, Prune!chainVars
  <2> QED BY <1>5, <2>1
<1>12. CASE Prune!DeleteBlockData
  <2>1. /\ Prune!InPass(Prune!Steps[2]) /\ prunePass' = Prune!Advanced
        /\ UNCHANGED <<pruneCanon, pruneTruncations, pruneMarked>>
    BY <1>12 DEF Prune!DeleteBlockData, Prune!Steps
  <2> QED BY <1>5, <2>1
<1>13. CASE Prune!SetPrunedHeight
  <2>1. /\ Prune!InPass(Prune!Steps[3]) /\ prunePass' = Prune!Advanced
        /\ UNCHANGED <<pruneCanon, pruneTruncations, pruneMarked>>
    BY <1>13 DEF Prune!SetPrunedHeight, Prune!Steps, Prune!chainVars
  <2> QED BY <1>5, <2>1
<1>14. CASE Prune!MarkFails
  <2>1. Prune!InPass(Prune!Steps[1])
    BY <1>14 DEF Prune!MarkFails, Prune!Steps
  <2>2. prunePass # Prune!NoPass
    BY <2>1, PassRuns
  <2>3. UNCHANGED <<pruneCanon, pruneTruncations>>
    BY <1>14 DEF Prune!MarkFails, Prune!chainVars
  <2>4. CASE prunePass' = Prune!NoPass
    BY <1>2, <2>4
  <2>5. ASSUME NEW i \in 1..Len(prunePass.todo), prunePass' = Prune!Pass(prunePass.todo, i, 1)
        PROVE  /\ Prune!PassOK'
               /\ Prune!MarkedFirst'
               /\ Prune!OldHeights'
    BY <1>4, <2>2, <2>3, <2>5
  <2> QED BY <1>14, <2>4, <2>5 DEF Prune!MarkFails
<1>15. CASE Prune!Crash
  BY <1>2, <1>15 DEF Prune!Crash
<1>16. [Prune!Next]_(Prune!vars)
  OBVIOUS
<1> QED BY <1>6, <1>7, <1>8, <1>9, <1>10, <1>11, <1>12, <1>13, <1>14, <1>15, <1>16
        DEF Prune!Next

\* The chain grows by stored blocks, loses those above the truncation, and loses
\* the stored block of the height the pass is at.
LEMMA StoreStep ==
  ASSUME Prune!TypeOK, Prune!MarkedFirst, Prune!OldHeights,
         Prune!MissingIsMarked, Prune!LastBlocksKept,
         [Prune!Next]_(Prune!vars)
  PROVE  /\ pruneCanon' \in Seq(Prune!Blocks)
         /\ \A h \in Prune!Heights' : pruneCanon'[h].height = h
         /\ prunePruned' \in Nat /\ pruneTruncations' \in Nat
         /\ Prune!MissingIsMarked'
         /\ Prune!LastBlocksKept'
<1> USE PruneAssumption
<1>1. /\ pruneCanon \in Seq(Prune!Blocks) /\ Len(pruneCanon) \in Nat
      /\ \A h \in 1..Len(pruneCanon) : pruneCanon[h] \in Prune!Blocks /\ pruneCanon[h].height = h
      /\ prunePruned \in Nat /\ pruneTruncations \in Nat
  BY DEF Prune!TypeOK, Prune!Heights
<1>2. CASE Prune!AddBlock
  <2>1. PICK branch \in {Prune!Branch(Len(pruneCanon))} \cup
                        (IF Prune!Branch(Len(pruneCanon)) = 0 /\ pruneTruncations > 0
                           THEN {Len(pruneCanon) + 1} ELSE {}) :
          /\ pruneCanon' = Append(pruneCanon, Prune!Block(Len(pruneCanon) + 1, branch))
          /\ pruneStored' = pruneStored \cup {Prune!Block(Len(pruneCanon) + 1, branch)}
    BY <1>2 DEF Prune!AddBlock
  <2> DEFINE b == Prune!Block(Len(pruneCanon) + 1, branch)
  <2>2. branch \in Nat
    BY <1>1 DEF Prune!Branch, Prune!Blocks
  <2>3. b \in Prune!Blocks /\ b.height = Len(pruneCanon) + 1
    BY <1>1, <2>2 DEF Prune!Block, Prune!Blocks
  <2> HIDE DEF b
  <2>4. /\ pruneCanon' \in Seq(Prune!Blocks)
        /\ Len(pruneCanon') = Len(pruneCanon) + 1
        /\ \A h \in 1..Len(pruneCanon) : pruneCanon'[h] = pruneCanon[h]
        /\ pruneCanon'[Len(pruneCanon) + 1] = b
    BY <1>1, <2>1, <2>3 DEF b
  <2>5. UNCHANGED <<prunePruned, pruneTruncations, pruneMarked>>
    BY <1>2 DEF Prune!AddBlock
  <2>6. \A h \in 1..Len(pruneCanon') :
          h \in 1..Len(pruneCanon) \/ h = Len(pruneCanon) + 1
    BY <1>1, <2>4
  <2>7. pruneStored' = pruneStored \cup {b}
    BY <2>1 DEF b
  <2>8. \A h \in Prune!Heights' : pruneCanon'[h].height = h
    BY <1>1, <2>3, <2>4, <2>6 DEF Prune!Heights
  <2>9. \A h \in Prune!Heights' : pruneCanon'[h] \notin pruneStored' =>
          /\ h \in 1..Len(pruneCanon) /\ pruneCanon[h] \notin pruneStored
    BY <2>4, <2>6, <2>7 DEF Prune!Heights
  <2>10. Prune!MissingIsMarked'
    BY <2>5, <2>9 DEF Prune!MissingIsMarked, Prune!Heights
  <2>11. Prune!LastBlocksKept'
    BY <1>1, <2>4, <2>5, <2>9 DEF Prune!LastBlocksKept, Prune!Heights
  <2> QED BY <1>1, <2>4, <2>5, <2>8, <2>10, <2>11
<1>3. ASSUME NEW n \in 1..PruneMaxHeight, Prune!TruncateTo(n)
      PROVE  /\ pruneCanon' \in Seq(Prune!Blocks)
             /\ \A h \in Prune!Heights' : pruneCanon'[h].height = h
             /\ prunePruned' \in Nat /\ pruneTruncations' \in Nat
             /\ Prune!MissingIsMarked'
             /\ Prune!LastBlocksKept'
  <2>1. /\ n \in Nat /\ n < Len(pruneCanon)
        /\ pruneCanon' = SubSeq(pruneCanon, 1, n)
        /\ pruneStored' = pruneStored \ {pruneCanon[i] : i \in (n + 1)..Len(pruneCanon)}
        /\ pruneTruncations' = pruneTruncations + 1
        /\ UNCHANGED <<prunePruned, pruneMarked>>
    BY <1>3 DEF Prune!TruncateTo
  <2>2. /\ pruneCanon' \in Seq(Prune!Blocks) /\ Len(pruneCanon') = n
        /\ \A h \in 1..n : pruneCanon'[h] = pruneCanon[h] /\ h \in 1..Len(pruneCanon)
    BY <1>1, <2>1
  <2>3. \A h \in 1..n : \A i \in (n + 1)..Len(pruneCanon) : pruneCanon[h] # pruneCanon[i]
    BY <1>1, <2>1
  <2>4. \A h \in Prune!Heights' :
          /\ pruneCanon'[h] = pruneCanon[h] /\ h \in Prune!Heights
          /\ pruneCanon'[h] \notin pruneStored' => pruneCanon[h] \notin pruneStored
    BY <2>1, <2>2, <2>3 DEF Prune!Heights
  <2>5. Prune!MissingIsMarked'
    BY <2>1, <2>4 DEF Prune!MissingIsMarked
  <2>6. Prune!LastBlocksKept'
    BY <1>1, <2>1 DEF Prune!LastBlocksKept
  <2>7. \A h \in Prune!Heights' : pruneCanon'[h].height = h
    BY <1>1, <2>4 DEF Prune!Heights
  <2>8. prunePruned' \in Nat /\ pruneTruncations' \in Nat
    BY <1>1, <2>1
  <2> QED BY <2>2, <2>5, <2>6, <2>7, <2>8
<1>4. CASE Prune!DeleteBlockData
  <2>1. /\ Prune!InPass(Prune!Steps[2])
        /\ pruneStored' = pruneStored \ {Prune!CanonicalHash(Prune!Height)}
        /\ UNCHANGED <<pruneCanon, pruneTruncations, pruneMarked, prunePruned>>
    BY <1>4 DEF Prune!DeleteBlockData, Prune!Steps
  <2>2. /\ prunePass.step = 2 /\ Prune!Height \in Nat \ {0}
        /\ prunePass.next \in 1..Len(prunePass.todo)
        /\ Prune!Height = prunePass.todo[prunePass.next]
    BY <2>1, PassRuns
  <2>3. Prune!Height \in DOMAIN pruneMarked
    BY <2>2 DEF Prune!MarkedFirst
  <2>4. pruneTruncations = 0 => Prune!Height + PruneDepth <= Len(pruneCanon)
    BY <2>2 DEF Prune!OldHeights
  <2>5. ASSUME NEW h \in Prune!Heights, pruneCanon[h] = Prune!CanonicalHash(Prune!Height)
        PROVE  h = Prune!Height
    BY <1>1, <2>2, <2>5 DEF Prune!CanonicalHash, Prune!NoHash, Prune!Heights
  <2>6. \A h \in Prune!Heights : pruneCanon[h] \notin pruneStored' =>
          pruneCanon[h] \notin pruneStored \/ h = Prune!Height
    BY <2>1, <2>5
  <2>7. Prune!MissingIsMarked'
    BY <2>1, <2>3, <2>6 DEF Prune!MissingIsMarked, Prune!Heights
  <2>8. Prune!LastBlocksKept'
    BY <2>1, <2>4, <2>6 DEF Prune!LastBlocksKept, Prune!Heights
  <2> QED BY <1>1, <2>1, <2>7, <2>8 DEF Prune!Heights
<1>5. ASSUME UNCHANGED <<pruneCanon, pruneStored, pruneTruncations>>,
             DOMAIN pruneMarked \subseteq DOMAIN pruneMarked',
             prunePruned' \in Nat
      PROVE  /\ pruneCanon' \in Seq(Prune!Blocks)
             /\ \A h \in Prune!Heights' : pruneCanon'[h].height = h
             /\ prunePruned' \in Nat /\ pruneTruncations' \in Nat
             /\ Prune!MissingIsMarked'
             /\ Prune!LastBlocksKept'
  BY <1>1, <1>5 DEF Prune!MissingIsMarked, Prune!LastBlocksKept, Prune!Heights
<1>6. CASE Prune!MarkBlockPruned
  BY <1>1, <1>5, <1>6 DEF Prune!MarkBlockPruned, Prune!chainVars
<1>7. CASE Prune!SetPrunedHeight
  <2>1. /\ Prune!InPass(Prune!Steps[3]) /\ prunePruned' = Prune!Height
        /\ UNCHANGED <<pruneCanon, pruneStored, pruneTruncations, pruneMarked>>
    BY <1>7 DEF Prune!SetPrunedHeight, Prune!Steps, Prune!chainVars
  <2>2. Prune!Height \in Nat
    BY <2>1, PassRuns
  <2> QED BY <1>5, <2>1, <2>2
<1>8. ASSUME NEW h \in 1..PruneMaxHeight, Prune!GetBlock(h)
      PROVE  UNCHANGED <<pruneCanon, pruneStored, pruneTruncations, pruneMarked, prunePruned>>
  BY <1>8 DEF Prune!GetBlock, Prune!chainVars
<1>9. CASE \/ Prune!Evict \/ Prune!StartPass \/ Prune!MarkFails
           \/ Prune!Crash \/ Prune!Restart \/ UNCHANGED Prune!vars
  <2>1. UNCHANGED <<pruneCanon, pruneStored, pruneTruncations, pruneMarked, prunePruned>>
    BY <1>9 DEF Prune!Evict, Prune!StartPass, Prune!MarkFails, Prune!Crash,
                Prune!Restart, Prune!vars, Prune!chainVars
  <2> QED BY <1>1, <1>5, <2>1
<1>10. [Prune!Next]_(Prune!vars)
  OBVIOUS
<1> QED BY <1>1, <1>2, <1>3, <1>4, <1>5, <1>6, <1>7, <1>8, <1>9, <1>10 DEF Prune!Next

\* For any depth, batch size, length of the chain and number of truncations,
\* with crashes anywhere: a block of the chain that is missing is marked, and
\* until a sync truncates the chain the last Depth blocks are kept
\* (Prune, pruneBlockBatch, MarkBlockPruned, DeleteBlockData).
THEOREM PruningStaysSound == Prune!Spec => []PruningSound
<1> DEFINE Inv == /\ Prune!TypeOK /\ Prune!MarkedFirst /\ Prune!OldHeights
                  /\ Prune!MissingIsMarked /\ Prune!LastBlocksKept
<1>1. Prune!Init => Inv
  BY DEF Prune!Init, Prune!TypeOK, Prune!PassOK, Prune!MarkedFirst,
         Prune!OldHeights, Prune!MissingIsMarked, Prune!LastBlocksKept,
         Prune!Heights, Prune!NoPass, Prune!Pass
<1>2. Inv /\ [Prune!Next]_(Prune!vars) => Inv'
  BY PassStep, StoreStep DEF Prune!TypeOK
<1>3. Inv => PruningSound
  BY DEF PruningSound
<1> QED BY <1>1, <1>2, <1>3, PTL DEF Prune!Spec

-----------------------------------------------------------------------------
(* Times and difficulties: averages are sums of gaps, none below the target. *)

\* Sums and bounds, of the instance
LEMMA DiffSum ==
  ASSUME NEW g
  PROVE  Diff!SumFunction(g) = SumFunction(g)
BY DEF Diff!SumFunction, Diff!SumFunctionOnSet, Diff!FoldFunctionOnSet, Diff!MapThenFoldSet,
       SumFunction, SumFunctionOnSet, FoldFunctionOnSet, MapThenFoldSet

LEMMA DiffMax ==
  ASSUME NEW a \in Int, NEW b \in Int
  PROVE  Diff!Max({a, b}) = IF a >= b THEN a ELSE b
<1> DEFINE c == IF a >= b THEN a ELSE b
<1>1. c \in {a, b} /\ \A y \in {a, b} : c >= y
  OBVIOUS
<1>2. \A x \in {a, b} : (\A y \in {a, b} : x >= y) => x = c
  OBVIOUS
<1> QED BY <1>1, <1>2 DEF Diff!Max

LEMMA DiffMin ==
  ASSUME NEW a \in Int, NEW b \in Int
  PROVE  Diff!Min({a, b}) = IF a <= b THEN a ELSE b
<1> DEFINE c == IF a <= b THEN a ELSE b
<1>1. c \in {a, b} /\ \A y \in {a, b} : y >= c
  OBVIOUS
<1>2. \A x \in {a, b} : (\A y \in {a, b} : y >= x) => x = c
  OBVIOUS
<1> QED BY <1>1, <1>2 DEF Diff!Min

\* The distance of two blocks counts as what it is, up to MaxGap.
LEMMA GapIs ==
  ASSUME NEW before \in Int, NEW after \in Int, after - before >= DiffTarget
  PROVE  /\ Diff!Gap(before, after) \in Int /\ Diff!Gap(before, after) >= DiffTarget
         /\ Diff!Gap(before, after) = DiffTarget => after - before = DiffTarget
<1> DEFINE d == after - before
<1>1. /\ d \in Int /\ DiffTarget \in Nat /\ DiffMaxGap \in Nat
      /\ 2 <= DiffTarget /\ DiffTarget < DiffMaxGap /\ d >= DiffTarget
  BY DiffAssumption
<1>2. Diff!Max({1, d}) = d
  <2>1. Diff!Max({1, d}) = IF 1 >= d THEN 1 ELSE d
    <3> HIDE DEF d
    <3> QED BY <1>1, DiffMax
  <2> QED BY <1>1, <2>1
<1>3. Diff!Min({DiffMaxGap, d}) = IF DiffMaxGap <= d THEN DiffMaxGap ELSE d
  <2> HIDE DEF d
  <2> QED BY <1>1, DiffMin
<1>4. Diff!Gap(before, after) = IF DiffMaxGap <= d THEN DiffMaxGap ELSE d
  BY <1>2, <1>3 DEF Diff!Gap
<1> HIDE DEF d
<1>5. /\ Diff!Gap(before, after) \in Int /\ Diff!Gap(before, after) >= DiffTarget
      /\ Diff!Gap(before, after) = DiffTarget => d = DiffTarget
  BY <1>1, <1>4
<1> QED BY <1>5 DEF d

\* Numbers that are at least t add up to t for each, and to no more only if all
\* of them are t.
LEMMA SumAtLeast ==
  ASSUME NEW n \in Nat, NEW g, Numbers(g, 1, n), NEW t \in Nat, \A i \in 1..n : g[i] >= t
  PROVE  /\ SumFunction(g) >= t * n
         /\ SumFunction(g) <= t * n => \A i \in 1..n : g[i] = t
<1> DEFINE S(k) == SumFunctionOnSet(g, 1..k)
           T == {k \in 0..n : S(k) >= t * k /\ (S(k) <= t * k => \A i \in 1..k : g[i] = t)}
<1>1. \A i \in 1..n : g[i] \in Int
  BY DEF Numbers
<1>2. ASSUME NEW k \in 0..n PROVE S(k) \in Int
  <2> DEFINE A == 1..k
  <2>1. Summable(g, A)
    BY <1>1, FS_Interval DEF Summable
  <2> HIDE DEF A
  <2>2. SumFunctionOnSet(g, A) \in Int
    BY <2>1, SumType
  <2> QED BY <2>2 DEF A
<1>3. 0 \in T
  <2>1. 1..0 = {} /\ t * 0 = 0
    OBVIOUS
  <2>2. S(0) = 0
    BY <2>1, SumEmpty
  <2> QED BY <2>1, <2>2
<1>4. ASSUME NEW k \in 0..n, k < n, k \in T PROVE k + 1 \in T
  <2>1. k \in Nat /\ k + 1 \in 0..n /\ k + 1 \in 1..n
    BY <1>4
  <2>2. S(k + 1) = S(k) + g[k + 1]
    <3>1. 1 <= k + 1 /\ 1 \in Int /\ k \in Int
      BY <2>1
    <3>2. \A i \in 1..(k + 1) : g[i] \in Int
      BY <1>1, <2>1
    <3> QED BY <3>1, <3>2, SumNext
  <2>3. t * (k + 1) = t * k + t /\ t * k \in Int
    BY <2>1
  <2>4. S(k) \in Int /\ g[k + 1] \in Int /\ g[k + 1] >= t
    BY <1>1, <1>2, <2>1
  <2>5. S(k) >= t * k /\ (S(k) <= t * k => \A i \in 1..k : g[i] = t)
    BY <1>4
  <2> HIDE DEF S
  <2>6. S(k + 1) >= t * (k + 1)
    BY <2>2, <2>3, <2>4, <2>5
  <2>7. ASSUME S(k + 1) <= t * (k + 1) PROVE \A i \in 1..(k + 1) : g[i] = t
    <3>1. S(k) <= t * k /\ g[k + 1] = t
      BY <2>2, <2>3, <2>4, <2>5, <2>7
    <3>2. \A i \in 1..(k + 1) : i \in 1..k \/ i = k + 1
      BY <2>1
    <3> QED BY <2>5, <3>1, <3>2
  <2> QED BY <2>1, <2>6, <2>7
<1>5. \A k \in 0..n : k \in T
  <2> HIDE DEF T
  <2> QED BY <1>3, <1>4, UpTo
<1>6. n \in T
  BY <1>5
<1>7. SumFunction(g) = S(n)
  BY SumOf
<1> QED BY <1>6, <1>7

\* times lie at least the target apart.
Apart(times) ==
  /\ times \in Seq(Int) /\ Len(times) >= 2
  /\ \A i \in 1..(Len(times) - 1) : times[i + 1] - times[i] >= DiffTarget

\* Their total is the target for each distance, or more.
LEMMA TotalIs ==
  ASSUME NEW times, Apart(times), NEW n, n = Len(times) - 1
  PROVE  /\ n \in Nat /\ 1 <= n /\ Diff!Total(times) \in Int
         /\ Diff!Total(times) >= DiffTarget * n
         /\ Diff!Total(times) <= DiffTarget * n
              => \A i \in 1..n : times[i + 1] - times[i] = DiffTarget
<1> DEFINE g == [i \in 1..n |-> Diff!Gap(times[i], times[i + 1])]
<1>1. n \in Nat /\ 1 <= n /\ DiffTarget \in Nat
  BY DiffAssumption DEF Apart
<1>2. ASSUME NEW i \in 1..n
      PROVE  /\ g[i] \in Int /\ g[i] >= DiffTarget
             /\ g[i] = DiffTarget => times[i + 1] - times[i] = DiffTarget
  <2>1. /\ times[i] \in Int /\ times[i + 1] \in Int
        /\ times[i + 1] - times[i] >= DiffTarget
    BY DEF Apart
  <2>2. g[i] = Diff!Gap(times[i], times[i + 1])
    OBVIOUS
  <2> DEFINE a == times[i]
             b == times[i + 1]
  <2> HIDE DEF a, b, g
  <2>3. a \in Int /\ b \in Int /\ b - a >= DiffTarget /\ g[i] = Diff!Gap(a, b)
    BY <2>1, <2>2 DEF a, b
  <2>4. /\ Diff!Gap(a, b) \in Int /\ Diff!Gap(a, b) >= DiffTarget
        /\ Diff!Gap(a, b) = DiffTarget => b - a = DiffTarget
    BY <2>3, GapIs
  <2> QED BY <2>3, <2>4 DEF a, b
<1>3. Numbers(g, 1, n)
  <2>1. g = [i \in 1..n |-> g[i]]
    OBVIOUS
  <2> QED BY <1>2, <2>1 DEF Numbers
<1>4. Diff!Total(times) = SumFunction(g)
  <2>1. Diff!Total(times) = Diff!SumFunction(g)
    BY DEF Diff!Total
  <2> QED BY <2>1, DiffSum
<1> HIDE DEF g
<1>5. SumFunction(g) \in Int
  BY <1>1, <1>3, SumOf
<1>6. /\ SumFunction(g) >= DiffTarget * n
      /\ SumFunction(g) <= DiffTarget * n => \A i \in 1..n : g[i] = DiffTarget
  BY <1>1, <1>2, <1>3, SumAtLeast
<1> QED BY <1>1, <1>2, <1>4, <1>5, <1>6

\* A chain of headers, each long enough after the one before
Spaced(c) ==
  /\ c \in Seq([time : Int, base : Nat \ {0}]) /\ Len(c) >= 1
  /\ \A h \in 2..Len(c) : c[h].time >= c[h - 1].time + DiffTarget

Times(c, time) == Diff!Averaged(c, Diff!Timestamps(c, time))

LEMMA TimestampsApart ==
  ASSUME NEW c, Spaced(c), NEW time \in Int, time >= c[Len(c)].time + DiffTarget
  PROVE  /\ Apart(Diff!Timestamps(c, time))
         /\ Len(c) >= DiffDGWWindow => Len(Diff!Timestamps(c, time)) >= DiffDGWWindow + 1
<1> DEFINE n == Len(c)
           first == Diff!Max({1, n - DiffAdjustmentWindow + 1})
           k == n - first + 1
           s == [i \in 1..k |-> c[first + i - 1].time]
           times == Diff!Timestamps(c, time)
<1>1. n \in Nat /\ 1 <= n /\ \A h \in 1..n : c[h].time \in Int
  <2>1. n \in Nat /\ 1 <= n
    BY DEF Spaced
  <2>2. ASSUME NEW h \in 1..n PROVE c[h].time \in Int
    <3> DEFINE R == [time : Int, base : Nat \ {0}]
    <3>1. c \in Seq(R) /\ h \in 1..Len(c)
      BY DEF Spaced
    <3>2. c[h] \in R
      <4> HIDE DEF R, n
      <4> QED BY <3>1
    <3> QED BY <3>2
  <2> QED BY <2>1, <2>2
<1>2. /\ DiffAdjustmentWindow \in Nat /\ 2 <= DiffAdjustmentWindow
      /\ DiffDGWWindow \in Nat /\ DiffDGWWindow <= DiffAdjustmentWindow
      /\ DiffTarget \in Nat
  BY DiffAssumption
<1>3. first = IF 1 >= n - DiffAdjustmentWindow + 1 THEN 1 ELSE n - DiffAdjustmentWindow + 1
  <2> DEFINE x == n - DiffAdjustmentWindow + 1
  <2>1. x \in Int
    BY <1>1, <1>2
  <2> HIDE DEF x
  <2>2. Diff!Max({1, x}) = IF 1 >= x THEN 1 ELSE x
    BY <2>1, DiffMax
  <2> QED BY <2>2 DEF x
<1>4. times = s \o <<time>>
  BY DEF Diff!Timestamps
<1> HIDE DEF first, n
<1>5. first \in 1..n /\ k \in Nat /\ 1 <= k /\ first + k - 1 = n
      /\ (n >= DiffDGWWindow => k >= DiffDGWWindow)
  BY <1>1, <1>2, <1>3
<1> HIDE DEF k
<1>6. s \in Seq(Int) /\ Len(s) = k /\ \A i \in 1..k : s[i] = c[first + i - 1].time
  <2>1. \A i \in 1..k : first + i - 1 \in 1..n
    BY <1>1, <1>5
  <2>2. s \in [1..k -> Int]
    BY <1>1, <2>1
  <2>3. \A i \in 1..k : s[i] = c[first + i - 1].time
    OBVIOUS
  <2> HIDE DEF s
  <2>4. s \in Seq(Int) /\ Len(s) = k
    BY <1>5, <2>2
  <2> QED BY <2>3, <2>4
<1> HIDE DEF s, times
<1>7. /\ times \in Seq(Int) /\ Len(times) = k + 1
      /\ \A i \in 1..k : times[i] = s[i]
      /\ times[k + 1] = time
  BY <1>4, <1>5, <1>6
<1>8. ASSUME NEW i \in 1..k PROVE times[i + 1] - times[i] >= DiffTarget
  <2>1. times[i] = c[first + i - 1].time /\ first + i - 1 \in 1..n
    BY <1>1, <1>5, <1>6, <1>7
  <2>2. CASE i < k
    <3> DEFINE h == first + i
    <3>1. i + 1 \in 1..k /\ h \in 2..n /\ first + (i + 1) - 1 = h
      BY <1>1, <1>5, <2>2
    <3>2. times[i + 1] = c[h].time
      BY <1>6, <1>7, <3>1
    <3>3. c[h].time >= c[h - 1].time + DiffTarget
      BY <3>1 DEF Spaced, n
    <3>4. c[h].time \in Int /\ c[h - 1].time \in Int
      BY <1>1, <2>1, <3>1
    <3>5. times[i] = c[h - 1].time
      <4>1. h - 1 = first + i - 1
        BY <1>5
      <4> QED BY <2>1, <4>1
    <3> QED BY <1>2, <3>2, <3>3, <3>4, <3>5
  <2>3. CASE i = k
    <3>1. times[i] = c[n].time /\ times[i + 1] = time
      BY <1>5, <1>7, <2>1, <2>3
    <3> QED BY <1>1, <1>2, <3>1 DEF n
  <2> QED BY <1>5, <2>2, <2>3
<1>9. Apart(times)
  BY <1>5, <1>7, <1>8 DEF Apart
<1>10. n >= DiffDGWWindow => Len(times) >= DiffDGWWindow + 1
  BY <1>2, <1>5, <1>7
<1> QED BY <1>9, <1>10 DEF times, n

LEMMA TimesApart ==
  ASSUME NEW c, Spaced(c), NEW time \in Int, time >= c[Len(c)].time + DiffTarget
  PROVE  Apart(Times(c, time))
<1> DEFINE s == Diff!Timestamps(c, time)
           first == Len(s) - DiffDGWWindow + 1
           r == SubSeq(s, first, Len(s))
<1>1. Apart(s) /\ (Len(c) >= DiffDGWWindow => Len(s) >= DiffDGWWindow + 1)
  BY TimestampsApart
<1> HIDE DEF s
<1>2. DiffDGWWindow \in Nat /\ 2 <= DiffDGWWindow
  BY DiffAssumption
<1>3. Times(c, time) = IF Len(c) >= DiffDGWWindow THEN r ELSE s
  BY DEF Times, Diff!Averaged, s
<1>4. ASSUME Len(c) >= DiffDGWWindow PROVE Apart(r)
  <2>1. s \in Seq(Int) /\ Len(s) \in Nat /\ first \in 1..Len(s)
    BY <1>1, <1>2, <1>4 DEF Apart
  <2>2. /\ r \in Seq(Int) /\ Len(r) = DiffDGWWindow
        /\ \A i \in 1..DiffDGWWindow : r[i] = s[first + i - 1]
    <3>1. Len(s) - first + 1 = DiffDGWWindow
      BY <1>2, <2>1
    <3> HIDE DEF first
    <3>2. r \in Seq(Int) /\ Len(r) = Len(s) - first + 1
      BY <2>1
    <3>3. \A i \in 1..(Len(s) - first + 1) : r[i] = s[first + i - 1]
      BY <2>1
    <3> QED BY <3>1, <3>2, <3>3
  <2>3. ASSUME NEW i \in 1..(DiffDGWWindow - 1) PROVE r[i + 1] - r[i] >= DiffTarget
    <3>1. /\ first + i - 1 \in 1..(Len(s) - 1)
          /\ first + (i + 1) - 1 = (first + i - 1) + 1
          /\ i \in 1..DiffDGWWindow /\ i + 1 \in 1..DiffDGWWindow
      BY <1>2, <2>1
    <3>2. s[(first + i - 1) + 1] - s[first + i - 1] >= DiffTarget
      BY <1>1, <3>1 DEF Apart
    <3> HIDE DEF first, r
    <3> QED BY <2>2, <3>1, <3>2
  <2> HIDE DEF r
  <2> QED BY <1>2, <2>2, <2>3 DEF Apart
<1> QED BY <1>1, <1>3, <1>4

LEMMA ProductLe ==
  ASSUME NEW a \in Nat, NEW x \in Nat, NEW y \in Nat, x <= y
  PROVE  a * x \in Nat /\ a * x <= a * y
OBVIOUS

LEMMA DivLe ==
  ASSUME NEW p \in Nat, NEW a \in Nat, NEW y \in Nat, 1 <= y, p <= a * y
  PROVE  p \div y \in Nat /\ p \div y <= a
<1> DEFINE q == p \div y
<1>1. q \in Nat /\ q * y <= p
  OBVIOUS
<1> HIDE DEF q
<1>2. ASSUME a + 1 <= q PROVE FALSE
  <2>1. (a + 1) * y <= q * y
    BY <1>1, <1>2
  <2>2. (a + 1) * y = a * y + y
    OBVIOUS
  <2> QED BY <1>1, <2>1, <2>2
<1>3. q <= a
  BY <1>1, <1>2
<1> QED BY <1>1, <1>3 DEF q

\* What a difficulty is scaled to is not above it.
LEMMA ScaledLe ==
  ASSUME NEW current \in Nat \ {0}, NEW n \in Nat, 1 <= n, NEW total \in Int,
         total >= DiffTarget * n
  PROVE  /\ Diff!Scaled(current, total, n) \in Int
         /\ Diff!Scaled(current, total, n) <= current
<1> DEFINE x == DiffTarget * n
           product == current * DiffTarget * n
<1>1. /\ DiffTarget \in Nat /\ 2 <= DiffTarget /\ DiffFactor \in Nat /\ 2 <= DiffFactor
  BY DiffAssumption
<1>2. x \in Nat /\ 1 <= x
  <2>1. x \in Nat /\ x >= DiffTarget * 1
    BY <1>1
  <2> QED BY <1>1, <2>1
<1>3. product = current * x
  BY <1>1
<1>4. DiffFactor * DiffTarget * n \in Int
  BY <1>1
<1> DEFINE f == DiffFactor * total
           y == DiffFactor * DiffTarget * n
<1>5. f \in Int /\ f > x
  <2>1. DiffFactor * total \in Int /\ DiffFactor * total >= 2 * total
    <3> HIDE DEF x
    <3>1. total \in Nat
      BY <1>2 DEF x
    <3> QED BY <1>1, <3>1
  <2> HIDE DEF x
  <2>2. total >= x
    BY DEF x
  <2> QED BY <1>2, <2>1, <2>2
<1>6. product \in Nat /\ product <= current * total
  <2> HIDE DEF x, product
  <2>1. total \in Nat /\ x <= total
    BY <1>2 DEF x
  <2> QED BY <1>2, <1>3, <2>1, ProductLe
<1>7. current \div DiffFactor \in Nat /\ current \div DiffFactor <= current
  <2>1. current * 1 <= current * DiffFactor /\ current * 1 = current
    BY <1>1
  <2> QED BY <1>1, <2>1, DivLe
<1>8. product \div total \in Nat /\ product \div total <= current
  <2> HIDE DEF x, product
  <2>1. total \in Nat /\ 1 <= total
    BY <1>2 DEF x
  <2> QED BY <1>6, <2>1, DivLe
<1>9. \/ Diff!Scaled(current, total, n) = current \div DiffFactor
      \/ Diff!Scaled(current, total, n) = product \div total
      \/ Diff!Scaled(current, total, n) = product \div total - 1
  <2>1. Diff!Scaled(current, total, n) =
          CASE x >= f -> DiffFactor * current
            [] y <= total -> current \div DiffFactor
            [] OTHER -> IF product % total = 0 /\ total # x /\ diffShort
                          THEN product \div total - 1 ELSE product \div total
    BY DEF Diff!Scaled
  <2>2. ~ (x >= f)
    <3> HIDE DEF x, f
    <3> QED BY <1>2, <1>5
  <2> DEFINE d == product \div total
             e == current \div DiffFactor
             g == DiffFactor * current
             w == product % total = 0 /\ total # x /\ diffShort
  <2> HIDE DEF x, f, y, product, d, e, g, w
  <2>3. Diff!Scaled(current, total, n) =
          CASE x >= f -> g
            [] y <= total -> e
            [] OTHER -> IF w THEN d - 1 ELSE d
    BY <2>1 DEF d, e, g, w
  <2>4. CASE y <= total
    <3>1. Diff!Scaled(current, total, n) = e
      BY <2>2, <2>3, <2>4
    <3> QED BY <3>1 DEF e
  <2>5. CASE ~ (y <= total)
    <3>1. Diff!Scaled(current, total, n) = IF w THEN d - 1 ELSE d
      BY <2>2, <2>3, <2>5
    <3>2. CASE w
      BY <3>1, <3>2 DEF d
    <3>3. CASE ~ w
      BY <3>1, <3>3 DEF d
    <3> QED BY <3>2, <3>3
  <2> QED BY <2>4, <2>5
<1> DEFINE d == product \div total
           e == current \div DiffFactor
<1> HIDE DEF product, d, e
<1>10. /\ d \in Nat /\ d <= current /\ e \in Nat /\ e <= current
       /\ \/ Diff!Scaled(current, total, n) = e
          \/ Diff!Scaled(current, total, n) = d
          \/ Diff!Scaled(current, total, n) = d - 1
  BY <1>7, <1>8, <1>9 DEF d, e
<1> QED BY <1>10

\* What a block on top of a chain must have as its difficulty
LEMMA ExpectedIs ==
  ASSUME NEW c, Spaced(c), NEW time \in Int, time >= c[Len(c)].time + DiffTarget,
         NEW current, current = c[Len(c)].base
  PROVE  /\ current \in Nat \ {0}
         /\ Diff!Expected(c, time) \in Nat \ {0}
         /\ Diff!Expected(c, time) <= current + 1
         /\ Diff!Expected(c, time) > current =>
              \A i \in 1..(Len(Times(c, time)) - 1) :
                 Times(c, time)[i + 1] - Times(c, time)[i] = DiffTarget
         /\ current = 1 => Diff!Expected(c, time) = 1
<1> DEFINE times == Times(c, time)
           n == Len(times) - 1
           total == Diff!Total(times)
           scaled == Diff!Scaled(current, total, n)
           adjusted == Diff!Max({1, scaled})
           apart == \A i \in 1..n : times[i + 1] - times[i] = DiffTarget
<1>1. current \in Nat \ {0} /\ current = Diff!Last(c).base
  <2> DEFINE R == [time : Int, base : Nat \ {0}]
  <2>1. c \in Seq(R) /\ Len(c) \in 1..Len(c)
    BY DEF Spaced
  <2>2. c[Len(c)] \in R
    <3> HIDE DEF R
    <3> QED BY <2>1
  <2>3. Diff!Last(c) = c[Len(c)]
    BY DEF Diff!Last
  <2> QED BY <2>2, <2>3
<1>2. Diff!Expected(c, time) = Diff!Changed(current, adjusted, total, n)
  BY <1>1 DEF Diff!Expected, Times
<1>3. Apart(times)
  BY TimesApart
<1> HIDE DEF times
<1>4. /\ n \in Nat /\ 1 <= n /\ total \in Int /\ total >= DiffTarget * n
      /\ total <= DiffTarget * n => apart
  BY <1>3, TotalIs
<1> HIDE DEF n, total, apart
<1>5. scaled \in Int /\ scaled <= current
  BY <1>1, <1>4, ScaledLe
<1> HIDE DEF scaled
<1>6. adjusted = IF 1 >= scaled THEN 1 ELSE scaled
  BY <1>5, DiffMax
<1> HIDE DEF adjusted
<1>7. adjusted \in Nat \ {0} /\ adjusted <= current
  BY <1>1, <1>5, <1>6
<1> DEFINE x == DiffTarget * n
           new == Diff!Expected(c, time)
<1>8. new = IF adjusted # current \/ current = 1 THEN adjusted
            ELSE IF total <= x THEN current + 1 ELSE current - 1
  BY <1>2 DEF Diff!Changed
<1> HIDE DEF x, new
<1>9. total <= x => apart
  BY <1>4 DEF x
<1>10. /\ new \in Nat \ {0} /\ new <= current + 1 /\ (new > current => total <= x)
       /\ (current = 1 => new = 1)
  BY <1>1, <1>7, <1>8
<1>11. new > current => apart
  BY <1>9, <1>10
<1> QED BY <1>1, <1>10, <1>11 DEF new, apart, n, times

Headers == Seq([time : Int, base : Nat \ {0}])

LEMMA HeaderIs ==
  ASSUME NEW c \in Headers, NEW h \in 1..Len(c)
  PROVE  c[h].time \in Int /\ c[h].base \in Nat \ {0}
<1> DEFINE R == [time : Int, base : Nat \ {0}]
<1>1. c \in Seq(R)
  BY DEF Headers
<1>2. c[h] \in R
  <2> HIDE DEF R
  <2> QED BY <1>1
<1> QED BY <1>2

\* The blocks up to a height, and what is the same with one block more
LEMMA Prefix ==
  ASSUME NEW c \in Headers, NEW k \in 1..Len(c)
  PROVE  /\ SubSeq(c, 1, k) \in Headers /\ Len(SubSeq(c, 1, k)) = k
         /\ \A i \in 1..k : SubSeq(c, 1, k)[i] = c[i]
         /\ Diff!Last(SubSeq(c, 1, k)) = c[k]
<1> DEFINE R == [time : Int, base : Nat \ {0}]
           d == SubSeq(c, 1, k)
<1>1. c \in Seq(R) /\ k \in Nat /\ 1 <= k /\ k <= Len(c) /\ Len(c) \in Nat
  BY DEF Headers
<1>2. d \in Seq(R) /\ Len(d) = k /\ \A i \in 1..k : d[i] = c[i]
  <2> HIDE DEF R
  <2> QED BY <1>1
<1>3. Diff!Last(d) = c[k]
  BY <1>1, <1>2 DEF Diff!Last
<1> QED BY <1>2, <1>3 DEF Headers

LEMMA PrefixStays ==
  ASSUME NEW c \in Headers, NEW b \in [time : Int, base : Nat \ {0}]
  PROVE  /\ Append(c, b) \in Headers /\ Len(Append(c, b)) = Len(c) + 1
         /\ \A i \in 1..Len(c) : Append(c, b)[i] = c[i]
         /\ Append(c, b)[Len(c) + 1] = b
         /\ \A k \in 0..Len(c) : SubSeq(Append(c, b), 1, k) = SubSeq(c, 1, k)
         /\ SubSeq(c, 1, Len(c)) = c
<1> DEFINE R == [time : Int, base : Nat \ {0}]
           d == Append(c, b)
<1>1. c \in Seq(R) /\ Len(c) \in Nat /\ b \in R
  BY DEF Headers
<1>2. /\ d \in Seq(R) /\ Len(d) = Len(c) + 1
      /\ \A i \in 1..Len(c) : d[i] = c[i]
      /\ d[Len(c) + 1] = b
  <2> HIDE DEF R
  <2> QED BY <1>1
<1>3. ASSUME NEW k \in 0..Len(c) PROVE SubSeq(d, 1, k) = SubSeq(c, 1, k)
  <2> HIDE DEF R, d
  <2>1. /\ SubSeq(d, 1, k) \in Seq(R) /\ Len(SubSeq(d, 1, k)) = k
        /\ \A i \in 1..k : SubSeq(d, 1, k)[i] = d[i]
    BY <1>1, <1>2
  <2>2. /\ SubSeq(c, 1, k) \in Seq(R) /\ Len(SubSeq(c, 1, k)) = k
        /\ \A i \in 1..k : SubSeq(c, 1, k)[i] = c[i]
    BY <1>1
  <2> DEFINE x == SubSeq(d, 1, k)
             y == SubSeq(c, 1, k)
  <2>3. \A i \in 1..k : x[i] = y[i]
    BY <1>2, <2>1, <2>2
  <2> HIDE DEF x, y
  <2>4. x \in Seq(R) /\ y \in Seq(R) /\ Len(x) = k /\ Len(y) = k
    BY <2>1, <2>2 DEF x, y
  <2>5. x = y
    BY <2>3, <2>4
  <2> QED BY <2>5 DEF x, y
<1>4. SubSeq(c, 1, Len(c)) = c
  <2> HIDE DEF R
  <2> QED BY <1>1
<1> QED BY <1>2, <1>3, <1>4 DEF Headers

\* Accepted(c): each block of c was accepted on top of its parent.
Accepted(c) ==
  /\ c \in Headers /\ Len(c) >= 1
  /\ \A h \in 2..Len(c) :
       /\ c[h].time >= c[h - 1].time + DiffTarget
       /\ c[h].base = Diff!Expected(SubSeq(c, 1, h - 1), c[h].time)

LEMMA PrefixSpaced ==
  ASSUME NEW c, Accepted(c), NEW k \in 1..Len(c)
  PROVE  Spaced(SubSeq(c, 1, k))
<1> DEFINE d == SubSeq(c, 1, k)
<1>1. /\ c \in Headers /\ Len(c) \in Nat /\ k \in Nat /\ 1 <= k
      /\ \A h \in 2..k : c[h].time >= c[h - 1].time + DiffTarget
  BY DEF Accepted, Headers
<1>2. d \in Headers /\ Len(d) = k /\ \A i \in 1..k : d[i] = c[i]
  BY <1>1, Prefix
<1> HIDE DEF d
<1>3. ASSUME NEW h \in 2..k PROVE d[h].time >= d[h - 1].time + DiffTarget
  <2>1. h \in 1..k /\ h - 1 \in 1..k
    OBVIOUS
  <2>2. d[h] = c[h] /\ d[h - 1] = c[h - 1]
    BY <1>2, <2>1
  <2> QED BY <1>1, <2>2
<1>4. Spaced(d)
  BY <1>1, <1>2, <1>3 DEF Spaced, Headers
<1> QED BY <1>4 DEF d

\* A block that is accepted
LEMMA AcceptedMore ==
  ASSUME NEW c, Accepted(c), NEW time \in Int, NEW base,
         time >= c[Len(c)].time + DiffTarget, base = Diff!Expected(c, time)
  PROVE  /\ [time |-> time, base |-> base] \in [time : Int, base : Nat \ {0}]
         /\ Accepted(Append(c, [time |-> time, base |-> base]))
<1> DEFINE b == [time |-> time, base |-> base]
           d == Append(c, b)
           n == Len(c)
<1>1. /\ c \in Headers /\ n \in Nat /\ 1 <= n
      /\ \A h \in 2..n : /\ c[h].time >= c[h - 1].time + DiffTarget
                         /\ c[h].base = Diff!Expected(SubSeq(c, 1, h - 1), c[h].time)
  BY DEF Accepted, Headers
<1>2. SubSeq(c, 1, n) = c
  <2>1. c \in Seq([time : Int, base : Nat \ {0}])
    BY <1>1 DEF Headers
  <2> DEFINE R == [time : Int, base : Nat \ {0}]
  <2>2. c \in Seq(R)
    BY <2>1
  <2> HIDE DEF R
  <2> QED BY <2>2
<1>3. Spaced(c)
  <2>1. Spaced(SubSeq(c, 1, n))
    BY <1>1, PrefixSpaced
  <2> QED BY <1>2, <2>1
<1>4. base \in Nat \ {0}
  <2> DEFINE current == c[n].base
  <2> HIDE DEF current
  <2>1. current = c[Len(c)].base
    BY DEF current
  <2>2. Diff!Expected(c, time) \in Nat \ {0}
    BY <1>3, <2>1, ExpectedIs
  <2> QED BY <2>2
<1>5. b \in [time : Int, base : Nat \ {0}] /\ b.time = time /\ b.base = base
  BY <1>4
<1> HIDE DEF b
<1>6. /\ d \in Headers /\ Len(d) = n + 1
      /\ \A i \in 1..n : d[i] = c[i]
      /\ d[n + 1] = b
      /\ \A k \in 0..n : SubSeq(d, 1, k) = SubSeq(c, 1, k)
  BY <1>1, <1>5, PrefixStays
<1> HIDE DEF d
<1>7. ASSUME NEW h \in 2..Len(d)
      PROVE  /\ d[h].time >= d[h - 1].time + DiffTarget
             /\ d[h].base = Diff!Expected(SubSeq(d, 1, h - 1), d[h].time)
  <2>1. h - 1 \in 1..n /\ h - 1 \in 0..n /\ h \in 2..(n + 1)
    BY <1>1, <1>6
  <2>2. d[h - 1] = c[h - 1] /\ SubSeq(d, 1, h - 1) = SubSeq(c, 1, h - 1)
    BY <1>6, <2>1
  <2>3. CASE h \in 2..n
    <3>1. d[h] = c[h]
      BY <1>6, <2>3
    <3>2. /\ c[h].time >= c[h - 1].time + DiffTarget
          /\ c[h].base = Diff!Expected(SubSeq(c, 1, h - 1), c[h].time)
      BY <1>1, <2>3
    <3> QED BY <2>2, <3>1, <3>2
  <2>4. CASE h = n + 1
    <3>1. h - 1 = n
      BY <1>1, <2>4
    <3>2. d[h] = b /\ d[h - 1] = c[n] /\ SubSeq(d, 1, h - 1) = c
      BY <1>2, <1>6, <2>2, <2>4, <3>1
    <3>3. time >= c[n].time + DiffTarget
      OBVIOUS
    <3> HIDE DEF n
    <3> QED BY <1>5, <3>2, <3>3
  <2> QED BY <2>1, <2>3, <2>4, <1>1
<1> DEFINE good(h) == /\ d[h].time >= d[h - 1].time + DiffTarget
                      /\ d[h].base = Diff!Expected(SubSeq(d, 1, h - 1), d[h].time)
<1>8. Accepted(d)
  <2>1. \A h \in 2..Len(d) : good(h)
    BY <1>7
  <2>2. Len(d) >= 1
    BY <1>1, <1>6
  <2> QED BY <1>6, <2>1, <2>2 DEF Accepted
<1> QED BY <1>5, <1>8 DEF b, d

-----------------------------------------------------------------------------
(* The headers of the network *)

\* The invariant, in the words of the lemmas
HeadersParts ==
  /\ diffSkew \in DiffSkews /\ diffShort \in BOOLEAN /\ diffNow \in Nat
  /\ Accepted(diffChain)
  /\ diffHave \in [DiffNodes -> 1..Len(diffChain)]
  /\ diffTemplate = [n \in DiffNodes |-> diffTemplate[n]]
  /\ \A h \in 2..Len(diffChain), n \in DiffNodes :
       diffChain[h].time <= diffNow + diffSkew[n] + DiffDrift
  /\ Diff!TemplatesInTime

LEMMA HeadersNow == Diff!HeadersInvariant <=> HeadersParts
<1>1. Diff!ChainAccepted <=>
        /\ \A h \in 2..Len(diffChain) :
             /\ diffChain[h].time >= diffChain[h - 1].time + DiffTarget
             /\ diffChain[h].base
                  = Diff!Expected(SubSeq(diffChain, 1, h - 1), diffChain[h].time)
        /\ \A h \in 2..Len(diffChain), n \in DiffNodes :
             diffChain[h].time <= diffNow + diffSkew[n] + DiffDrift
  BY DEF Diff!ChainAccepted, Diff!LongEnoughAfter, Diff!Clock
<1> QED BY <1>1 DEF Diff!HeadersInvariant, Diff!TypeOK, Accepted, Headers, HeadersParts

LEMMA HeadersNext == Diff!HeadersInvariant' <=> HeadersParts'
BY HeadersNow, PTL

\* Rounding is the same throughout a behaviour.
LEMMA AcceptedNext ==
  ASSUME diffShort' = diffShort, Accepted(diffChain')
  PROVE  Accepted(diffChain)'
<1>1. ASSUME NEW current, NEW total, NEW n
      PROVE  Diff!Scaled(current, total, n)' = Diff!Scaled(current, total, n)
  BY DEF Diff!Scaled
<1>2. ASSUME NEW c, NEW time
      PROVE  Diff!Expected(c, time)' = Diff!Expected(c, time)
  BY <1>1 DEF Diff!Expected
<1> QED BY <1>2 DEF Accepted

LEMMA ClockIs ==
  ASSUME Diff!HeadersInvariant, NEW n \in DiffNodes
  PROVE  /\ diffNow \in Nat /\ diffSkew[n] \in Int /\ Diff!Clock(n) = diffNow + diffSkew[n]
         /\ Diff!Clock(n) \in Int /\ DiffDrift \in Nat
         /\ \A m \in DiffNodes : Diff!Clock(m) <= diffNow + diffSkew[n] + DiffDrift
<1>1. /\ diffNow \in Nat /\ diffSkew \in [DiffNodes -> Int] /\ DiffDrift \in Nat
      /\ \A m \in DiffNodes : diffSkew[m] - diffSkew[n] <= DiffDrift
  BY HeadersNow, DiffAssumption DEF HeadersParts
<1>2. \A m \in DiffNodes : Diff!Clock(m) = diffNow + diffSkew[m] /\ diffSkew[m] \in Int
  BY <1>1 DEF Diff!Clock
<1> QED BY <1>1, <1>2

LEMMA HeadersInit == Diff!Init => Diff!HeadersInvariant
<1> SUFFICES ASSUME Diff!Init PROVE Diff!HeadersInvariant
  OBVIOUS
<1> DEFINE b == [time |-> 0, base |-> DiffGenesis]
           R == [time : Int, base : Nat \ {0}]
<1>1. /\ diffSkew \in DiffSkews /\ diffShort \in BOOLEAN /\ diffNow = 1 /\ diffChain = <<b>>
      /\ diffHave = [n \in DiffNodes |-> 1]
      /\ diffTemplate = [n \in DiffNodes |-> Diff!NoBlock]
  BY DEF Diff!Init
<1>2. b \in R
  BY DiffAssumption
<1>3. diffChain \in Seq(R) /\ Len(diffChain) = 1
  <2> HIDE DEF b, R
  <2> QED BY <1>1, <1>2
<1>4. 2..1 = {} /\ 1 \in 1..1
  OBVIOUS
<1>5. Accepted(diffChain)
  <2>1. Len(diffChain) >= 1
    BY <1>3
  <2> QED BY <1>3, <1>4, <2>1 DEF Accepted, Headers
<1>6. Diff!TemplatesInTime
  BY <1>1 DEF Diff!TemplatesInTime
<1>7. /\ diffHave \in [DiffNodes -> 1..Len(diffChain)]
      /\ diffTemplate = [n \in DiffNodes |-> diffTemplate[n]]
  BY <1>1, <1>3, <1>4
<1> QED BY <1>1, <1>3, <1>4, <1>5, <1>6, <1>7, HeadersNow DEF HeadersParts

LEMMA TickKeeps ==
  ASSUME Diff!HeadersInvariant, Diff!Tick
  PROVE  Diff!HeadersInvariant'
<1>1. /\ diffNow' = diffNow + 1 /\ diffSkew' = diffSkew /\ diffShort' = diffShort
      /\ diffChain' = diffChain /\ diffHave' = diffHave /\ diffTemplate' = diffTemplate
  BY DEF Diff!Tick
<1>2. ASSUME NEW n \in DiffNodes
      PROVE  Diff!Clock(n)' = Diff!Clock(n) + 1 /\ Diff!Clock(n) \in Int
  BY <1>1, ClockIs DEF Diff!Clock
<1>3. Diff!TemplatesInTime'
  <2> SUFFICES ASSUME NEW m \in DiffNodes, diffTemplate[m] # Diff!NoBlock
               PROVE  LET b == diffTemplate[m]
                      IN  /\ b.height \in 1..diffHave[m] /\ b.time \in Int
                          /\ \/ b.time <= Diff!Clock(m)'
                             \/ b.time = diffChain[b.height].time + 1
    BY <1>1 DEF Diff!TemplatesInTime
  <2> DEFINE b == diffTemplate[m]
  <2>1. /\ b.height \in 1..diffHave[m] /\ b.time \in Int
        /\ b.time <= Diff!Clock(m) \/ b.time = diffChain[b.height].time + 1
    BY HeadersNow DEF Diff!TemplatesInTime, HeadersParts
  <2> HIDE DEF b
  <2>2. b.time <= Diff!Clock(m) => b.time <= Diff!Clock(m)'
    BY <1>2, <2>1
  <2> QED BY <2>1, <2>2 DEF b
<1>4. ASSUME NEW h \in 2..Len(diffChain), NEW n \in DiffNodes
      PROVE  diffChain[h].time <= diffNow' + diffSkew[n] + DiffDrift
  <2>1. diffChain[h].time <= diffNow + diffSkew[n] + DiffDrift
    BY <1>4, HeadersNow DEF HeadersParts
  <2>2. diffChain \in Headers /\ h \in 1..Len(diffChain)
    BY HeadersNow DEF Accepted, HeadersParts
  <2>3. diffChain[h].time \in Int
    BY <2>2, HeaderIs
  <2>4. diffNow \in Nat /\ diffSkew[n] \in Int /\ DiffDrift \in Nat
    BY ClockIs
  <2> QED BY <1>1, <2>1, <2>3, <2>4
<1>5. diffNow' \in Nat
  BY <1>1, HeadersNow DEF HeadersParts
<1>6. Accepted(diffChain)'
  BY <1>1, HeadersNow, AcceptedNext DEF HeadersParts
<1> QED BY <1>1, <1>3, <1>4, <1>5, <1>6, HeadersNow, HeadersNext DEF HeadersParts

LEMMA CreateNewBlockKeeps ==
  ASSUME Diff!HeadersInvariant, NEW m \in DiffNodes, Diff!CreateNewBlock(m)
  PROVE  Diff!HeadersInvariant'
<1> DEFINE c == Diff!Chain(m)
           time == Diff!HeaderTime(m, Diff!Last(c))
           base == Diff!Expected(c, time)
           b == [height |-> Len(c), time |-> time, base |-> base]
           k == diffHave[m]
<1>1. /\ diffNow' = diffNow /\ diffSkew' = diffSkew /\ diffShort' = diffShort
      /\ diffChain' = diffChain /\ diffHave' = diffHave
      /\ diffTemplate' = [diffTemplate EXCEPT ![m] = b]
  BY DEF Diff!CreateNewBlock
<1>2. /\ diffChain \in Headers /\ k \in 1..Len(diffChain) /\ c = SubSeq(diffChain, 1, k)
      /\ k \in 1..k
  BY HeadersNow DEF Accepted, Diff!Chain, HeadersParts
<1>3. Len(c) = k /\ Diff!Last(c) = diffChain[k]
  <2> HIDE DEF c, k
  <2> QED BY <1>2, Prefix
<1> HIDE DEF c
<1>4. diffChain[k].time \in Int
  <2> HIDE DEF k
  <2> QED BY <1>2, HeaderIs
<1>5. /\ time \in Int
      /\ time <= Diff!Clock(m) \/ time = diffChain[k].time + 1
  <2> DEFINE x == diffChain[k].time + 1
             y == Diff!Clock(m)
  <2>1. time = Diff!Max({x, y})
    BY <1>3 DEF Diff!HeaderTime
  <2>2. x \in Int /\ y \in Int
    BY <1>4, ClockIs
  <2> HIDE DEF x, y, time
  <2>3. time = IF x >= y THEN x ELSE y
    BY <2>1, <2>2, DiffMax
  <2>4. time \in Int /\ (time <= y \/ time = x)
    BY <2>2, <2>3
  <2> QED BY <2>4 DEF x, y
<1> HIDE DEF time, base
<1>6. b.height = k /\ b.time = time
  BY <1>3
<1> HIDE DEF b, k
<1>7. /\ diffTemplate' = [n \in DiffNodes |-> diffTemplate'[n]]
      /\ diffTemplate'[m] = b
      /\ \A n \in DiffNodes : n # m => diffTemplate'[n] = diffTemplate[n]
  BY <1>1, HeadersNow DEF HeadersParts
<1>8. Diff!TemplatesInTime'
  <2> SUFFICES ASSUME NEW n \in DiffNodes, NEW t, t = diffTemplate'[n], t # Diff!NoBlock
               PROVE  /\ t.height \in 1..diffHave[n] /\ t.time \in Int
                      /\ t.time <= Diff!Clock(n) \/ t.time = diffChain[t.height].time + 1
    BY <1>1 DEF Diff!TemplatesInTime, Diff!Clock
  <2>1. CASE n = m
    <3>1. t = b
      BY <1>7, <2>1
    <3> QED BY <1>2, <1>5, <1>6, <2>1, <3>1 DEF k
  <2>2. CASE n # m
    <3>1. t = diffTemplate[n]
      BY <1>7, <2>2
    <3> QED BY <3>1, HeadersNow DEF Diff!TemplatesInTime, HeadersParts
  <2> QED BY <2>1, <2>2
<1>9. Accepted(diffChain)'
  BY <1>1, HeadersNow, AcceptedNext DEF HeadersParts
<1> QED BY <1>1, <1>7, <1>8, <1>9, HeadersNow, HeadersNext DEF HeadersParts

LEMMA EndRoundKeeps ==
  ASSUME Diff!HeadersInvariant, NEW m \in DiffNodes, Diff!EndRound(m)
  PROVE  Diff!HeadersInvariant'
<1> DEFINE b == diffTemplate[m]
           c == diffChain
           n == Len(c)
           e == [time |-> b.time, base |-> b.base]
<1>1. /\ diffNow' = diffNow /\ diffSkew' = diffSkew /\ diffShort' = diffShort
      /\ b # Diff!NoBlock
      /\ diffTemplate' = [diffTemplate EXCEPT ![m] = Diff!NoBlock]
      /\ \/ diffChain' = c /\ diffHave' = diffHave
         \/ /\ b.height = diffHave[m] /\ diffHave[m] = n
            /\ Diff!Accepts(m, Diff!Chain(m), b)
            /\ diffChain' = Append(c, e)
            /\ diffHave' = [diffHave EXCEPT ![m] = @ + 1]
  BY DEF Diff!EndRound
<1>2. /\ Accepted(c) /\ c \in Headers /\ n \in Nat /\ 1 <= n
      /\ diffHave \in [DiffNodes -> 1..n]
  BY HeadersNow DEF Accepted, Headers, HeadersParts
<1>3. /\ diffTemplate' = [p \in DiffNodes |-> diffTemplate'[p]]
      /\ diffTemplate'[m] = Diff!NoBlock
      /\ \A p \in DiffNodes : p # m => diffTemplate'[p] = diffTemplate[p]
  BY <1>1, HeadersNow DEF HeadersParts
<1>4. ASSUME NEW p \in DiffNodes, diffTemplate'[p] # Diff!NoBlock
      PROVE  LET t == diffTemplate'[p]
             IN  /\ t.height \in 1..diffHave[p] /\ t.time \in Int
                 /\ t.time <= Diff!Clock(p) \/ t.time = c[t.height].time + 1
  BY <1>3, <1>4, HeadersNow DEF Diff!TemplatesInTime, HeadersParts
<1>5. ASSUME diffChain' = c, diffHave' = diffHave PROVE Diff!HeadersInvariant'
  <2>1. Diff!TemplatesInTime'
    BY <1>1, <1>4, <1>5 DEF Diff!TemplatesInTime, Diff!Clock
  <2>2. Accepted(diffChain)'
    BY <1>1, <1>2, <1>5, AcceptedNext
  <2> QED BY <1>1, <1>3, <1>5, <2>1, <2>2, HeadersNow, HeadersNext DEF HeadersParts
<1>6. ASSUME /\ b.height = diffHave[m] /\ diffHave[m] = n
             /\ Diff!Accepts(m, Diff!Chain(m), b)
             /\ diffChain' = Append(c, e)
             /\ diffHave' = [diffHave EXCEPT ![m] = @ + 1]
      PROVE  Diff!HeadersInvariant'
  <2>1. Diff!Chain(m) = c /\ Diff!Last(c) = c[n]
    <3>1. c \in Seq([time : Int, base : Nat \ {0}])
      BY <1>2 DEF Headers
    <3> DEFINE R == [time : Int, base : Nat \ {0}]
    <3>2. c \in Seq(R)
      BY <3>1
    <3>3. Diff!Chain(m) = SubSeq(c, 1, n)
      BY <1>6 DEF Diff!Chain
    <3> HIDE DEF R
    <3> QED BY <3>2, <3>3 DEF Diff!Last
  <2>2. /\ b.time >= c[n].time + DiffTarget /\ b.base = Diff!Expected(c, b.time)
    BY <1>6, <2>1 DEF Diff!Accepts, Diff!LongEnoughAfter
  <2>3. /\ b.time \in Int
        /\ b.time <= Diff!Clock(m) \/ b.time = c[b.height].time + 1
    BY <1>1, HeadersNow DEF Diff!TemplatesInTime, HeadersParts
  <2>4. b.time <= Diff!Clock(m)
    <3>1. n \in 1..Len(c)
      BY <1>2
    <3>2. c[n].time \in Int
      BY <1>2, <3>1, HeaderIs
    <3>3. DiffTarget \in Nat /\ 2 <= DiffTarget
      BY DiffAssumption
    <3>4. b.height = n
      BY <1>6
    <3> DEFINE t == b.time
               u == c[n].time
    <3>5. t \in Int /\ u \in Int /\ t >= u + DiffTarget /\ (t <= Diff!Clock(m) \/ t = u + 1)
      BY <2>2, <2>3, <3>2, <3>4
    <3> HIDE DEF t, u, b
    <3>6. t <= Diff!Clock(m)
      BY <3>3, <3>5
    <3> QED BY <3>6 DEF t
  <2>5. e \in [time : Int, base : Nat \ {0}] /\ Accepted(Append(c, e)) /\ e.time = b.time
    <3> DEFINE time == b.time
               base == b.base
    <3>1. /\ time \in Int /\ time >= c[Len(c)].time + DiffTarget
          /\ base = Diff!Expected(c, time)
      BY <2>2, <2>3
    <3>2. e = [time |-> time, base |-> base]
      OBVIOUS
    <3> HIDE DEF time, base, e, c
    <3>3. /\ [time |-> time, base |-> base] \in [time : Int, base : Nat \ {0}]
          /\ Accepted(Append(c, [time |-> time, base |-> base]))
      BY <1>2, <3>1, AcceptedMore
    <3>4. e.time = time
      BY <3>2
    <3> QED BY <3>2, <3>3, <3>4 DEF time
  <2> HIDE DEF e
  <2>6. /\ Len(diffChain') = n + 1
        /\ \A i \in 1..n : diffChain'[i] = c[i]
        /\ diffChain'[n + 1] = e
    <3> HIDE DEF c, b
    <3> QED BY <1>2, <1>6, <2>5, PrefixStays
  <2>7. /\ diffHave' \in [DiffNodes -> 1..(n + 1)]
        /\ \A p \in DiffNodes : diffHave[p] \in 1..n /\ diffHave[p] <= diffHave'[p]
    <3>1. diffHave'[m] = n + 1 /\ \A p \in DiffNodes : p # m => diffHave'[p] = diffHave[p]
      BY <1>2, <1>6
    <3>2. \A p \in DiffNodes : diffHave[p] \in 1..n
      BY <1>2
    <3>3. \A p \in DiffNodes : diffHave'[p] \in 1..(n + 1) /\ diffHave[p] <= diffHave'[p]
      <4> HIDE DEF n
      <4> QED BY <1>2, <1>6, <3>1, <3>2
    <3>4. diffHave' = [p \in DiffNodes |-> diffHave'[p]]
      BY <1>2, <1>6
    <3> QED BY <3>2, <3>3, <3>4
  <2>8. Diff!TemplatesInTime'
    <3> SUFFICES ASSUME NEW p \in DiffNodes, NEW t, t = diffTemplate'[p], t # Diff!NoBlock
                 PROVE  /\ t.height \in 1..diffHave'[p] /\ t.time \in Int
                        /\ \/ t.time <= Diff!Clock(p)
                           \/ t.time = diffChain'[t.height].time + 1
      BY <1>1 DEF Diff!TemplatesInTime, Diff!Clock
    <3>1. /\ t.height \in 1..diffHave[p] /\ t.time \in Int
          /\ t.time <= Diff!Clock(p) \/ t.time = c[t.height].time + 1
      BY <1>4
    <3>2. /\ diffHave[p] \in 1..n /\ diffHave[p] <= diffHave'[p]
          /\ diffHave'[p] \in 1..(n + 1)
      BY <2>7
    <3>3. t.height \in 1..diffHave'[p] /\ t.height \in 1..n
      <4> HIDE DEF n
      <4> QED BY <1>2, <3>1, <3>2
    <3>4. diffChain'[t.height] = c[t.height]
      BY <2>6, <3>3
    <3> QED BY <3>1, <3>3, <3>4
  <2>9. ASSUME NEW h \in 2..(n + 1), NEW p \in DiffNodes
        PROVE  diffChain'[h].time <= diffNow + diffSkew[p] + DiffDrift
    <3>1. CASE h \in 2..n
      <4>1. h \in 1..n
        BY <3>1
      <4>2. diffChain'[h] = c[h]
        BY <2>6, <4>1
      <4>3. c[h].time <= diffNow + diffSkew[p] + DiffDrift
        BY <2>9, <3>1, HeadersNow DEF HeadersParts
      <4> QED BY <4>2, <4>3
    <3>2. CASE h = n + 1
      <4>1. diffChain'[h].time = b.time
        BY <2>5, <2>6, <3>2
      <4>2. /\ Diff!Clock(m) <= diffNow + diffSkew[p] + DiffDrift /\ Diff!Clock(m) \in Int
            /\ diffNow \in Nat /\ diffSkew[p] \in Int /\ DiffDrift \in Nat
        BY ClockIs
      <4> DEFINE t == b.time
      <4>3. t \in Int /\ t <= Diff!Clock(m)
        BY <2>3, <2>4
      <4> HIDE DEF t
      <4>4. t <= diffNow + diffSkew[p] + DiffDrift
        BY <4>2, <4>3
      <4> QED BY <4>1, <4>4 DEF t
    <3> QED BY <1>2, <2>9, <3>1, <3>2
  <2>10. Accepted(diffChain)'
    BY <1>1, <1>6, <2>5, AcceptedNext
  <2> HIDE DEF n
  <2> QED BY <1>1, <1>3, <2>6, <2>7, <2>8, <2>9, <2>10, HeadersNow,
            HeadersNext DEF HeadersParts
<1> QED BY <1>1, <1>5, <1>6

LEMMA ReceiveKeeps ==
  ASSUME Diff!HeadersInvariant, NEW m \in DiffNodes, Diff!Receive(m)
  PROVE  Diff!HeadersInvariant'
<1>1. /\ diffNow' = diffNow /\ diffSkew' = diffSkew /\ diffShort' = diffShort
      /\ diffChain' = diffChain /\ diffTemplate' = diffTemplate
      /\ diffHave[m] < Len(diffChain)
      /\ diffHave' = [diffHave EXCEPT ![m] = @ + 1]
  BY DEF Diff!Receive
<1> DEFINE n == Len(diffChain)
<1>2. n \in Nat /\ diffHave \in [DiffNodes -> 1..n]
  BY HeadersNow DEF Accepted, Headers, HeadersParts
<1>3. /\ diffHave' = [p \in DiffNodes |-> diffHave'[p]]
      /\ \A p \in DiffNodes : diffHave[p] <= diffHave'[p] /\ diffHave'[p] \in 1..n
  <2>1. /\ diffHave' = [p \in DiffNodes |-> diffHave'[p]]
        /\ diffHave'[m] = diffHave[m] + 1
        /\ \A p \in DiffNodes : p # m => diffHave'[p] = diffHave[p]
    BY <1>1, <1>2
  <2>2. \A p \in DiffNodes : diffHave[p] \in 1..n
    BY <1>2
  <2>3. diffHave[m] < n
    BY <1>1
  <2> HIDE DEF n
  <2> QED BY <1>2, <2>1, <2>2, <2>3
<1>4. Diff!TemplatesInTime'
  <2> SUFFICES ASSUME NEW p \in DiffNodes, NEW t, t = diffTemplate[p], t # Diff!NoBlock
               PROVE  /\ t.height \in 1..diffHave'[p] /\ t.time \in Int
                      /\ t.time <= Diff!Clock(p) \/ t.time = diffChain[t.height].time + 1
    BY <1>1 DEF Diff!TemplatesInTime, Diff!Clock
  <2>1. /\ t.height \in 1..diffHave[p] /\ t.time \in Int
        /\ t.time <= Diff!Clock(p) \/ t.time = diffChain[t.height].time + 1
    BY HeadersNow DEF Diff!TemplatesInTime, HeadersParts
  <2>2. diffHave[p] <= diffHave'[p] /\ diffHave[p] \in 1..n /\ diffHave'[p] \in 1..n
    BY <1>2, <1>3
  <2>3. t.height \in 1..diffHave'[p]
    <3> HIDE DEF n
    <3> QED BY <1>2, <2>1, <2>2
  <2> QED BY <2>1, <2>3
<1>5. diffHave' \in [DiffNodes -> 1..n]
  BY <1>3
<1>6. Accepted(diffChain)'
  BY <1>1, HeadersNow, AcceptedNext DEF HeadersParts
<1> QED BY <1>1, <1>4, <1>5, <1>6, HeadersNow, HeadersNext DEF HeadersParts

\* What was accepted rises by one at most, and is accepted everywhere.
LEMMA HeadersEnough == Diff!HeadersInvariant => HeadersSound
<1> SUFFICES ASSUME Diff!HeadersInvariant PROVE HeadersSound
  OBVIOUS
<1> DEFINE c == diffChain
<1>1. /\ Accepted(c) /\ c \in Headers /\ Len(c) \in Nat
      /\ diffHave \in [DiffNodes -> 1..Len(c)]
  BY HeadersNow DEF Accepted, Headers, HeadersParts
<1>2. ASSUME NEW h \in 2..Len(c)
      PROVE  LET parents == SubSeq(c, 1, h - 1)
                 times == Diff!Averaged(parents, Diff!Timestamps(parents, c[h].time))
                 before == c[h - 1].base
             IN  /\ c[h].base <= before + 1
                 /\ c[h].base > before =>
                      \A i \in 1..(Len(times) - 1) : times[i + 1] - times[i] = DiffTarget
                 /\ before = 1 => c[h].base = 1
  <2> DEFINE parents == SubSeq(c, 1, h - 1)
             time == c[h].time
             before == c[h - 1].base
  <2>1. h - 1 \in 1..Len(c) /\ h \in 1..Len(c)
    BY <1>1
  <2>2. time \in Int
    BY <1>1, <2>1, HeaderIs
  <2>3. /\ Spaced(parents) /\ Len(parents) = h - 1
        /\ parents[h - 1] = c[h - 1]
    <3>1. /\ Len(parents) = h - 1 /\ \A i \in 1..(h - 1) : parents[i] = c[i]
      BY <1>1, <2>1, Prefix
    <3>2. h - 1 \in 1..(h - 1)
      BY <2>1
    <3> QED BY <1>1, <2>1, <3>1, <3>2, PrefixSpaced
  <2>4. /\ time >= c[h - 1].time + DiffTarget
        /\ c[h].base = Diff!Expected(parents, time)
    BY <1>1 DEF Accepted
  <2> HIDE DEF parents, time, before
  <2>5. time >= parents[Len(parents)].time + DiffTarget /\ before = parents[Len(parents)].base
    BY <2>3, <2>4 DEF before
  <2>6. /\ Diff!Expected(parents, time) <= before + 1
        /\ Diff!Expected(parents, time) > before =>
             \A i \in 1..(Len(Times(parents, time)) - 1) :
                Times(parents, time)[i + 1] - Times(parents, time)[i] = DiffTarget
        /\ before = 1 => Diff!Expected(parents, time) = 1
    BY <2>2, <2>3, <2>5, ExpectedIs
  <2> QED BY <2>4, <2>6 DEF parents, time, before, Times
<1>3. Diff!DifficultyRatchet
  BY <1>2 DEF Diff!DifficultyRatchet
<1>4. ASSUME NEW n \in DiffNodes, diffHave[n] < Len(c)
      PROVE  Diff!Accepts(n, Diff!Chain(n), c[diffHave[n] + 1])
  <2> DEFINE k == diffHave[n]
             h == k + 1
  <2>1. k \in 1..Len(c) /\ h \in 2..Len(c) /\ h - 1 = k
    BY <1>1, <1>4
  <2>2. Diff!Chain(n) = SubSeq(c, 1, k) /\ Diff!Last(SubSeq(c, 1, k)) = c[k]
    <3> HIDE DEF k, c
    <3>1. Diff!Last(SubSeq(c, 1, k)) = c[k]
      BY <1>1, <2>1, Prefix
    <3> QED BY <3>1 DEF Diff!Chain, k, c
  <2>3. /\ c[h].time >= c[h - 1].time + DiffTarget
        /\ c[h].base = Diff!Expected(SubSeq(c, 1, h - 1), c[h].time)
    <3> HIDE DEF h, c
    <3> QED BY <1>1, <2>1 DEF Accepted
  <2>4. c[h].time <= diffNow + diffSkew[n] + DiffDrift
    BY <2>1, HeadersNow DEF HeadersParts
  <2> HIDE DEF k, c
  <2> QED BY <2>1, <2>2, <2>3, <2>4 DEF Diff!Accepts, Diff!LongEnoughAfter, Diff!Clock, k
<1>5. Diff!AcceptedEverywhere
  BY <1>4 DEF Diff!AcceptedEverywhere
<1> QED BY <1>3, <1>5 DEF HeadersSound

\* For any clocks within the drift, any windows and any miners, of which each has
\* a part of the network's chain: a difficulty rises by one at most, and only
\* after blocks that all came at their first moment, never from 1; and what one
\* node could add, every node that has its parent accepts (CalculateDifficulty,
\* ensureDifficultyChanges, updateTime, validateDifficulty).
THEOREM HeadersStaySound == Diff!Spec => []HeadersSound
<1>1. Diff!HeadersInvariant /\ [Diff!Next]_(Diff!vars) => Diff!HeadersInvariant'
  <2> SUFFICES ASSUME Diff!HeadersInvariant, [Diff!Next]_(Diff!vars)
               PROVE  Diff!HeadersInvariant'
    OBVIOUS
  <2>1. CASE UNCHANGED Diff!vars
    <3>1. /\ diffNow' = diffNow /\ diffSkew' = diffSkew /\ diffShort' = diffShort
          /\ diffChain' = diffChain /\ diffHave' = diffHave /\ diffTemplate' = diffTemplate
      BY <2>1 DEF Diff!vars
    <3>2. Diff!TemplatesInTime'
      BY <3>1, HeadersNow DEF Diff!TemplatesInTime, Diff!Clock, HeadersParts
    <3>3. Accepted(diffChain)'
      BY <3>1, HeadersNow, AcceptedNext DEF HeadersParts
    <3> QED BY <3>1, <3>2, <3>3, HeadersNow, HeadersNext DEF HeadersParts
  <2>2. CASE Diff!Next
    BY <2>2, TickKeeps, CreateNewBlockKeeps, EndRoundKeeps, ReceiveKeeps DEF Diff!Next
  <2> QED BY <2>1, <2>2
<1> QED BY <1>1, HeadersInit, HeadersEnough, PTL DEF Diff!Spec

=============================================================================
