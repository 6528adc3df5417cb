----------------------------- MODULE NodeProofs -----------------------------
(***************************************************************************)
(* What a node does by itself, proved for every value of the constants:    *)
(* the mining loop (Mining), the node's life on its data directory         *)
(* (Lifecycle), the wallets (Wallets) and the kings' turns (RotatingKing). *)
(* The last three are the instances of MCNode.                             *)
(***************************************************************************)
EXTENDS MCNode, SumLemmas, TLAPS, SequenceTheorems

-----------------------------------------------------------------------------
(* Mining: a pause takes effect. *)

\* A block is counted as late only in a pause, and the loop then waits for a
\* tick that it will not act on.
LateThenTick ==
  /\ ~Paused => late = 0
  /\ \/ late = 0
     \/ late = 1 /\ loop \in {"tick", "none"}

LEMMA LateStep ==
  ASSUME LateThenTick, [Next]_vars
  PROVE  LateThenTick'
<1> USE DEF LateThenTick, Paused, NewPause
<1>1. CASE UNCHANGED vars
  BY <1>1 DEF vars, chainVars, flagVars
<1>2. CASE StartMining
  BY <1>2 DEF StartMining, chainVars
<1>3. CASE HandleStopMining \/ ResetBegin \/ StopMining \/ StopP2P \/ StartSync
  BY <1>3 DEF HandleStopMining, ResetBegin, StopMining, StopP2P, StartSync, chainVars,
              flagVars
<1>4. CASE ResetEnd \/ StopSync \/ CooldownOver
  BY <1>4 DEF ResetEnd, StopSync, CooldownOver, chainVars, flagVars
<1>5. CASE PeerBlock \/ Reorganize \/ PoolChanges \/ \E m \in Miners : StartMiner(m)
  BY <1>5 DEF PeerBlock, Reorganize, PoolChanges, StartMiner, chainVars, flagVars
<1>6. CASE LoopStep
  <2>1. CASE LoopEnds \/ Tick \/ LookAtTip \/ CreateNewBlock
    BY <2>1 DEF LoopEnds, Tick, LookAtTip, CreateNewBlock, Goto, chainVars,
                flagVars
  <2>2. CASE ShareWork
    BY <2>2 DEF ShareWork, Goto, chainVars, flagVars
  <2>3. CASE TakeResult \/ Timeout
    BY <2>3 DEF TakeResult, Timeout, Goto, chainVars, flagVars
  <2>4. CASE Submit
    BY <2>4 DEF Submit, Goto, chainVars, flagVars
  <2> QED BY <1>6, <2>1, <2>2, <2>3, <2>4 DEF LoopStep
<1>7. CASE \E w \in Workers : WorkerStep(w)
  BY <1>7 DEF WorkerStep, TakeWork, Requeue, MineWork, SendResult, WorkerStops,
              MoveWorker, chainVars, flagVars
<1> QED BY <1>1, <1>2, <1>3, <1>4, <1>5, <1>6, <1>7 DEF Next

\* However rounds, stops, resets, syncs and the shutdown interleave, and for any
\* number of miners and any capacity of the channels, at most the block of the
\* round under way is submitted in a pause (miningLoop, submitBlock).
THEOREM PauseIsTaken == Spec => []PauseTakesEffect
<1>1. Init => LateThenTick
  BY DEF Init, LateThenTick
<1>2. LateThenTick /\ [Next]_vars => LateThenTick'
  BY LateStep
<1>3. LateThenTick => PauseTakesEffect
  BY DEF LateThenTick, PauseTakesEffect
<1> QED BY <1>1, <1>2, <1>3, PTL DEF Spec

-----------------------------------------------------------------------------
(* Lifecycle: pending transactions survive stops and starts. *)

LifeInvariant == Life!TypeOK /\ Life!LockHeld /\ Life!OneCopy

LEMMA LifeInit == Life!Init => LifeInvariant /\ PendingSurvives
BY DEF Life!Init, LifeInvariant, Life!TypeOK, Life!LockHeld, Life!OneCopy,
       Life!Phases, Life!None, PendingSurvives, Life!PendingSurvives

LEMMA LifeStep ==
  ASSUME LifeInvariant, [Life!Next]_(Life!vars)
  PROVE  LifeInvariant' /\ (PendingSurvives => PendingSurvives')
<1> USE LifeAssumption
    DEF LifeInvariant, PendingSurvives, Life!PendingSurvives, Life!TypeOK,
        Life!LockHeld, Life!OneCopy, Life!Phases, Life!None, Life!disk
<1> DEFINE Kept == LifeInvariant' /\ (PendingSurvives => PendingSurvives')
<1>1. CASE UNCHANGED Life!vars
  BY <1>1 DEF Life!vars, Life!process
<1>2. ASSUME NEW p \in LifeProcesses, Life!AcquireDataDirLock(p)
      PROVE  Kept
  BY <1>2 DEF Life!AcquireDataDirLock, Life!Goes
<1>3. ASSUME NEW p \in LifeProcesses, Life!OpenChain(p)
      PROVE  Kept
  BY <1>3 DEF Life!OpenChain, Life!Goes
<1>4. ASSUME NEW p \in LifeProcesses, Life!LoadPool(p)
      PROVE  Kept
  BY <1>4 DEF Life!LoadPool, Life!Goes
<1>5. ASSUME NEW p \in LifeProcesses, Life!StartServices(p)
      PROVE  Kept
  BY <1>5 DEF Life!StartServices, Life!Goes
<1>6. ASSUME NEW p \in LifeProcesses, NEW t \in LifeTxs, Life!Submit(p, t)
      PROVE  Kept
  BY <1>6 DEF Life!Submit
<1>7. ASSUME NEW p \in LifeProcesses, Life!ExecuteBlock(p)
      PROVE  Kept
  BY <1>7 DEF Life!ExecuteBlock, Life!StateMuFree
<1>8. ASSUME NEW p \in LifeProcesses, Life!WriteBlock(p)
      PROVE  Kept
  BY <1>8 DEF Life!WriteBlock, Life!Open, Life!StateMuFree
<1>9. ASSUME NEW p \in LifeProcesses, Life!ReorgStarts(p)
      PROVE  Kept
  BY <1>9 DEF Life!ReorgStarts, Life!StateMuFree
<1>10. ASSUME NEW p \in LifeProcesses, Life!ReorgEnds(p)
      PROVE  Kept
  BY <1>10 DEF Life!ReorgEnds
<1>11. ASSUME NEW p \in LifeProcesses, Life!SyncChanges(p)
      PROVE  Kept
  BY <1>11 DEF Life!SyncChanges
<1>21. ASSUME NEW p \in LifeProcesses, Life!RequestShutdown(p)
      PROVE  Kept
  BY <1>21 DEF Life!RequestShutdown, Life!Goes
<1>13. ASSUME NEW p \in LifeProcesses, Life!WaitForFinalBlockSync(p)
      PROVE  Kept
  BY <1>13 DEF Life!WaitForFinalBlockSync, Life!Goes
<1>14. ASSUME NEW p \in LifeProcesses, Life!StopServices(p)
      PROVE  Kept
  BY <1>14 DEF Life!StopServices, Life!Goes
<1>15. ASSUME NEW p \in LifeProcesses, Life!CloseTakesLocks(p)
      PROVE  Kept
  BY <1>15 DEF Life!CloseTakesLocks, Life!Goes, Life!StateMuFree
<1>16. ASSUME NEW p \in LifeProcesses, Life!CloseChain(p)
      PROVE  Kept
  BY <1>16 DEF Life!CloseChain, Life!Goes
<1>17. ASSUME NEW p \in LifeProcesses, Life!SavePool(p)
      PROVE  Kept
  BY <1>17 DEF Life!SavePool, Life!Goes
<1>18. ASSUME NEW p \in LifeProcesses, Life!Return(p)
      PROVE  Kept
  BY <1>18 DEF Life!Return, Life!Goes
<1>19. ASSUME NEW p \in LifeProcesses, Life!Dies(p)
      PROVE  Kept
  BY <1>19 DEF Life!Dies
<1>20. ASSUME NEW p \in LifeProcesses, Life!Step(p)
      PROVE  Kept
  BY <1>20, <1>2, <1>3, <1>4, <1>5, <1>6, <1>7, <1>8, <1>9, <1>10, <1>11,
     <1>21, <1>13, <1>14, <1>15, <1>16, <1>17, <1>18, <1>19
     DEF Life!Step, Life!MainStep, Life!Die, Life!WriteClosed
<1> QED BY <1>1, <1>20 DEF Life!Next

\* A transaction that some pool admitted is in the chain, in a pool or in the
\* file, for any number of processes started and stopped on one data directory,
\* unless a process died with it (runNode, LoadFromDisk, SaveToDisk,
\* AcquireDataDirLock).
THEOREM PendingStays == Life!Spec => []PendingSurvives
<1>1. Life!Init => LifeInvariant /\ PendingSurvives
  BY LifeInit
<1>2. LifeInvariant /\ PendingSurvives /\ [Life!Next]_(Life!vars)
      => LifeInvariant' /\ PendingSurvives'
  BY LifeStep
<1> QED BY <1>1, <1>2, PTL DEF Life!Spec

-----------------------------------------------------------------------------
(* Wallets: keys are kept, and open as the user was told. *)

\* What is true of the files of every account after a write has begun.
LEMMA WriteBegins ==
  ASSUME NEW a \in PurseAccounts, NEW p \in PursePasswords,
         Purse!TypeOK, Purse!WriteFile(a, p)
  PROVE  /\ purseFiles' \in [PurseAccounts -> Seq(Purse!EncryptedKeys)]
         /\ Purse!HasFile(a)' /\ Purse!Newest(purseFiles'[a]) = Purse!Encrypted(p)
         /\ \A b \in PurseAccounts \ {a} : purseFiles'[b] = purseFiles[b]
         /\ \A b : Purse!Kept(b) => Purse!Kept(b)'
<1> DEFINE f == Purse!Encrypted(p)
           fs == purseFiles[a]
<1>1. f \in Purse!EncryptedKeys
  BY DEF Purse!Encrypted, Purse!EncryptedKeys
<1>2. fs \in Seq(Purse!EncryptedKeys)
  BY DEF Purse!TypeOK
<1>3. /\ purseFiles \in [PurseAccounts -> Seq(Purse!EncryptedKeys)]
      /\ purseFiles' = [purseFiles EXCEPT ![a] = Append(fs, f)]
  BY DEF Purse!WriteFile, Purse!WithFile, Purse!TypeOK
<1> HIDE DEF f
<1>4. /\ Append(fs, f) \in Seq(Purse!EncryptedKeys)
      /\ Append(fs, f) # <<>>
      /\ Append(fs, f)[Len(Append(fs, f))] = f
      /\ \A i \in DOMAIN fs : i \in DOMAIN Append(fs, f) /\ Append(fs, f)[i] = fs[i]
  BY <1>1, <1>2
<1>5. purseFiles'[a] = Append(fs, f)
  BY <1>3
<1>6. ASSUME NEW b, Purse!Kept(b)
      PROVE  Purse!Kept(b)'
  BY <1>3, <1>4, <1>6 DEF Purse!Kept
<1> QED BY <1>3, <1>4, <1>5, <1>6 DEF Purse!HasFile, Purse!Newest, f

\* And after it has ended.
LEMMA WriteEnds ==
  ASSUME NEW a \in PurseAccounts, NEW p, Purse!TypeOK, Purse!HasFile(a),
         Purse!Newest(purseFiles[a]) = Purse!Encrypted(p),
         purseFiles' = [purseFiles EXCEPT ![a] = Purse!LastWhole(@)]
  PROVE  /\ purseFiles' \in [PurseAccounts -> Seq(Purse!EncryptedKeys)]
         /\ Purse!KeyOpens(a, p)' /\ Purse!Kept(a)'
         /\ \A b \in PurseAccounts \ {a} : purseFiles'[b] = purseFiles[b]
         /\ \A b : Purse!Kept(b) => Purse!Kept(b)'
<1> DEFINE fs == purseFiles[a]
           n == Len(fs)
           w == Purse!Whole(p)
           gs == [fs EXCEPT ![n] = w]
<1>1. /\ fs \in Seq(Purse!EncryptedKeys) /\ n \in 1..Len(fs)
      /\ fs[n] = Purse!Encrypted(p)
  BY DEF Purse!TypeOK, Purse!HasFile, Purse!Newest
<1>2. /\ purseFiles \in [PurseAccounts -> Seq(Purse!EncryptedKeys)]
      /\ purseFiles' = [purseFiles EXCEPT ![a] = gs]
  BY <1>1 DEF Purse!LastWhole, Purse!TypeOK, Purse!Encrypted
<1>3. w \in Purse!EncryptedKeys /\ w.whole
  <2>1. fs[n] \in Purse!EncryptedKeys
    BY <1>1
  <2> QED BY <1>1, <2>1 DEF Purse!EncryptedKeys, Purse!Encrypted, Purse!Whole
<1>4. /\ gs \in Seq(Purse!EncryptedKeys)
      /\ Len(gs) = n /\ DOMAIN gs = DOMAIN fs
      /\ gs[n] = w /\ n \in DOMAIN fs
      /\ \A i \in DOMAIN fs : fs[i].whole => gs[i].whole
  BY <1>1, <1>3, ExceptSeq
<1> HIDE DEF gs, w
<1>5. purseFiles'[a] = gs /\ gs # <<>>
  BY <1>1, <1>2, <1>4
<1>6. Purse!KeyOpens(a, p)'
  BY <1>4, <1>5 DEF Purse!KeyOpens, Purse!HasFile, Purse!Decrypts, Purse!Newest, w
<1>7. Purse!Kept(a)'
  BY <1>4, <1>5, <1>3 DEF Purse!Kept
<1>8. ASSUME NEW b, Purse!Kept(b)
      PROVE  Purse!Kept(b)'
  BY <1>2, <1>4, <1>8 DEF Purse!Kept
<1> QED BY <1>2, <1>4, <1>6, <1>7, <1>8

\* All parts of what a restart, a command or a timer relies on.
PurseInvariant ==
  /\ Purse!TypeOK /\ Purse!CommandInOrder
  /\ Purse!KeyNeverLost /\ Purse!OpensUnlessTouched /\ Purse!TornIsUnfinished
  /\ Purse!OpenHasFile /\ Purse!OpenIsTimed /\ Purse!AddressesSpendable

\* A password that opens the newest file of an account shows a whole file.
LEMMA OpensThenKept ==
  ASSUME NEW a, NEW p, Purse!TypeOK, Purse!KeyOpens(a, p)
  PROVE  a \in PurseAccounts /\ Purse!HasFile(a) /\ Purse!Kept(a)
BY DEF Purse!TypeOK, Purse!KeyOpens, Purse!HasFile, Purse!Newest,
       Purse!Decrypts, Purse!Whole, Purse!Kept

LEMMA SameFiles ==
  ASSUME UNCHANGED purseFiles
  PROVE  \A b, q : /\ Purse!Kept(b)' = Purse!Kept(b)
                   /\ Purse!HasFile(b)' = Purse!HasFile(b)
                   /\ Purse!KeyOpens(b, q)' = Purse!KeyOpens(b, q)
BY DEF Purse!Kept, Purse!HasFile, Purse!KeyOpens

\* The one step of a command that has written an account's file leaves the files
\* of the others, so what was told of them stays true.
DiskPart ==
  /\ Purse!CommandInOrder /\ Purse!KeyNeverLost /\ Purse!OpensUnlessTouched
  /\ Purse!TornIsUnfinished

LEMMA DiskPartSame ==
  ASSUME DiskPart, UNCHANGED <<purseFiles, purseTold, purseUnfinished, purseCmd>>
  PROVE  DiskPart'
BY SameFiles
   DEF DiskPart, Purse!CommandInOrder, Purse!KeyNeverLost,
       Purse!OpensUnlessTouched, Purse!TornIsUnfinished, Purse!Writes

LEMMA DiskPartStep ==
  ASSUME Purse!TypeOK, Purse!OpenHasFile, DiskPart, [Purse!Next]_(Purse!vars)
  PROVE  DiskPart'
<1> USE PurseAssumption
    DEF DiskPart, Purse!Commands, Purse!managerVars, Purse!minerVars, Purse!diskVars,
        Purse!Addresses, Purse!None, Purse!Writes, Purse!Idle
<1>1. CASE UNCHANGED Purse!vars
  BY <1>1, DiskPartSame DEF Purse!vars
<1>2. CASE \/ Purse!LoadWallets \/ Purse!StartMining
           \/ \E a \in PurseAccounts : Purse!SetAddress(a)
           \/ \E a \in Purse!Addresses :
                Purse!Lock(a) \/ Purse!TimerFires(a) \/ Purse!AutoLock(a)
  BY <1>2, DiskPartSame
     DEF Purse!LoadWallets, Purse!StartMining, Purse!SetAddress, Purse!Lock,
         Purse!TimerFires, Purse!AutoLock
<1>3. ASSUME NEW a \in Purse!Addresses, NEW p \in PursePasswords, Purse!Unlock(a, p)
      PROVE  DiskPart'
  <2> USE <1>3, SameFiles DEF Purse!Unlock
  <2>1. Purse!Kept(a)
    BY OpensThenKept
  <2>2. Purse!CommandInOrder'
    BY <2>1 DEF Purse!CommandInOrder, Purse!TypeOK
  <2>3. Purse!KeyNeverLost'
    BY <2>1 DEF Purse!KeyNeverLost, Purse!TypeOK, Purse!CommandInOrder
  <2>4. Purse!OpensUnlessTouched'
    BY <2>1 DEF Purse!OpensUnlessTouched, Purse!TypeOK, Purse!CommandInOrder
  <2>5. Purse!TornIsUnfinished'
    BY <2>1 DEF Purse!TornIsUnfinished, Purse!TypeOK, Purse!CommandInOrder
  <2> QED BY <2>2, <2>3, <2>4, <2>5
<1>4. ASSUME Purse!UnlockEnds
      PROVE  DiskPart'
  <2> USE <1>4, SameFiles DEF Purse!UnlockEnds
  <2>1. Purse!CommandInOrder'
    BY DEF Purse!CommandInOrder, Purse!TypeOK
  <2>2. Purse!KeyNeverLost'
    BY DEF Purse!KeyNeverLost, Purse!TypeOK, Purse!CommandInOrder
  <2>3. Purse!OpensUnlessTouched'
    BY DEF Purse!OpensUnlessTouched, Purse!TypeOK, Purse!CommandInOrder
  <2>4. Purse!TornIsUnfinished'
    BY DEF Purse!TornIsUnfinished, Purse!TypeOK, Purse!CommandInOrder
  <2> QED BY <2>1, <2>2, <2>3, <2>4
<1>5. ASSUME NEW p \in PursePasswords, Purse!Save(p)
      PROVE  DiskPart'
  <2> USE <1>5, SameFiles DEF Purse!Save
  <2>1. Purse!CommandInOrder'
    BY DEF Purse!CommandInOrder, Purse!TypeOK
  <2>2. Purse!KeyNeverLost'
    BY DEF Purse!KeyNeverLost, Purse!TypeOK, Purse!CommandInOrder
  <2>3. Purse!OpensUnlessTouched'
    BY DEF Purse!OpensUnlessTouched, Purse!TypeOK, Purse!CommandInOrder
  <2>4. Purse!TornIsUnfinished'
    BY DEF Purse!TornIsUnfinished, Purse!TypeOK, Purse!CommandInOrder
  <2> QED BY <2>1, <2>2, <2>3, <2>4
<1>6. ASSUME NEW a \in Purse!Addresses, Purse!SaveFails(a)
      PROVE  DiskPart'
  <2> USE <1>6, SameFiles DEF Purse!SaveFails
  <2>1. Purse!CommandInOrder'
    BY DEF Purse!CommandInOrder, Purse!TypeOK
  <2>2. Purse!KeyNeverLost'
    BY DEF Purse!KeyNeverLost, Purse!TypeOK, Purse!CommandInOrder
  <2>3. Purse!OpensUnlessTouched'
    BY DEF Purse!OpensUnlessTouched, Purse!TypeOK, Purse!CommandInOrder
  <2>4. Purse!TornIsUnfinished'
    BY DEF Purse!TornIsUnfinished, Purse!TypeOK, Purse!CommandInOrder
  <2> QED BY <2>1, <2>2, <2>3, <2>4
<1>7. ASSUME Purse!SaveEnds
      PROVE  DiskPart'
  <2> USE <1>7, SameFiles DEF Purse!SaveEnds
  <2>1. \A b \in purseCmd.done : Purse!Kept(b)
    BY OpensThenKept DEF Purse!CommandInOrder
  <2>2. Purse!CommandInOrder'
    BY <2>1 DEF Purse!CommandInOrder, Purse!TypeOK
  <2>3. Purse!KeyNeverLost'
    BY <2>1 DEF Purse!KeyNeverLost, Purse!TypeOK, Purse!CommandInOrder
  <2>4. Purse!OpensUnlessTouched'
    BY <2>1 DEF Purse!OpensUnlessTouched, Purse!TypeOK, Purse!CommandInOrder
  <2>5. Purse!TornIsUnfinished'
    BY <2>1 DEF Purse!TornIsUnfinished, Purse!TypeOK, Purse!CommandInOrder
  <2> QED BY <2>2, <2>3, <2>4, <2>5
<1>8. ASSUME Purse!Restart
      PROVE  DiskPart'
  <2> USE <1>8, SameFiles DEF Purse!Restart
  <2>1. Purse!CommandInOrder'
    BY DEF Purse!CommandInOrder, Purse!TypeOK
  <2>2. Purse!KeyNeverLost'
    BY DEF Purse!KeyNeverLost, Purse!TypeOK, Purse!CommandInOrder
  <2>3. Purse!OpensUnlessTouched'
    BY DEF Purse!OpensUnlessTouched, Purse!TypeOK, Purse!CommandInOrder
  <2>4. Purse!TornIsUnfinished'
    BY DEF Purse!TornIsUnfinished, Purse!TypeOK, Purse!CommandInOrder
  <2> QED BY <2>1, <2>2, <2>3, <2>4
<1>9. ASSUME NEW a \in PurseAccounts, Purse!SaveAccount(a)
      PROVE  DiskPart'
  <2> USE <1>9 DEF Purse!SaveAccount
  <2>1. Purse!WriteFile(a, PurseFirst) /\ purseCmd = Purse!Idle
    BY DEF Purse!CommandInOrder
  <2>2. /\ Purse!HasFile(a)' /\ Purse!Newest(purseFiles'[a]) = Purse!Encrypted(PurseFirst)
        /\ \A d \in PurseAccounts \ {a} : purseFiles'[d] = purseFiles[d]
        /\ \A d : Purse!Kept(d) => Purse!Kept(d)'
    BY <2>1, WriteBegins
  <2>3. \A d \in PurseAccounts \ {a} : \A q :
          /\ Purse!HasFile(d)' = Purse!HasFile(d)
          /\ Purse!KeyOpens(d, q)' = Purse!KeyOpens(d, q)
    BY <2>2 DEF Purse!HasFile, Purse!KeyOpens
  <2>4. Purse!CommandInOrder'
    BY <2>1, <2>2, <2>3 DEF Purse!CommandInOrder, Purse!TypeOK
  <2>5. Purse!KeyNeverLost'
    BY <2>1, <2>2, <2>3 DEF Purse!KeyNeverLost, Purse!TypeOK, Purse!CommandInOrder
  <2>6. Purse!OpensUnlessTouched'
    BY <2>1, <2>2, <2>3 DEF Purse!OpensUnlessTouched, Purse!TypeOK, Purse!CommandInOrder
  <2>7. Purse!TornIsUnfinished'
    BY <2>1, <2>2, <2>3 DEF Purse!TornIsUnfinished, Purse!TypeOK, Purse!CommandInOrder
  <2> QED BY <2>4, <2>5, <2>6, <2>7
<1>10. ASSUME Purse!CreateEnds
      PROVE  DiskPart'
  <2> USE <1>10 DEF Purse!CreateEnds
  <2>1. PICK a, p : a = purseCmd.acc /\ p = purseCmd.pwd
    OBVIOUS
  <2>2. /\ a \in PurseAccounts /\ Purse!HasFile(a) /\ p \in PursePasswords
        /\ Purse!Newest(purseFiles[a]) = Purse!Encrypted(p)
        /\ purseFiles' = [purseFiles EXCEPT ![a] = Purse!LastWhole(@)]
    BY <2>1 DEF Purse!CommandInOrder, Purse!HasFile
  <2>3. /\ Purse!KeyOpens(a, p)' /\ Purse!Kept(a)'
        /\ \A d \in PurseAccounts \ {a} : purseFiles'[d] = purseFiles[d]
        /\ \A d : Purse!Kept(d) => Purse!Kept(d)'
    BY <2>2, WriteEnds
  <2>4. \A d \in PurseAccounts \ {a} : \A q :
          /\ Purse!HasFile(d)' = Purse!HasFile(d)
          /\ Purse!KeyOpens(d, q)' = Purse!KeyOpens(d, q)
    BY <2>3 DEF Purse!HasFile, Purse!KeyOpens
  <2>5. Purse!CommandInOrder'
    BY <2>1, <2>2, <2>3, <2>4 DEF Purse!CommandInOrder, Purse!TypeOK
  <2>6. Purse!KeyNeverLost'
    BY <2>1, <2>2, <2>3, <2>4 DEF Purse!KeyNeverLost, Purse!TypeOK, Purse!CommandInOrder
  <2>7. Purse!OpensUnlessTouched'
    BY <2>1, <2>2, <2>3, <2>4 DEF Purse!OpensUnlessTouched, Purse!TypeOK, Purse!CommandInOrder
  <2>8. ASSUME NEW b \in PurseAccounts, Purse!HasFile(b)'
        PROVE  (Purse!Kept(b) \/ b \in purseUnfinished \/ Purse!Writes(b))'
    <3>1. CASE b = a
      BY <2>3, <3>1
    <3>2. CASE b # a
      <4>1. Purse!Kept(b) \/ b \in purseUnfinished
        BY <2>1, <2>8, <2>4, <3>2 DEF Purse!TornIsUnfinished
      <4> QED BY <2>1, <2>3, <3>2, <4>1
    <3> QED BY <3>1, <3>2
  <2>9. Purse!TornIsUnfinished'
    BY <2>8 DEF Purse!TornIsUnfinished
  <2> QED BY <2>5, <2>6, <2>7, <2>9
<1>11. ASSUME NEW a \in Purse!Addresses, Purse!SaveNext(a)
      PROVE  DiskPart'
  <2> USE <1>11 DEF Purse!SaveNext
  <2>1. Purse!WriteFile(a, purseCmd.pwd) /\ a \in PurseAccounts /\ purseCmd.pwd \in PursePasswords
    BY DEF Purse!CommandInOrder, Purse!OpenHasFile
  <2>2. /\ Purse!HasFile(a)' /\ Purse!Newest(purseFiles'[a]) = Purse!Encrypted(purseCmd.pwd)
        /\ \A d \in PurseAccounts \ {a} : purseFiles'[d] = purseFiles[d]
        /\ \A d : Purse!Kept(d) => Purse!Kept(d)'
    BY <2>1, WriteBegins
  <2>3. /\ purseCmd'.op = "saving" /\ purseCmd'.acc = a /\ a \in purseCmd.todo
        /\ purseCmd'.pwd = purseCmd.pwd
        /\ purseCmd'.todo = purseCmd.todo /\ purseCmd'.done = purseCmd.done
    BY DEF Purse!TypeOK
  <2>4. \A d \in PurseAccounts \ {a} : \A q :
          /\ Purse!HasFile(d)' = Purse!HasFile(d)
          /\ Purse!KeyOpens(d, q)' = Purse!KeyOpens(d, q)
    BY <2>2 DEF Purse!HasFile, Purse!KeyOpens
  <2>5. Purse!CommandInOrder'
    <3>1. ASSUME NEW b \in purseCmd.done
          PROVE  b \notin purseCmd.todo /\ Purse!KeyOpens(b, purseCmd.pwd)'
      <4>1. b # a /\ b \in PurseAccounts /\ Purse!KeyOpens(b, purseCmd.pwd)
        BY <2>3 DEF Purse!CommandInOrder, Purse!TypeOK
      <4> QED BY <2>2, <2>3, <4>1 DEF Purse!CommandInOrder, Purse!KeyOpens, Purse!HasFile
    <3> QED BY <2>1, <2>2, <2>3, <3>1 DEF Purse!CommandInOrder
  <2>6. Purse!KeyNeverLost'
    BY <2>3, <2>1, <2>2, <2>4 DEF Purse!KeyNeverLost, Purse!TypeOK, Purse!CommandInOrder
  <2>7. Purse!OpensUnlessTouched'
    BY <2>3, <2>1, <2>2, <2>4 DEF Purse!OpensUnlessTouched, Purse!TypeOK, Purse!CommandInOrder
  <2>8. Purse!TornIsUnfinished'
    BY <2>3, <2>1, <2>2, <2>4 DEF Purse!TornIsUnfinished, Purse!TypeOK, Purse!CommandInOrder
  <2> QED BY <2>5, <2>6, <2>7, <2>8
<1>14. ASSUME Purse!SaveWritten
      PROVE  DiskPart'
  <2> USE <1>14 DEF Purse!SaveWritten
  <2>1. PICK a, p : a = purseCmd.acc /\ p = purseCmd.pwd
    OBVIOUS
  <2>2. /\ a \in PurseAccounts /\ Purse!HasFile(a) /\ p \in PursePasswords
        /\ Purse!Newest(purseFiles[a]) = Purse!Encrypted(p)
        /\ purseFiles' = [purseFiles EXCEPT ![a] = Purse!LastWhole(@)]
    BY <2>1 DEF Purse!CommandInOrder, Purse!HasFile
  <2>3. /\ Purse!KeyOpens(a, p)' /\ Purse!Kept(a)'
        /\ \A d \in PurseAccounts \ {a} : purseFiles'[d] = purseFiles[d]
        /\ \A d : Purse!Kept(d) => Purse!Kept(d)'
    BY <2>2, WriteEnds
  <2>4. \A d \in PurseAccounts \ {a} : \A q :
          /\ Purse!HasFile(d)' = Purse!HasFile(d)
          /\ Purse!KeyOpens(d, q)' = Purse!KeyOpens(d, q)
    BY <2>3 DEF Purse!HasFile, Purse!KeyOpens
  <2>5. Purse!CommandInOrder'
    BY <2>1, <2>2, <2>3, <2>4 DEF Purse!CommandInOrder, Purse!TypeOK
  <2>6. Purse!KeyNeverLost'
    BY <2>1, <2>2, <2>3, <2>4 DEF Purse!KeyNeverLost, Purse!TypeOK, Purse!CommandInOrder
  <2>7. Purse!OpensUnlessTouched'
    BY <2>1, <2>2, <2>3, <2>4 DEF Purse!OpensUnlessTouched, Purse!TypeOK, Purse!CommandInOrder
  <2>8. ASSUME NEW b \in PurseAccounts, Purse!HasFile(b)'
        PROVE  (Purse!Kept(b) \/ b \in purseUnfinished \/ Purse!Writes(b))'
    <3>1. CASE b = a
      BY <2>3, <3>1
    <3>2. CASE b # a
      <4>1. Purse!Kept(b) \/ b \in purseUnfinished
        BY <2>1, <2>8, <2>4, <3>2 DEF Purse!TornIsUnfinished
      <4> QED BY <2>1, <2>3, <3>2, <4>1
    <3> QED BY <3>1, <3>2
  <2>9. Purse!TornIsUnfinished'
    BY <2>8 DEF Purse!TornIsUnfinished
  <2> QED BY <2>5, <2>6, <2>7, <2>9
<1>13. [Purse!Next]_(Purse!vars)
  OBVIOUS
<1> QED BY <1>1, <1>2, <1>3, <1>4, <1>5, <1>6, <1>7, <1>8, <1>9, <1>10, <1>11,
           <1>14, <1>13
        DEF Purse!Next, Purse!CommandStep, Purse!CreateAddress, Purse!Import,
            Purse!SaveWallets, Purse!ChangePassword

LEMMA PurseTypeStep ==
  ASSUME PurseInvariant, [Purse!Next]_(Purse!vars)
  PROVE  Purse!TypeOK'
<1> USE PurseAssumption
    DEF PurseInvariant, Purse!TypeOK, Purse!Commands, Purse!managerVars, Purse!minerVars,
        Purse!diskVars, Purse!Addresses, Purse!None, Purse!Idle
<1>1. CASE UNCHANGED Purse!vars
  BY <1>1 DEF Purse!vars
<1>2. ASSUME NEW a \in PurseAccounts, Purse!SaveAccount(a)
      PROVE  Purse!TypeOK'
  BY <1>2, WriteBegins DEF Purse!SaveAccount
<1>3. CASE Purse!CreateEnds \/ Purse!SaveWritten
  <2>1. PICK a, p : a = purseCmd.acc /\ p = purseCmd.pwd
    OBVIOUS
  <2>2. /\ a \in PurseAccounts /\ Purse!HasFile(a) /\ p \in PursePasswords
        /\ Purse!Newest(purseFiles[a]) = Purse!Encrypted(p)
        /\ purseFiles' = [purseFiles EXCEPT ![a] = Purse!LastWhole(@)]
    BY <1>3, <2>1
       DEF Purse!CommandInOrder, Purse!HasFile, Purse!CreateEnds, Purse!SaveWritten
  <2>3. purseFiles' \in [PurseAccounts -> Seq(Purse!EncryptedKeys)]
    BY <2>2, WriteEnds
  <2>4. CASE Purse!CreateEnds
    BY <2>1, <2>2, <2>3, <2>4
       DEF Purse!CreateEnds, Purse!AddWallet, Purse!NewWalletWithAddress
  <2>5. CASE Purse!SaveWritten
    <3>1. /\ purseCmd' = [purseCmd EXCEPT !.op = "save", !.todo = @ \ {a},
                                         !.done = @ \cup {a}]
          /\ purseCmd.todo \ {a} \in SUBSET Purse!Addresses
          /\ purseCmd.done \cup {a} \in SUBSET PurseAccounts
      BY <2>1, <2>2, <2>5 DEF Purse!SaveWritten
    <3>2. purseCmd' \in Purse!Commands
      BY <3>1
    <3> QED BY <2>3, <2>5, <3>2 DEF Purse!SaveWritten
  <2> QED BY <1>3, <2>4, <2>5
<1>4. ASSUME NEW a \in Purse!Addresses, NEW p \in PursePasswords, Purse!Unlock(a, p)
      PROVE  Purse!TypeOK'
  BY <1>4 DEF Purse!Unlock, Purse!Opened
<1>5. CASE Purse!UnlockEnds
  BY <1>5 DEF Purse!UnlockEnds, Purse!SetPrivateKey
<1>6. ASSUME NEW a \in PurseAccounts, Purse!SetAddress(a)
      PROVE  Purse!TypeOK'
  BY <1>6 DEF Purse!SetAddress
<1>7. ASSUME NEW a \in Purse!Addresses, Purse!Lock(a) \/ Purse!AutoLock(a)
      PROVE  Purse!TypeOK'
  BY <1>7 DEF Purse!Lock, Purse!AutoLock, Purse!Locked
<1>8. ASSUME NEW a \in Purse!Addresses, Purse!SaveNext(a)
      PROVE  Purse!TypeOK'
  <2>1. /\ a \in PurseAccounts /\ Purse!WriteFile(a, purseCmd.pwd)
        /\ purseCmd.pwd \in PursePasswords
    BY <1>8 DEF Purse!SaveNext, Purse!OpenHasFile, Purse!CommandInOrder
  <2>2. purseFiles' \in [PurseAccounts -> Seq(Purse!EncryptedKeys)]
    BY <2>1, WriteBegins
  <2> QED BY <1>8, <2>2 DEF Purse!SaveNext
<1>9. ASSUME NEW a \in Purse!Addresses, Purse!SaveFails(a) \/ Purse!TimerFires(a)
      PROVE  Purse!TypeOK'
  BY <1>9 DEF Purse!SaveFails, Purse!TimerFires
<1>10. ASSUME NEW p \in PursePasswords, Purse!Save(p)
      PROVE  Purse!TypeOK'
  BY <1>10 DEF Purse!Save
<1>11. CASE Purse!SaveEnds \/ Purse!StartMining
  <2>1. CASE Purse!SaveEnds
    BY <2>1 DEF Purse!SaveEnds, Purse!CommandInOrder
  <2>2. CASE Purse!StartMining
    BY <2>2 DEF Purse!StartMining, Purse!SetMinerAddress
  <2> QED BY <1>11, <2>1, <2>2
<1>15. CASE Purse!LoadWallets
  BY <1>15 DEF Purse!LoadWallets, Purse!Reloaded, Purse!NewWalletWithAddress
<1>13. CASE Purse!Restart
  <2>1. purseMiner' \in [addr : Purse!Addresses \cup {"none"}, key : Purse!Addresses \cup {"none"}]
    BY <1>13 DEF Purse!Restart, Purse!FreshMiners
  <2>2. purseWallets' \in [Purse!Addresses -> {"absent", "open", "placeholder", "sealed"}]
    BY <1>13 DEF Purse!Restart, Purse!FreshWallets, Purse!NewWallet
  <2>3. purseUnfinished' \subseteq PurseAccounts
    BY <1>13 DEF Purse!Restart, Purse!CommandInOrder, Purse!HasFile
  <2> QED BY <1>13, <2>1, <2>2, <2>3 DEF Purse!Restart
<1>14. [Purse!Next]_(Purse!vars)
  OBVIOUS
<1> QED BY <1>1, <1>2, <1>3, <1>4, <1>5, <1>6, <1>7, <1>8, <1>9, <1>10, <1>11,
           <1>15, <1>13, <1>14
        DEF Purse!Next, Purse!CommandStep, Purse!CreateAddress, Purse!Import,
            Purse!SaveWallets, Purse!ChangePassword

\* Only Unlock opens a wallet, with a key that has a file, and it starts the timer.
LEMMA OpenStep ==
  ASSUME PurseInvariant, [Purse!Next]_(Purse!vars)
  PROVE  Purse!OpenHasFile' /\ Purse!OpenIsTimed'
<1> USE PurseAssumption
    DEF PurseInvariant, Purse!TypeOK, Purse!OpenHasFile, Purse!OpenIsTimed,
        Purse!managerVars, Purse!minerVars, Purse!diskVars, Purse!Addresses
<1>1. CASE UNCHANGED <<purseWallets, purseTimer, purseFiring>>
  BY <1>1
<1>2. CASE Purse!CreateEnds
  BY <1>2 DEF Purse!CreateEnds, Purse!AddWallet, Purse!NewWalletWithAddress
<1>3. ASSUME NEW a \in Purse!Addresses, NEW p \in PursePasswords, Purse!Unlock(a, p)
      PROVE  Purse!OpenHasFile' /\ Purse!OpenIsTimed'
  <2>1. a \in PurseAccounts
    BY <1>3, OpensThenKept DEF Purse!Unlock
  <2> QED BY <1>3, <2>1 DEF Purse!Unlock, Purse!Opened
<1>4. ASSUME NEW a \in Purse!Addresses,
             Purse!Lock(a) \/ Purse!AutoLock(a) \/ Purse!TimerFires(a)
      PROVE  Purse!OpenHasFile' /\ Purse!OpenIsTimed'
  BY <1>4 DEF Purse!Lock, Purse!AutoLock, Purse!TimerFires, Purse!Locked
<1>5. CASE Purse!LoadWallets
  BY <1>5 DEF Purse!LoadWallets, Purse!Reloaded, Purse!NewWalletWithAddress
<1>6. CASE Purse!Restart
  BY <1>6 DEF Purse!Restart, Purse!FreshWallets, Purse!NewWallet
<1>7. ASSUME NEW a \in Purse!Addresses, Purse!SaveNext(a) \/ Purse!SaveFails(a)
      PROVE  Purse!OpenHasFile' /\ Purse!OpenIsTimed'
  BY <1>1, <1>7 DEF Purse!SaveNext, Purse!SaveFails
<1>8. ASSUME NEW a \in PurseAccounts, Purse!SaveAccount(a) \/ Purse!SetAddress(a)
      PROVE  Purse!OpenHasFile' /\ Purse!OpenIsTimed'
  BY <1>1, <1>8 DEF Purse!SaveAccount, Purse!SetAddress
<1>9. ASSUME NEW p \in PursePasswords, Purse!Save(p)
      PROVE  Purse!OpenHasFile' /\ Purse!OpenIsTimed'
  BY <1>1, <1>9 DEF Purse!Save
<1>10. CASE Purse!UnlockEnds \/ Purse!SaveWritten \/ Purse!SaveEnds \/ Purse!StartMining
  BY <1>1, <1>10
     DEF Purse!UnlockEnds, Purse!SaveWritten, Purse!SaveEnds, Purse!StartMining
<1>11. CASE UNCHANGED Purse!vars
  BY <1>1, <1>11 DEF Purse!vars
<1>12. [Purse!Next]_(Purse!vars)
  OBVIOUS
<1> QED BY <1>2, <1>3, <1>4, <1>5, <1>6, <1>7, <1>8, <1>9, <1>10, <1>11, <1>12
        DEF Purse!Next, Purse!CommandStep, Purse!CreateAddress, Purse!Import,
            Purse!SaveWallets, Purse!ChangePassword

\* No step takes from an account what makes its rewards spendable.
LEMMA SpendableStays ==
  ASSUME PurseInvariant, [Purse!Next]_(Purse!vars), NEW a, Purse!Spendable(a)
  PROVE  Purse!Spendable(a)'
<1> USE DEF PurseInvariant, Purse!Spendable
<1>1. CASE UNCHANGED <<purseFiles, purseUnfinished, purseWarned>>
  BY <1>1, SameFiles
<1>2. ASSUME NEW b \in PurseAccounts, Purse!SaveAccount(b)
      PROVE  Purse!Spendable(a)'
  BY <1>2, WriteBegins, PurseAssumption DEF Purse!SaveAccount, Purse!minerVars
<1>3. CASE Purse!CreateEnds \/ Purse!SaveWritten
  <2>1. PICK b, p : b = purseCmd.acc /\ p = purseCmd.pwd
    OBVIOUS
  <2>2. /\ b \in PurseAccounts /\ Purse!HasFile(b)
        /\ Purse!Newest(purseFiles[b]) = Purse!Encrypted(p)
        /\ purseFiles' = [purseFiles EXCEPT ![b] = Purse!LastWhole(@)]
    BY <1>3, <2>1
       DEF Purse!CommandInOrder, Purse!HasFile, Purse!CreateEnds, Purse!SaveWritten
  <2>3. Purse!Kept(b)' /\ (Purse!Kept(a) => Purse!Kept(a)')
    BY <2>2, WriteEnds
  <2>4. purseUnfinished \subseteq purseUnfinished' \cup {b} /\ purseWarned' = purseWarned
    BY <1>3, <2>1 DEF Purse!CreateEnds, Purse!SaveWritten, Purse!minerVars
  <2> QED BY <2>3, <2>4
<1>4. ASSUME NEW b \in Purse!Addresses, Purse!SaveNext(b)
      PROVE  Purse!Spendable(a)'
  <2>1. b \in PurseAccounts /\ purseCmd.pwd \in PursePasswords
    BY <1>4 DEF Purse!SaveNext, Purse!OpenHasFile, Purse!CommandInOrder
  <2> QED BY <1>4, <2>1, WriteBegins DEF Purse!SaveNext, Purse!minerVars
<1>5. CASE Purse!SaveEnds
  <2>1. \A b \in purseCmd.done : Purse!Kept(b)
    BY OpensThenKept DEF Purse!CommandInOrder
  <2>2. /\ UNCHANGED <<purseFiles, purseWarned>>
        /\ purseUnfinished' = purseUnfinished \ purseCmd.done
    BY <1>5 DEF Purse!SaveEnds, Purse!minerVars
  <2> QED BY <2>1, <2>2, SameFiles
<1>6. ASSUME UNCHANGED purseFiles, purseUnfinished \subseteq purseUnfinished',
             purseWarned \subseteq purseWarned'
      PROVE  Purse!Spendable(a)'
  BY <1>6, SameFiles
<1>7. ASSUME NEW b \in Purse!Addresses,
             Purse!SaveFails(b) \/ Purse!Lock(b) \/ Purse!AutoLock(b)
               \/ Purse!TimerFires(b)
      PROVE  Purse!Spendable(a)'
  BY <1>6, <1>7
     DEF Purse!SaveFails, Purse!Lock, Purse!AutoLock, Purse!TimerFires,
         Purse!minerVars, Purse!diskVars
<1>8. CASE \/ Purse!Restart \/ Purse!LoadWallets \/ Purse!StartMining \/ Purse!UnlockEnds
           \/ UNCHANGED Purse!vars
  BY <1>6, <1>8
     DEF Purse!Restart, Purse!LoadWallets, Purse!StartMining, Purse!UnlockEnds,
         Purse!minerVars, Purse!diskVars, Purse!vars
<1>9. ASSUME NEW b \in PurseAccounts, Purse!SetAddress(b)
      PROVE  Purse!Spendable(a)'
  BY <1>6, <1>9 DEF Purse!SetAddress, Purse!diskVars
<1>10. ASSUME NEW p \in PursePasswords, Purse!Save(p)
      PROVE  Purse!Spendable(a)'
  BY <1>6, <1>10 DEF Purse!Save, Purse!minerVars, Purse!diskVars
<1>11. ASSUME NEW b \in Purse!Addresses, NEW p \in PursePasswords, Purse!Unlock(b, p)
      PROVE  Purse!Spendable(a)'
  BY <1>6, <1>11 DEF Purse!Unlock, Purse!minerVars, Purse!diskVars
<1>12. [Purse!Next]_(Purse!vars)
  OBVIOUS
<1> QED BY <1>2, <1>3, <1>4, <1>5, <1>7, <1>8, <1>9, <1>10, <1>12, <1>11
        DEF Purse!Next, Purse!CommandStep, Purse!CreateAddress, Purse!Import,
            Purse!SaveWallets, Purse!ChangePassword

LEMMA AddressesStep ==
  ASSUME PurseInvariant, [Purse!Next]_(Purse!vars)
  PROVE  Purse!AddressesSpendable'
<1> USE DEF PurseInvariant
<1>1. CASE UNCHANGED <<purseAddress, purseMiner>>
  BY <1>1, SpendableStays DEF Purse!AddressesSpendable
<1>2. CASE Purse!UnlockEnds
  <2>1. Purse!Kept(purseCmd.acc) /\ UNCHANGED purseFiles
    BY <1>2 DEF Purse!UnlockEnds, Purse!CommandInOrder, Purse!diskVars
  <2>2. /\ purseAddress' = purseCmd.acc
        /\ purseMiner'.addr = purseMiner.addr
    BY <1>2 DEF Purse!UnlockEnds, Purse!SetPrivateKey, Purse!TypeOK
  <2>3. PICK b : b = purseCmd.acc
    OBVIOUS
  <2>4. Purse!Spendable(b)'
    BY <2>1, <2>3, SameFiles DEF Purse!Spendable
  <2> QED BY <2>2, <2>3, <2>4, SpendableStays DEF Purse!AddressesSpendable
<1>3. ASSUME NEW a \in PurseAccounts, Purse!SetAddress(a)
      PROVE  Purse!AddressesSpendable'
  <2>1. purseAddress' = a /\ UNCHANGED <<purseMiner, purseFiles, purseUnfinished>>
    BY <1>3 DEF Purse!SetAddress, Purse!diskVars
  <2>2. Purse!HasFile(a) => Purse!Kept(a) \/ a \in purseUnfinished
    BY <1>3 DEF Purse!SetAddress, Purse!TornIsUnfinished, Purse!Writes
  <2>3. Purse!Spendable(a)'
    BY <1>3, <2>1, <2>2, SameFiles DEF Purse!SetAddress, Purse!Spendable
  <2> QED BY <2>1, <2>3, SpendableStays DEF Purse!AddressesSpendable
<1>4. CASE Purse!StartMining
  <2>1. /\ purseMiner'.addr = purseAddress /\ purseAddress' = purseAddress
        /\ purseAddress # Purse!None
    BY <1>4 DEF Purse!StartMining, Purse!SetMinerAddress, Purse!TypeOK
  <2> QED BY <2>1, SpendableStays DEF Purse!AddressesSpendable
<1>5. CASE Purse!Restart
  BY <1>5 DEF Purse!Restart, Purse!FreshMiners, Purse!AddressesSpendable,
              Purse!Spendable
<1>6. ASSUME NEW a \in Purse!Addresses, NEW p \in PursePasswords, Purse!Unlock(a, p)
      PROVE  Purse!AddressesSpendable'
  BY <1>1, <1>6 DEF Purse!Unlock, Purse!minerVars
<1>7. ASSUME NEW a \in Purse!Addresses, \/ Purse!Lock(a) \/ Purse!AutoLock(a)
                                        \/ Purse!TimerFires(a)
                                        \/ Purse!SaveNext(a) \/ Purse!SaveFails(a)
      PROVE  Purse!AddressesSpendable'
  BY <1>1, <1>7 DEF Purse!Lock, Purse!AutoLock, Purse!TimerFires,
                    Purse!SaveNext, Purse!SaveFails, Purse!minerVars
<1>8. ASSUME NEW a \in PurseAccounts, Purse!SaveAccount(a)
      PROVE  Purse!AddressesSpendable'
  BY <1>1, <1>8 DEF Purse!SaveAccount, Purse!minerVars
<1>9. CASE \/ Purse!CreateEnds \/ Purse!SaveWritten \/ Purse!SaveEnds
           \/ Purse!LoadWallets \/ UNCHANGED Purse!vars
           \/ \E p \in PursePasswords : Purse!Save(p)
  BY <1>1, <1>9
     DEF Purse!CreateEnds, Purse!SaveWritten, Purse!SaveEnds, Purse!LoadWallets,
         Purse!Save, Purse!minerVars, Purse!vars
<1>10. [Purse!Next]_(Purse!vars)
  OBVIOUS
<1> QED BY <1>2, <1>3, <1>4, <1>5, <1>6, <1>7, <1>8, <1>9, <1>10
        DEF Purse!Next, Purse!CommandStep, Purse!CreateAddress, Purse!Import,
            Purse!SaveWallets, Purse!ChangePassword

\* Accounts of which the user was told keep a whole file, open with the password
\* told but for saves that came to no end, are locked in time, and what mining
\* pays can be spent: for any accounts and passwords, any number of files of an
\* account, and however often the process ends (SaveAccount, SaveWallets, Unlock,
\* AutoLock, GetOrCreateMinerWallet).
THEOREM WalletsStaySound == Purse!Spec => []WalletsSound
<1>1. Purse!Init => PurseInvariant
  <2> SUFFICES ASSUME Purse!Init PROVE PurseInvariant
    OBVIOUS
  <2> USE PurseAssumption
      DEF Purse!Init, Purse!FreshWallets, Purse!FreshMiners, Purse!NewWallet,
          Purse!Idle, Purse!None, Purse!Addresses
  <2>1. Purse!TypeOK
    BY DEF Purse!TypeOK, Purse!Commands
  <2>2. Purse!CommandInOrder
    BY DEF Purse!CommandInOrder
  <2>3. Purse!KeyNeverLost /\ Purse!OpensUnlessTouched /\ Purse!TornIsUnfinished
    BY DEF Purse!KeyNeverLost, Purse!OpensUnlessTouched, Purse!TornIsUnfinished,
           Purse!HasFile
  <2>4. Purse!OpenHasFile /\ Purse!OpenIsTimed
    BY DEF Purse!OpenHasFile, Purse!OpenIsTimed
  <2>5. Purse!AddressesSpendable
    BY DEF Purse!AddressesSpendable, Purse!Spendable
  <2> QED BY <2>1, <2>2, <2>3, <2>4, <2>5 DEF PurseInvariant
<1>2. PurseInvariant /\ [Purse!Next]_(Purse!vars) => PurseInvariant'
  BY DiskPartStep, PurseTypeStep, OpenStep, AddressesStep
     DEF PurseInvariant, DiskPart
<1>3. PurseInvariant => WalletsSound
  <2> SUFFICES ASSUME PurseInvariant PROVE Purse!WalletsKept
    BY DEF WalletsSound
  <2>1. Purse!OpensAsTold
    BY DEF PurseInvariant, Purse!OpensUnlessTouched, Purse!OpensAsTold, Purse!Writes
  <2>2. Purse!RewardsKept
    BY DEF PurseInvariant, Purse!AddressesSpendable, Purse!RewardsKept,
           Purse!Pays, Purse!Spendable
  <2> QED BY <2>1, <2>2 DEF PurseInvariant, Purse!WalletsKept
<1> QED BY <1>1, <1>2, <1>3, PTL DEF Purse!Spec

-----------------------------------------------------------------------------
(* The kings' turns, and what the mining loop loses. *)

AList(l) == \E S : l \in Seq(S)

SaverStates == [at : {"idle", "started", "head", "encoded"}, bytes : Turns!Schedules]

\* Lists are sequences, and every schedule, kept, saved or on its way, is one.
TurnTypeOK ==
  /\ AList(turnKingAddresses) /\ AList(turnDbConfig)
  /\ turnState \in Turns!Schedules /\ turnDbState \in Turns!Schedules
  /\ turnSaver \in [TurnSavers -> SaverStates]
  /\ turnHeight \in Nat
  /\ turnSync \in [at : Nat, to : Nat]

\* A list has a length, and only the empty one has none.
LEMMA ListLen ==
  ASSUME NEW l, AList(l)
  PROVE  Len(l) \in Nat /\ (l # <<>> => Len(l) > 0)
<1>1. PICK S : l \in Seq(S)
  BY DEF AList
<1> QED BY <1>1

\* What is left of a list is one.
LEMMA EligibleList ==
  ASSUME NEW l, AList(l), NEW poor
  PROVE  AList(Turns!Eligible(l, poor))
<1>1. PICK S : l \in Seq(S)
  BY DEF AList
<1> DEFINE kept == {i \in DOMAIN l : l[i] \notin poor}
           Place(k) == CHOOSE i \in kept : Cardinality({j \in kept : j <= i}) = k
           n == Cardinality(kept)
           T == {l[Place(k)] : k \in 1..n}
           e == [k \in 1..n |-> l[Place(k)]]
<1>2. n \in Nat
  <2>1. DOMAIN l = 1..Len(l) /\ Len(l) \in Nat
    BY <1>1
  <2>2. IsFiniteSet(1..Len(l))
    BY <2>1, FS_Interval
  <2>3. kept \subseteq 1..Len(l)
    BY <2>1
  <2> HIDE DEF kept
  <2>4. IsFiniteSet(kept)
    BY <2>2, <2>3, FS_Subset
  <2> QED BY <2>4, FS_CardinalityType
<1>3. Turns!Eligible(l, poor) = e
  BY Zenon DEF Turns!Eligible, Turns!Cardinality, Cardinality
<1> HIDE DEF n
<1>4. e \in [1..n -> T]
  BY Zenon
<1> HIDE DEF T, e
<1>5. e \in Seq(T)
  BY <1>2, <1>4, IsASeq
<1> QED BY <1>3, <1>5 DEF AList

\* A king that is in a list is at a place of it.
LEMMA IndexInList ==
  ASSUME TurnTypeOK, NEW king, Turns!IndexOf(king) # -1
  PROVE  /\ Turns!IndexOf(king) \in Nat
         /\ Turns!IndexOf(king) < Len(turnKingAddresses)
<1> DEFINE l == turnKingAddresses
           Where == {i \in 1..Len(l) : l[i] = king}
<1>1. Len(l) \in Nat
  BY ListLen DEF TurnTypeOK
<1>2. Where \in SUBSET Nat /\ Where # {}
  BY <1>1 DEF Turns!IndexOf
<1> HIDE DEF Where
<1>3. PICK i \in Where : \A j \in Where : i <= j
  BY <1>2, NatLeast
<1>4. /\ i \in 1..Len(l) /\ l[i] = king
      /\ \A j \in 1..(i - 1) : l[j] # king
  <2>1. i \in 1..Len(l) /\ l[i] = king
    BY <1>3 DEF Where
  <2>2. ASSUME NEW j \in 1..(i - 1), l[j] = king PROVE FALSE
    <3>1. j \in Where
      BY <1>1, <2>1, <2>2 DEF Where
    <3> QED BY <1>3, <2>1, <2>2, <3>1
  <2> QED BY <2>1, <2>2
<1> DEFINE First == CHOOSE k \in 1..Len(l) : /\ l[k] = king
                                             /\ \A j \in 1..(k - 1) : l[j] # king
<1>5. First \in 1..Len(l)
  BY <1>4
<1>6. Turns!IndexOf(king) = First - 1
  BY <1>4 DEF Turns!IndexOf
<1> HIDE DEF First
<1> QED BY <1>1, <1>5, <1>6

\* The schedules that the operators make.
LEMMA Scheduled ==
  ASSUME NEW i \in Nat, NEW h \in Nat
  PROVE  /\ Turns!Schedule(turnState, i, h) \in Turns!Schedules
         /\ Turns!Schedule(turnState, i, h).index = i
         /\ Turns!Schedule(turnState, i, h).rotationHeight = h
BY TurnAssumption DEF Turns!Schedule, Turns!Schedules

LEMMA RotatedTurn ==
  ASSUME TurnTypeOK, NEW h \in Nat
  PROVE  LET r == Turns!RotatedIfDue(h)
         IN  /\ r \in Turns!Schedules
             /\ Turns!InRange(turnKingAddresses, turnState) =>
                  Turns!InRange(turnKingAddresses, r)
             /\ r.index # turnState.index =>
                  r.rotationHeight >= turnState.nextRotationAt
<1> DEFINE l == turnKingAddresses
           i == (turnState.index + 1) % Len(l)
<1>1. Len(l) \in Nat /\ (l # <<>> => Len(l) > 0)
  BY ListLen DEF TurnTypeOK
<1>2. turnState.index \in Nat /\ turnState.nextRotationAt \in Nat
  BY DEF TurnTypeOK, Turns!Schedules
<1>3. CASE h >= turnState.nextRotationAt /\ l # <<>>
  <2>1. i \in Nat /\ i < Len(l)
    BY <1>1, <1>2, <1>3
  <2>2. Turns!RotatedIfDue(h) = Turns!Schedule(turnState, i, h)
    BY <1>3 DEF Turns!RotatedIfDue, Turns!Rotated
  <2> HIDE DEF i
  <2> QED BY <1>3, <2>1, <2>2, Scheduled DEF Turns!InRange
<1>4. CASE ~(h >= turnState.nextRotationAt) \/ l = <<>>
  <2>1. Turns!RotatedIfDue(h) = turnState
    BY <1>4 DEF Turns!RotatedIfDue, Turns!Rotated
  <2> QED BY <2>1 DEF TurnTypeOK
<1> QED BY <1>3, <1>4

LEMMA ClampedTurn ==
  ASSUME TurnTypeOK, NEW l, AList(l)
  PROVE  LET c == Turns!Clamped(turnState, l)
             z == [turnState EXCEPT !.index = 0]
         IN  /\ c \in Turns!Schedules /\ z \in Turns!Schedules
             /\ Turns!InRange(l, c)
             /\ l = turnKingAddresses /\ Turns!InRange(l, turnState) => c = turnState
<1> DEFINE z == [turnState EXCEPT !.index = 0]
<1>1. z \in Turns!Schedules /\ z.index = 0
  BY DEF TurnTypeOK, Turns!Schedules
<1>2. Len(l) \in Nat /\ (l # <<>> => Len(l) > 0)
  BY ListLen
<1>3. CASE Turns!InRange(l, turnState)
  BY <1>1, <1>3 DEF Turns!Clamped, TurnTypeOK
<1>4. CASE ~Turns!InRange(l, turnState)
  <2>1. Turns!Clamped(turnState, l) = z
    BY <1>4 DEF Turns!Clamped
  <2> HIDE DEF z
  <2>2. Turns!InRange(l, z)
    BY <1>1, <1>2 DEF Turns!InRange
  <2> QED BY <1>1, <1>4, <2>1, <2>2 DEF z
<1> QED BY <1>3, <1>4

LEMMA TurnInit == Turns!Init => TurnTypeOK
<1> SUFFICES ASSUME Turns!Init PROVE TurnTypeOK
  OBVIOUS
<1> USE DEF Turns!Init
<1>1. AList(turnKingAddresses) /\ AList(turnDbConfig)
  BY TurnAssumption DEF AList
<1>2. Turns!FirstSchedule \in Turns!Schedules
  BY TurnAssumption DEF Turns!FirstSchedule, Turns!Schedules
<1>3. Turns!IdleSaver \in SaverStates
  BY <1>2 DEF Turns!IdleSaver, SaverStates
<1>4. turnHeight \in Nat /\ turnSync \in [at : Nat, to : Nat]
  BY DEF Turns!NoSync
<1> QED BY <1>1, <1>2, <1>3, <1>4 DEF TurnTypeOK

\* What IndexLostOnlyAtFault and NoTurnCutShort say of a step.
LosesAtFault ==
  Turns!InRange(turnKingAddresses, turnState) =>
    \/ Turns!InRange(turnKingAddresses, turnState)'
    \/ Turns!Restart
    \/ turnKingAddresses' # turnKingAddresses /\ turnDbConfig' = turnDbConfig

CutsNoTurn ==
  turnState'.index # turnState.index /\ turnKingAddresses' = turnKingAddresses =>
    \/ turnState'.rotationHeight >= turnState.nextRotationAt
    \/ Turns!AlignKing \/ Turns!Restart
    \/ \E i \in 0..Len(turnKingAddresses) : Turns!ForceRotate(i)

LEMMA StillTurn ==
  ASSUME UNCHANGED <<turnKingAddresses, turnState>>
  PROVE  LosesAtFault /\ CutsNoTurn
BY DEF LosesAtFault, CutsNoTurn, Turns!InRange

\* A new schedule of the same list, written or not.
LEMMA Rescheduled ==
  ASSUME TurnTypeOK, turnKingAddresses' = turnKingAddresses,
         turnDbConfig' = turnDbConfig, turnState' \in Turns!Schedules,
         turnDbState' \in {turnDbState} \cup Turns!Saved(turnState'),
         turnSaver' = turnSaver, turnHeight' = turnHeight,
         turnSync' \in [at : Nat, to : Nat]
  PROVE  TurnTypeOK'
<1>1. turnDbState' \in Turns!Schedules
  BY DEF TurnTypeOK, Turns!Saved
<1> QED BY <1>1 DEF TurnTypeOK

LEMMA BlockStep ==
  ASSUME TurnTypeOK,
         \/ \E rk \in TurnKings \cup {TurnNoKing} : Turns!DistributeRewards(rk)
         \/ Turns!RejectBlock \/ Turns!AlignKing \/ Turns!ShouldRotate
         \/ Turns!RotateToNextKing \/ Turns!CommitBlock \/ Turns!RevertBlock
  PROVE  TurnTypeOK' /\ LosesAtFault /\ CutsNoTurn
<1> USE DEF Turns!memory, Turns!lock, Turns!durable
<1>1. ASSUME NEW king, Turns!RecordRewardDistribution(king)
      PROVE  turnSaver' \in [TurnSavers -> SaverStates]
  BY <1>1 DEF TurnTypeOK, Turns!RecordRewardDistribution, SaverStates
<1>2. ASSUME NEW rk, Turns!DistributeRewards(rk)
      PROVE  TurnTypeOK' /\ LosesAtFault /\ CutsNoTurn
  <2>1. turnSaver' \in [TurnSavers -> SaverStates]
    BY <1>1, <1>2 DEF Turns!DistributeRewards
  <2> QED BY <1>2, <2>1, StillTurn DEF Turns!DistributeRewards, TurnTypeOK
<1>3. CASE Turns!RejectBlock
  BY <1>3, StillTurn DEF Turns!RejectBlock, TurnTypeOK
<1>4. CASE Turns!AlignKing
  <2>1. CASE UNCHANGED <<turnState, turnDbState>>
    BY <1>4, <2>1, StillTurn DEF Turns!AlignKing, TurnTypeOK
  <2>2. CASE /\ turnState' = Turns!ForcedTo(turnDistribution)
             /\ turnDbState' \in IF turnState' = turnState THEN {turnDbState}
                                 ELSE Turns!Saved(turnState')
    <3>1. Turns!IndexOf(turnDistribution) # -1 =>
            /\ Turns!IndexOf(turnDistribution) \in Nat
            /\ Turns!IndexOf(turnDistribution) < Len(turnKingAddresses)
      BY IndexInList
    <3>2. turnHeight \in Nat /\ turnState \in Turns!Schedules
      BY DEF TurnTypeOK
    <3>3. turnState' \in Turns!Schedules
      BY <2>2, <3>1, <3>2, Scheduled DEF Turns!ForcedTo
    <3>4. turnKingAddresses' = turnKingAddresses
      BY <1>4 DEF Turns!AlignKing
    <3>5. LosesAtFault
      BY <2>2, <3>1, <3>2, <3>4, Scheduled
         DEF Turns!ForcedTo, LosesAtFault, Turns!InRange
    <3>6. TurnTypeOK'
      <4>1. turnSync \in [at : Nat, to : Nat]
        BY DEF TurnTypeOK
      <4>2. turnDbState' \in {turnDbState} \cup Turns!Saved(turnState')
        BY <2>2
      <4> QED BY <1>4, <3>3, <4>1, <4>2, Rescheduled DEF Turns!AlignKing
    <3> QED BY <1>4, <3>5, <3>6 DEF CutsNoTurn
  <2> QED BY <1>4, <2>1, <2>2 DEF Turns!AlignKing
<1>5. CASE Turns!ShouldRotate
  <2>1. turnSaver' \in [TurnSavers -> SaverStates]
    BY <1>1, <1>5 DEF Turns!ShouldRotate
  <2> QED BY <1>5, <2>1, StillTurn DEF Turns!ShouldRotate, TurnTypeOK
<1>6. CASE Turns!RotateToNextKing
  <2>1. turnHeight + 1 \in Nat /\ turnSync \in [at : Nat, to : Nat]
    BY DEF TurnTypeOK
  <2> DEFINE r == Turns!RotatedIfDue(turnHeight + 1)
  <2>2. /\ r \in Turns!Schedules
        /\ Turns!InRange(turnKingAddresses, turnState) =>
             Turns!InRange(turnKingAddresses, r)
        /\ r.index # turnState.index =>
             r.rotationHeight >= turnState.nextRotationAt
    BY <2>1, RotatedTurn
  <2>3. /\ turnState' = r /\ turnKingAddresses' = turnKingAddresses
        /\ turnDbState' \in {turnDbState} \cup Turns!Saved(turnState')
        /\ turnDbConfig' = turnDbConfig /\ turnSaver' = turnSaver
        /\ turnHeight' = turnHeight /\ turnSync' = turnSync
    BY <1>6 DEF Turns!RotateToNextKing
  <2> HIDE DEF r
  <2>4. TurnTypeOK'
    BY <2>1, <2>2, <2>3, Rescheduled
  <2>5. LosesAtFault /\ CutsNoTurn
    BY <2>2, <2>3 DEF LosesAtFault, CutsNoTurn, Turns!InRange
  <2> QED BY <2>4, <2>5
<1>7. CASE Turns!CommitBlock
  <2>1. turnHeight' \in Nat
    BY <1>7 DEF Turns!CommitBlock, TurnTypeOK
  <2> QED BY <1>7, <2>1, StillTurn DEF Turns!CommitBlock, TurnTypeOK
<1>8. CASE Turns!RevertBlock
  <2>1. turnHeight' \in Nat
    BY <1>8 DEF Turns!RevertBlock, TurnTypeOK
  <2> QED BY <1>8, <2>1, StillTurn DEF Turns!RevertBlock, TurnTypeOK
<1> QED BY <1>2, <1>3, <1>4, <1>5, <1>6, <1>7, <1>8

LEMMA SaverStep ==
  ASSUME TurnTypeOK, NEW s \in TurnSavers,
         Turns!MarshalHead(s) \/ Turns!MarshalRest(s) \/ Turns!WriteEncoded(s)
  PROVE  TurnTypeOK' /\ LosesAtFault /\ CutsNoTurn
<1> USE DEF Turns!memory, Turns!lock, Turns!durable, Turns!chainVars
<1>1. /\ turnState \in Turns!Schedules /\ turnDbState \in Turns!Schedules
      /\ turnSaver \in [TurnSavers -> SaverStates]
      /\ turnSaver[s].bytes \in Turns!Schedules
  BY DEF TurnTypeOK, SaverStates
<1>2. CASE Turns!MarshalHead(s)
  <2>1. [at |-> "head", bytes |-> turnState] \in SaverStates
    BY <1>1 DEF SaverStates
  <2>2. turnSaver' \in [TurnSavers -> SaverStates]
    BY <1>1, <1>2, <2>1 DEF Turns!MarshalHead
  <2> QED BY <1>2, <2>2, StillTurn DEF Turns!MarshalHead, TurnTypeOK
<1>3. CASE Turns!MarshalRest(s)
  <2> DEFINE b == [turnSaver[s].bytes EXCEPT !.nextRotationAt =
                                               turnState.nextRotationAt]
             x == [[turnSaver[s] EXCEPT !.at = "encoded"] EXCEPT !.bytes = b]
  <2>1. b \in Turns!Schedules
    BY <1>1 DEF Turns!Schedules
  <2>2. turnSaver' \in [TurnSavers -> SaverStates]
    BY <1>1, <1>3, <2>1 DEF Turns!MarshalRest, SaverStates, Turns!Schedules
  <2> QED BY <1>3, <2>2, StillTurn DEF Turns!MarshalRest, TurnTypeOK
<1>4. CASE Turns!WriteEncoded(s)
  <2>1. Turns!IdleSaver \in SaverStates
    BY TurnAssumption
       DEF Turns!IdleSaver, SaverStates, Turns!FirstSchedule, Turns!Schedules
  <2>2. turnSaver' \in [TurnSavers -> SaverStates]
    BY <1>1, <1>4, <2>1 DEF Turns!WriteEncoded
  <2>3. turnDbState' \in Turns!Schedules
    BY <1>1, <1>4 DEF Turns!WriteEncoded, Turns!Saved
  <2> QED BY <1>4, <2>2, <2>3, StillTurn DEF Turns!WriteEncoded, TurnTypeOK
<1> QED BY <1>2, <1>3, <1>4

LEMMA TurnSyncStep ==
  ASSUME TurnTypeOK,
         Turns!SyncBlocks \/ Turns!SyncHeight \/ Turns!SyncDone
  PROVE  TurnTypeOK' /\ LosesAtFault /\ CutsNoTurn
<1> USE DEF Turns!durable, Turns!chainVars
<1>1. turnSync.at \in Nat /\ turnSync.to \in Nat /\ turnHeight \in Nat
  BY DEF TurnTypeOK
<1>2. CASE Turns!SyncBlocks
  <2>1. Turns!SyncFrom \in Nat /\ Turns!SyncTo \in Nat
    BY <1>1 DEF Turns!SyncFrom, Turns!SyncTo, TurnTypeOK, Turns!Schedules
  <2>2. turnSync' \in [at : Nat, to : Nat]
    BY <1>2, <2>1 DEF Turns!SyncBlocks
  <2> QED BY <1>2, <2>2, StillTurn DEF Turns!SyncBlocks, TurnTypeOK
<1>3. CASE Turns!SyncHeight
  <2> DEFINE r == Turns!RotatedIfDue(turnSync.at)
  <2>1. /\ r \in Turns!Schedules
        /\ Turns!InRange(turnKingAddresses, turnState) =>
             Turns!InRange(turnKingAddresses, r)
        /\ r.index # turnState.index =>
             r.rotationHeight >= turnState.nextRotationAt
    BY <1>1, RotatedTurn
  <2>2. /\ turnState' \in {r, turnState}
        /\ turnKingAddresses' = turnKingAddresses
        /\ turnDbState' \in {turnDbState} \cup Turns!Saved(turnState')
        /\ turnDbConfig' = turnDbConfig /\ turnSaver' = turnSaver
        /\ turnHeight' = turnHeight
    BY <1>3 DEF Turns!SyncHeight
  <2>3. turnSync' \in [at : Nat, to : Nat]
    BY <1>1, <1>3 DEF Turns!SyncHeight, TurnTypeOK
  <2> HIDE DEF r
  <2>4. TurnTypeOK'
    <3>1. turnState' \in Turns!Schedules
      BY <2>1, <2>2 DEF TurnTypeOK
    <3> QED BY <2>2, <2>3, <3>1, Rescheduled
  <2>5. LosesAtFault /\ CutsNoTurn
    BY <2>1, <2>2 DEF LosesAtFault, CutsNoTurn, Turns!InRange
  <2> QED BY <2>4, <2>5
<1>4. CASE Turns!SyncDone
  BY <1>4, StillTurn DEF Turns!SyncDone, Turns!NoSync, TurnTypeOK
<1> QED BY <1>2, <1>3, <1>4

LEMMA ListStep ==
  ASSUME TurnTypeOK,
         \/ \E list \in TurnUpdates : Turns!UpdateKingAddresses(list)
         \/ \E poor \in SUBSET TurnPoor : Turns!CleanupIneligibleKings(poor)
         \/ Turns!SaveAfterUpdate
         \/ \E i \in 0..(Len(turnKingAddresses) - 1) : Turns!ForceRotate(i)
         \/ Turns!Restart
  PROVE  TurnTypeOK' /\ LosesAtFault /\ CutsNoTurn
<1> USE DEF Turns!durable, Turns!chainVars
<1>1. ASSUME NEW list \in TurnUpdates, Turns!UpdateKingAddresses(list)
      PROVE  TurnTypeOK' /\ LosesAtFault /\ CutsNoTurn
  <2>1. AList(list)
    BY TurnAssumption DEF AList
  <2> DEFINE c == Turns!Clamped(turnState, list)
  <2>2. /\ c \in Turns!Schedules /\ Turns!InRange(list, c)
        /\ list = turnKingAddresses /\ Turns!InRange(list, turnState) =>
             c = turnState
    BY <2>1, ClampedTurn
  <2>3. /\ turnKingAddresses' = list
        /\ \/ turnDbConfig' = list /\ turnState' = c
           \/ turnDbConfig' = turnDbConfig /\ turnState' = turnState
        /\ turnSync' = turnSync /\ turnDbState' = turnDbState
        /\ turnSaver' = turnSaver /\ turnHeight' = turnHeight
        /\ Turns!InRange(turnKingAddresses, turnState)
    BY <1>1 DEF Turns!UpdateKingAddresses, Turns!Ready
  <2> HIDE DEF c
  <2>4. TurnTypeOK'
    BY <2>1, <2>2, <2>3 DEF TurnTypeOK
  <2>5. LosesAtFault /\ CutsNoTurn
    BY <2>2, <2>3 DEF LosesAtFault, CutsNoTurn, Turns!InRange
  <2> QED BY <2>4, <2>5
<1>2. ASSUME NEW poor \in SUBSET TurnPoor, Turns!CleanupIneligibleKings(poor)
      PROVE  TurnTypeOK' /\ LosesAtFault /\ CutsNoTurn
  <2> DEFINE list == Turns!Eligible(turnKingAddresses, poor)
             c == Turns!Clamped(turnState, list)
             z == [turnState EXCEPT !.index = 0]
  <2>1. AList(list)
    BY EligibleList DEF TurnTypeOK
  <2>2. /\ c \in Turns!Schedules /\ Turns!InRange(list, c)
        /\ z \in Turns!Schedules
    BY <2>1, ClampedTurn
  <2>3. /\ turnKingAddresses' = list /\ list # turnKingAddresses
        /\ turnState' = IF list = <<>> THEN z ELSE c
        /\ turnDbConfig' \in {list, turnDbConfig}
        /\ turnSync' = turnSync /\ turnDbState' = turnDbState
        /\ turnSaver' = turnSaver /\ turnHeight' = turnHeight
    BY <1>2 DEF Turns!CleanupIneligibleKings
  <2> HIDE DEF list, c, z
  <2>4. TurnTypeOK'
    BY <2>1, <2>2, <2>3 DEF TurnTypeOK
  <2>5. LosesAtFault /\ CutsNoTurn
    BY <2>2, <2>3 DEF LosesAtFault, CutsNoTurn, Turns!InRange
  <2> QED BY <2>4, <2>5
<1>3. CASE Turns!SaveAfterUpdate
  <2>1. turnDbState' \in Turns!Schedules
    BY <1>3 DEF Turns!SaveAfterUpdate, Turns!Saved, TurnTypeOK
  <2> QED BY <1>3, <2>1, StillTurn DEF Turns!SaveAfterUpdate, TurnTypeOK
<1>4. ASSUME NEW i \in 0..(Len(turnKingAddresses) - 1), Turns!ForceRotate(i)
      PROVE  TurnTypeOK' /\ LosesAtFault /\ CutsNoTurn
  <2>1. Len(turnKingAddresses) \in Nat
    BY ListLen DEF TurnTypeOK
  <2>2. i \in Nat /\ i < Len(turnKingAddresses) /\ i \in 0..Len(turnKingAddresses)
    BY <2>1
  <2>3. turnHeight \in Nat /\ turnSync \in [at : Nat, to : Nat]
    BY DEF TurnTypeOK
  <2> DEFINE r == Turns!Schedule(turnState, i, turnHeight)
  <2>4. r \in Turns!Schedules /\ r.index = i
    BY <2>2, <2>3, Scheduled
  <2>5. /\ turnState' = r /\ turnKingAddresses' = turnKingAddresses
        /\ turnDbState' \in {turnDbState} \cup Turns!Saved(turnState')
        /\ turnDbConfig' = turnDbConfig /\ turnSaver' = turnSaver
        /\ turnHeight' = turnHeight /\ turnSync' = turnSync
    BY <1>4 DEF Turns!ForceRotate, Turns!lock
  <2> HIDE DEF r
  <2>6. TurnTypeOK'
    BY <2>3, <2>4, <2>5, Rescheduled
  <2>7. LosesAtFault
    BY <2>2, <2>4, <2>5 DEF LosesAtFault, Turns!InRange
  <2>8. CutsNoTurn
    BY <1>4, <2>2 DEF CutsNoTurn
  <2> QED BY <2>6, <2>7, <2>8
<1>5. CASE Turns!Restart
  <2>1. Turns!IdleSaver \in SaverStates
    BY TurnAssumption
       DEF Turns!IdleSaver, SaverStates, Turns!FirstSchedule, Turns!Schedules
  <2>2. /\ turnSaver' \in [TurnSavers -> SaverStates]
        /\ turnSync' \in [at : Nat, to : Nat]
    BY <1>5, <2>1 DEF Turns!Restart, Turns!NoSync
  <2>3. TurnTypeOK'
    BY <1>5, <2>2 DEF Turns!Restart, TurnTypeOK
  <2> QED BY <1>5, <2>3 DEF LosesAtFault, CutsNoTurn
<1> QED BY <1>1, <1>2, <1>3, <1>4, <1>5

LEMMA TurnStep ==
  ASSUME TurnTypeOK, [Turns!Next]_(Turns!vars)
  PROVE  /\ TurnTypeOK'
         /\ [LosesAtFault]_(Turns!vars) /\ [CutsNoTurn]_(Turns!vars)
<1>1. CASE UNCHANGED Turns!vars
  BY <1>1 DEF Turns!vars, Turns!memory, Turns!lock, Turns!durable,
              Turns!chainVars, TurnTypeOK
<1>2. CASE Turns!Next
  BY <1>2, BlockStep, SaverStep, TurnSyncStep, ListStep DEF Turns!Next
<1> QED BY <1>1, <1>2

-----------------------------------------------------------------------------
(* Mining: what is lost. *)

OrphansKnown == ~Orphaned /\ Orphaned' => console = "resetting" \/ stopped
SpoilsKnown == ~spoilt /\ spoilt' => won.root = "tip" /\ won.order = "refused"

LEMMA MiningFaultStep ==
  ASSUME [Next]_vars
  PROVE  [OrphansKnown]_vars /\ [SpoilsKnown]_vars
<1> SUFFICES ASSUME Next PROVE OrphansKnown /\ SpoilsKnown
  OBVIOUS
<1> USE DEF OrphansKnown, SpoilsKnown, Orphaned
<1>1. CASE \/ StartMining \/ HandleStopMining \/ ResetBegin \/ ResetEnd
           \/ StopMining \/ StopP2P \/ \E m \in Miners : StartMiner(m)
  BY <1>1 DEF StartMining, HandleStopMining, ResetBegin, ResetEnd, StopMining, StopP2P,
              StartMiner, chainVars, flagVars
<1>2. CASE PeerBlock \/ Reorganize \/ StartSync \/ StopSync \/ CooldownOver \/ PoolChanges
  BY <1>2 DEF PeerBlock, Reorganize, StartSync, StopSync, CooldownOver, PoolChanges,
              flagVars
<1>3. CASE LoopEnds \/ Tick \/ LookAtTip \/ CreateNewBlock
  BY <1>3 DEF LoopEnds, Tick, LookAtTip, CreateNewBlock, Goto, chainVars, flagVars
<1>4. CASE ShareWork
  BY <1>4 DEF ShareWork, Goto, chainVars, flagVars
<1>5. CASE TakeResult \/ Timeout
  BY <1>5 DEF TakeResult, Timeout, Goto, chainVars, flagVars
<1>6. CASE Submit
  BY <1>6 DEF Submit, Validate, RootExpected, Accepted, Refused, Goto, flagVars
<1>7. ASSUME NEW w \in Workers, WorkerStep(w)
      PROVE  OrphansKnown /\ SpoilsKnown
  BY <1>7 DEF WorkerStep, TakeWork, Requeue, MineWork, SendResult, WorkerStops,
              MoveWorker, chainVars, flagVars
<1> QED BY <1>1, <1>2, <1>3, <1>4, <1>5, <1>6, <1>7 DEF Next, LoopStep

\* A loop is orphaned by a reset or a shutdown only and the account state spoilt
\* only by a block whose fault the precheck cannot see, whatever the queues hold; the king's index leaves
\* the list at a restart or an unwritten list only, and no turn is cut short, for
\* any kings, lists and interval.
THEOREM FaultsAreKnown == Spec /\ Turns!Spec => FaultsKnown
<1>1. Spec => LoopLostOnlyByReset /\ SpoiltOnlyUnseen
  <2>1. [Next]_vars => [OrphansKnown]_vars /\ [SpoilsKnown]_vars
    BY MiningFaultStep
  <2>2. Spec => [][OrphansKnown]_vars /\ [][SpoilsKnown]_vars
    BY <2>1, PTL DEF Spec
  <2> QED BY <2>2 DEF LoopLostOnlyByReset, SpoiltOnlyUnseen, OrphansKnown,
                      SpoilsKnown
<1>2. Turns!Spec => Turns!IndexLostOnlyAtFault
  <2>1. TurnTypeOK /\ [Turns!Next]_(Turns!vars) =>
          [Turns!InRange(turnKingAddresses, turnState) =>
             \/ Turns!InRange(turnKingAddresses, turnState)'
             \/ Turns!Restart
             \/ /\ turnKingAddresses' # turnKingAddresses
                /\ turnDbConfig' = turnDbConfig]_(Turns!vars)
    BY TurnStep DEF LosesAtFault
  <2>2. TurnTypeOK /\ [Turns!Next]_(Turns!vars) => TurnTypeOK'
    BY TurnStep
  <2> QED BY TurnInit, <2>1, <2>2, PTL DEF Turns!Spec, Turns!IndexLostOnlyAtFault
<1>3. Turns!Spec => Turns!NoTurnCutShort
  <2>1. TurnTypeOK /\ [Turns!Next]_(Turns!vars) =>
          [/\ turnState'.index # turnState.index
           /\ turnKingAddresses' = turnKingAddresses
           => \/ turnState'.rotationHeight >= turnState.nextRotationAt
              \/ Turns!AlignKing \/ Turns!Restart
              \/ \E i \in 0..Len(turnKingAddresses) : Turns!ForceRotate(i)]_(Turns!vars)
    BY TurnStep DEF CutsNoTurn
  <2>2. TurnTypeOK /\ [Turns!Next]_(Turns!vars) => TurnTypeOK'
    BY TurnStep
  <2> QED BY TurnInit, <2>1, <2>2, PTL DEF Turns!Spec, Turns!NoTurnCutShort
<1> QED BY <1>1, <1>2, <1>3 DEF FaultsKnown

=============================================================================
