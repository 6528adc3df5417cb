---------------------------- MODULE RotatingKing ----------------------------
(***************************************************************************)
(* The rotating king of one node: a list of kings, of which one is paid in *)
(* each block, and a schedule that moves on to the next every Interval     *)
(* blocks.  The list and the schedule are kept in memory and, under two    *)
(* keys, in the chain database.                                            *)
(*                                                                         *)
(* A critical section of m.mu is one step up to its first write; one with  *)
(* more holds mu over several, since the node may stop in between.         *)
(* Blocks, the periodic sync, list updates and the goroutines that save a  *)
(* recorded reward interleave.                                             *)
(***************************************************************************)
EXTENDS Integers, Sequences, FiniteSets

CONSTANTS
  Kings,
  NoKing,             \* the zero address; in a block, no rk= field
  Interval,           \* RotationInterval
  FirstList,          \* the king list in the database at the first start
  Updates,            \* lists that the console, governance or a peer installs
  Poor,               \* kings that may be below the minimum stake
  Savers,             \* bound: goroutines of RecordRewardDistribution
  MaxHeight,          \* bound: blocks in the chain
  Plans               \* which disturbances a behaviour may meet: see plan

VARIABLES
  plan,               \* "failures": a database write may fail; "lists": the list
                      \* changes; "savers": rewards are recorded
  kingAddresses,      \* config.KingAddresses
  state,              \* the schedule: index of the king, height of the last
                      \* rotation, height of the next
  mu,                 \* m.mu: "free", "saving" (the state after the list), "sync"
  sync,               \* the loop of syncRotationsToHeight: [at, to]
  dbConfig, dbState,  \* what the database holds
  saver,              \* the goroutines that save the state without m.mu
  height,             \* GetChainHeight
  pc, distribution    \* the block being accepted: whose reward it carries

lock == <<mu, sync>>
memory == <<kingAddresses, state, lock>>
durable == <<dbConfig, dbState>>
chainVars == <<height, pc, distribution>>
vars == <<plan, memory, durable, saver, chainVars>>

Schedules == [index : Nat, rotationHeight : Nat, nextRotationAt : Nat]

FirstSchedule == [index |-> 0, rotationHeight |-> 0, nextRotationAt |-> Interval]

NoSync == [at |-> 0, to |-> 0]

IdleSaver == [at |-> "idle", bytes |-> FirstSchedule]

Init ==
  /\ plan \in Plans
  /\ kingAddresses = FirstList /\ dbConfig = FirstList
  /\ state = FirstSchedule /\ dbState = FirstSchedule
  /\ mu = "free" /\ sync = NoSync
  /\ saver = [s \in Savers |-> IdleSaver]
  /\ height = 0
  /\ pc = "idle" /\ distribution = NoKing

-----------------------------------------------------------------------------
\* The list and the schedule

\* Whether indexing the list with the schedule's king does not panic.
InRange(list, s) == list # <<>> => s.index < Len(list)

GetCurrentKing ==
  IF kingAddresses = <<>> THEN NoKing ELSE kingAddresses[state.index + 1]

\* King i takes over at height h.
Schedule(s, i, h) ==
  [index |-> i, rotationHeight |-> h, nextRotationAt |-> h + Interval]

\* rotateToNextKingInternal.  The search for an eligible king that
\* RotateToNextKing makes first has no effect: the index is computed anew.
Rotated(s, h) ==
  IF kingAddresses = <<>> THEN s
  ELSE Schedule(s, (s.index + 1) % Len(kingAddresses), h)

\* Mutant: the index is left as it was.
Unclamped(s, list) == s

\* Adjusted to a list after it has changed.
Clamped(s, list) == IF InRange(list, s) THEN s ELSE [s EXCEPT !.index = 0]

\* What a write of the state can leave: a failing one is logged or returned.
Saved(s) == {s} \cup IF "failures" \in plan THEN {dbState} ELSE {}

\* m.mu is free and the list can be indexed.  If it cannot, the node panics,
\* and all that is left is Restart.
Ready == mu = "free" /\ InRange(kingAddresses, state)

-----------------------------------------------------------------------------
\* A block

\* The reward of an eligible king is added to totals that only reports read,
\* and a goroutine is started to save them.
RecordRewardDistribution(king) ==
  \/ saver' = saver
  \/ \E s \in Savers :
       /\ "savers" \in plan
       /\ king # NoKing
       /\ saver[s].at = "idle"
       /\ saver' = [saver EXCEPT ![s].at = "started"]

\* DistributeRewards pays the king that the block names, or else the local one.
DistributeRewards(rk) ==
  /\ pc = "idle" /\ Ready
  /\ height < MaxHeight
  /\ distribution' = IF rk # NoKing THEN rk ELSE GetCurrentKing
  /\ RecordRewardDistribution(distribution')
  /\ pc' = "distributed"
  /\ UNCHANGED <<plan, memory, durable, height>>

\* The state root differs from the header's.
RejectBlock ==
  /\ pc = "distributed"
  /\ pc' = "idle" /\ distribution' = NoKing
  /\ UNCHANGED <<plan, memory, durable, saver, height>>

\* Where a king is in the list: -1 if nowhere.
IndexOf(king) ==
  IF \E i \in 1..Len(kingAddresses) : kingAddresses[i] = king
    THEN (CHOOSE i \in 1..Len(kingAddresses) :
            /\ kingAddresses[i] = king
            /\ \A j \in 1..(i - 1) : kingAddresses[j] # king) - 1
    ELSE -1

\* ForceRotateToAddress, in memory.  The chain is still below the block.
ForcedTo(king) ==
  IF IndexOf(king) = -1 THEN state ELSE Schedule(state, IndexOf(king), height)

\* processRotatingKingForBlock makes the king of the block the local one.  A
\* king that is not in the list, or a failing write, ends the whole update.
AlignKing ==
  /\ pc = "distributed" /\ Ready
  /\ IF distribution \in {NoKing, GetCurrentKing}
       THEN pc' = "aligned" /\ UNCHANGED <<state, dbState>>
       ELSE /\ state' = ForcedTo(distribution)
            /\ dbState' \in IF state' = state THEN {dbState} ELSE Saved(state')
            /\ pc' = IF dbState' = state' /\ state' # state THEN "aligned" ELSE "updated"
  /\ UNCHANGED <<plan, kingAddresses, lock, dbConfig, saver, height, distribution>>

\* The reward is recorded a second time, and ShouldRotate looks.
ShouldRotate ==
  /\ pc = "aligned" /\ Ready
  /\ RecordRewardDistribution(distribution)
  /\ pc' = IF height + 1 >= state.nextRotationAt THEN "due" ELSE "updated"
  /\ UNCHANGED <<plan, memory, durable, height, distribution>>

\* Mutant: what ShouldRotate said is not checked again under the lock.
RotatedUnchecked(h) == Rotated(state, h)

\* The check of RotateToNextKing and of the sync's loop.
RotatedIfDue(h) == IF h >= state.nextRotationAt THEN Rotated(state, h) ELSE state

RotateToNextKing ==
  /\ pc = "due" /\ Ready
  /\ state' = RotatedIfDue(height + 1)
  /\ dbState' \in IF state' = state THEN {dbState} ELSE Saved(state')
  /\ pc' = "updated"
  /\ UNCHANGED <<plan, kingAddresses, lock, dbConfig, saver, height, distribution>>

\* The block is written, or that fails; the schedule stays as it is.
CommitBlock ==
  /\ pc = "updated"
  /\ height' \in {height + 1} \cup IF "failures" \in plan THEN {height} ELSE {}
  /\ pc' = "idle" /\ distribution' = NoKing
  /\ UNCHANGED <<plan, memory, durable, saver>>

\* A reorganization takes a block off.  Nothing here is taken back.
RevertBlock ==
  /\ pc = "idle"
  /\ height > 0
  /\ height' = height - 1
  /\ UNCHANGED <<plan, memory, durable, saver, pc, distribution>>

-----------------------------------------------------------------------------
\* The goroutine that saves a recorded reward: it encodes the state field by
\* field and writes it, all without m.mu.

MarshalHead(s) ==
  /\ saver[s].at = "started"
  /\ saver' = [saver EXCEPT ![s] = [at |-> "head", bytes |-> state]]
  /\ UNCHANGED <<plan, memory, durable, chainVars>>

MarshalRest(s) ==
  /\ saver[s].at = "head"
  /\ saver' = [saver EXCEPT ![s].at = "encoded",
                            ![s].bytes.nextRotationAt = state.nextRotationAt]
  /\ UNCHANGED <<plan, memory, durable, chainVars>>

WriteEncoded(s) ==
  /\ saver[s].at = "encoded"
  /\ dbState' \in Saved(saver[s].bytes)
  /\ saver' = [saver EXCEPT ![s] = IdleSaver]
  /\ UNCHANGED <<plan, memory, dbConfig, chainVars>>

-----------------------------------------------------------------------------
\* The periodic sync

SyncFrom == IF state.rotationHeight = 0 THEN 1 ELSE state.rotationHeight

\* Mutant: the tip is left to the next sync.
SyncBelowTip == height - 1

SyncTo == height

\* SyncBlocks, every 30 seconds, and once more at the start: up to the height
\* that it then finds.
SyncBlocks ==
  /\ Ready
  /\ height > 0
  /\ mu' = "sync"
  /\ sync' = [at |-> SyncFrom, to |-> SyncTo]
  /\ UNCHANGED <<plan, kingAddresses, state, durable, saver, chainVars>>

\* One height of the loop.  A block that was reverted meanwhile is passed over.
SyncHeight ==
  /\ mu = "sync"
  /\ sync.at <= sync.to
  /\ state' = IF sync.at <= height THEN RotatedIfDue(sync.at) ELSE state
  /\ dbState' \in IF state' = state THEN {dbState} ELSE Saved(state')
  /\ sync' = [sync EXCEPT !.at = @ + 1]
  /\ UNCHANGED <<plan, kingAddresses, mu, dbConfig, saver, chainVars>>

SyncDone ==
  /\ mu = "sync"
  /\ sync.at > sync.to
  /\ mu' = "free" /\ sync' = NoSync
  /\ UNCHANGED <<plan, kingAddresses, state, durable, saver, chainVars>>

-----------------------------------------------------------------------------
\* The list

\* UpdateKingAddresses: a failing write of the list returns before the
\* schedule is adjusted.
UpdateKingAddresses(list) ==
  /\ "lists" \in plan /\ Ready
  /\ list # <<>>
  /\ kingAddresses' = list
  /\ \/ /\ dbConfig' = list
        /\ state' = Clamped(state, list)
        /\ mu' = "saving"
     \/ /\ "failures" \in plan
        /\ UNCHANGED <<dbConfig, state, mu>>
  /\ UNCHANGED <<plan, sync, dbState, saver, chainVars>>

\* The kings of a list that are not poor, in its order.
Eligible(list, poor) ==
  LET kept == {i \in DOMAIN list : list[i] \notin poor}
      Place(k) == CHOOSE i \in kept : Cardinality({j \in kept : j <= i}) = k
  IN  [k \in 1..Cardinality(kept) |-> list[Place(k)]]

\* CleanupIneligibleKings: the schedule is adjusted first.  If every king is
\* ineligible the list becomes the default one, which is empty.
CleanupIneligibleKings(poor) ==
  /\ "lists" \in plan /\ Ready
  /\ LET list == Eligible(kingAddresses, poor)
     IN  /\ list # kingAddresses
         /\ kingAddresses' = list
         /\ state' = IF list = <<>> THEN [state EXCEPT !.index = 0]
                                    ELSE Clamped(state, list)
  /\ \/ dbConfig' = kingAddresses' /\ mu' = "saving"
     \/ "failures" \in plan /\ UNCHANGED <<dbConfig, mu>>
  /\ UNCHANGED <<plan, sync, dbState, saver, chainVars>>

\* The second write of either.
SaveAfterUpdate ==
  /\ mu = "saving"
  /\ mu' = "free"
  /\ dbState' \in Saved(state)
  /\ UNCHANGED <<plan, kingAddresses, state, sync, dbConfig, saver, chainVars>>

\* ForceRotate, from the console.
ForceRotate(i) ==
  /\ Ready
  /\ i < Len(kingAddresses)
  /\ state' = Schedule(state, i, height)
  /\ dbState' \in Saved(state')
  /\ UNCHANGED <<plan, kingAddresses, lock, dbConfig, saver, chainVars>>

\* The node stops anywhere and starts: NewRotatingKingManager reads both keys
\* and writes them back.
Restart ==
  /\ kingAddresses' = dbConfig /\ state' = dbState
  /\ mu' = "free" /\ sync' = NoSync
  /\ saver' = [s \in Savers |-> IdleSaver]
  /\ pc' = "idle" /\ distribution' = NoKing
  /\ UNCHANGED <<plan, durable, height>>

-----------------------------------------------------------------------------
Next ==
  \/ \E rk \in Kings \cup {NoKing} : DistributeRewards(rk)
  \/ RejectBlock \/ AlignKing \/ ShouldRotate \/ RotateToNextKing
  \/ CommitBlock \/ RevertBlock
  \/ \E s \in Savers : MarshalHead(s) \/ MarshalRest(s) \/ WriteEncoded(s)
  \/ SyncBlocks \/ SyncHeight \/ SyncDone
  \/ \E list \in Updates : UpdateKingAddresses(list)
  \/ \E poor \in SUBSET Poor : CleanupIneligibleKings(poor)
  \/ SaveAfterUpdate
  \/ \E i \in 0..(Len(kingAddresses) - 1) : ForceRotate(i)
  \/ Restart

Spec == Init /\ [][Next]_vars

\* newBlockchain starts a sync at once and then every 30 seconds; it waits for
\* m.mu, which does not starve a writer.  Whoever holds m.mu goes on.
Fairness ==
  /\ SF_vars(SyncBlocks)
  /\ WF_vars(SyncHeight \/ SyncDone) /\ WF_vars(SaveAfterUpdate)

FairSpec == Spec /\ Fairness

-----------------------------------------------------------------------------
\* Properties

\* The king's index leaves the list only at a restart, which may read a
\* schedule older than the list, or when the list could not be written: every
\* other path that shortens the list adjusts the index.
IndexLostOnlyAtFault ==
  [][InRange(kingAddresses, state) =>
       \/ InRange(kingAddresses, state)'
       \/ Restart
       \/ kingAddresses' # kingAddresses /\ dbConfig' = dbConfig]_vars

\* Blocks and the periodic sync both rotate; between ShouldRotate and
\* RotateToNextKing the other one may have.  No turn is cut short.
NoTurnCutShort ==
  [][state'.index # state.index /\ kingAddresses' = kingAddresses =>
       \/ state'.rotationHeight >= state.nextRotationAt
       \/ AlignKing \/ Restart \/ \E i \in 0..Len(kingAddresses) : ForceRotate(i)]_vars

\* The sync can see that a rotation is overdue: it starts its loop at the last
\* rotation, which a torn save or a reorganization can leave above the tip.
Overdue ==
  /\ kingAddresses # <<>> /\ InRange(kingAddresses, state)
  /\ height >= state.nextRotationAt
  /\ height >= state.rotationHeight

\* Once the node stays up, a rotation that is overdue, because the update with
\* its block failed or was lost in a crash, is made.
OverdueRotationMade == <>[][~Restart]_vars => (Overdue ~> ~Overdue)

=============================================================================
