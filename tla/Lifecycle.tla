----------------------------- MODULE Lifecycle -----------------------------
(***************************************************************************)
(* A node's life on its data directory, runNode from the lock to the last  *)
(* deferred call, with the goroutines it does not wait for: the one that   *)
(* adds a block and the loop of the ReorgManager.  What is followed is the *)
(* pool of pending transactions, which is on disk only while no node runs. *)
(* (What the pool's own cleanups remove is TxPool's.)                      *)
(*                                                                         *)
(* Two nodes may be started on one data directory.  A lock of the system's *)
(* goes with its process (filelock_unix.go; on Windows it locks nothing).  *)
(***************************************************************************)
EXTENDS Integers, FiniteSets

CONSTANTS
  Processes,
  Txs,         \* the transactions that may be submitted
  MaxKills     \* bound: deaths of a process, whatever the cause

VARIABLES
  phase,
  pool,
  adding,      \* the transactions of the block being added; none: no block
  loop,        \* forkDetectionLoop: asleep, waits for stateMu, holds it, done
  synced,      \* IsSynced
  lock,        \* .antdchain.lock
  file,        \* txpool/pending.json; empty when there is none
  mined,       \* the transactions of the stored chain
  submitted,   \* history: the transactions some pool admitted
  lost,        \* history: what was in the pool of a process that died
  kills

process == <<phase, pool, adding, loop, synced>>
disk == <<lock, file, mined>>
vars == <<process, disk, submitted, lost, kills>>

None == "none"

Goes(p, from, to) == phase[p] = from /\ phase' = [phase EXCEPT ![p] = to]

\* The chain is there and its database is not closed.
Open(p) == phase[p] \in {"open", "loaded", "up", "stopping", "rpc", "p2p",
                         "closing", "held"}

StateMuFree(p) == phase[p] # "held" /\ loop[p] # "holds"

Init ==
  /\ phase = [p \in Processes |-> "down"]
  /\ pool = [p \in Processes |-> {}]
  /\ adding = [p \in Processes |-> {}]
  /\ loop = [p \in Processes |-> "done"]
  /\ synced = [p \in Processes |-> FALSE]
  /\ lock = None
  /\ file = {} /\ mined = {} /\ submitted = {} /\ lost = {}
  /\ kills = 0

-----------------------------------------------------------------------------
(* The start. *)

\* Mutant: the lock is taken whoever has it.
LockStolen(p) ==
  /\ Goes(p, "down", "locked")
  /\ lock' = p
  /\ UNCHANGED <<pool, adding, loop, synced, file, mined, submitted, lost, kills>>

AcquireDataDirLock(p) ==
  /\ lock = None
  /\ Goes(p, "down", "locked")
  /\ lock' = p
  /\ UNCHANGED <<pool, adding, loop, synced, file, mined, submitted, lost, kills>>

OpenChain(p) ==
  /\ Goes(p, "locked", "open")
  /\ loop' = [loop EXCEPT ![p] = "asleep"]
  /\ UNCHANGED <<pool, adding, synced, disk, submitted, lost, kills>>

\* LoadFromDisk removes the file.
LoadPool(p) ==
  /\ Goes(p, "open", "loaded")
  /\ pool' = [pool EXCEPT ![p] = file \ mined]
  /\ file' = {}
  /\ UNCHANGED <<adding, loop, synced, lock, mined, submitted, lost, kills>>

\* P2P, mining, the console's node, RPC.
StartServices(p) ==
  /\ Goes(p, "loaded", "up")
  /\ UNCHANGED <<pool, adding, loop, synced, disk, submitted, lost, kills>>

\* The process ends and no deferred call runs: a signal it does not handle, a
\* panic in a goroutine, or logger.Fatal, of which the start is full - a
\* listener whose port is taken among them.
Dies(p) ==
  /\ kills < MaxKills
  /\ kills' = kills + 1
  /\ phase' = [phase EXCEPT ![p] = "down"]
  /\ pool' = [pool EXCEPT ![p] = {}]
  /\ adding' = [adding EXCEPT ![p] = {}]
  /\ loop' = [loop EXCEPT ![p] = "done"]
  /\ synced' = [synced EXCEPT ![p] = FALSE]
  /\ lock' = IF lock = p THEN None ELSE lock
  /\ lost' = lost \cup pool[p]
  /\ UNCHANGED <<file, mined, submitted>>

Die(p) == phase[p] # "down" /\ Dies(p)

-----------------------------------------------------------------------------
(* The goroutines. *)

\* RPC serves until Shutdown, gossip until its node stops.  A block is not
\* judged against a state that is closed, and a balance read from it is none.
Submit(p, t) ==
  /\ phase[p] \in {"up", "stopping", "rpc", "p2p"}
  /\ t \notin submitted
  /\ pool' = [pool EXCEPT ![p] = @ \cup {t}]
  /\ submitted' = submitted \cup {t}
  /\ UNCHANGED <<phase, adding, loop, synced, disk, lost, kills>>

\* AddBlock up to the end of validateAndExecuteBlock; nobody waits for it.
ExecuteBlock(p) ==
  /\ phase[p] \in {"up", "stopping", "rpc", "p2p", "closing"}
  /\ StateMuFree(p) /\ adding[p] = {}
  /\ \E ts \in SUBSET pool[p]:
       ts # {} /\ adding' = [adding EXCEPT ![p] = ts]
  /\ UNCHANGED <<phase, pool, loop, synced, disk, submitted, lost, kills>>

\* handleDirectExtension
WriteBlock(p) ==
  /\ adding[p] # {}
  /\ Open(p) /\ StateMuFree(p)
  /\ mined' = mined \cup adding[p]
  /\ pool' = [pool EXCEPT ![p] = @ \ adding[p]]
  /\ adding' = [adding EXCEPT ![p] = {}]
  /\ UNCHANGED <<phase, loop, synced, lock, file, submitted, lost, kills>>

\* A closed pebble panics.
WriteClosed(p) ==
  /\ adding[p] # {} /\ ~Open(p)
  /\ Dies(p)

\* detectAndResolveForks found a fork with more work.
ReorgStarts(p) ==
  /\ phase[p] \notin {"held", "closed", "saved"} \/ loop[p] = "waits"
  /\ \/ loop[p] = "asleep" /\ loop' = [loop EXCEPT ![p] = "waits"]
     \/ loop[p] = "waits" /\ StateMuFree(p) /\ loop' = [loop EXCEPT ![p] = "holds"]
  /\ UNCHANGED <<phase, pool, adding, synced, disk, submitted, lost, kills>>

ReorgEnds(p) ==
  /\ loop[p] = "holds"
  /\ loop' = [loop EXCEPT ![p] = "asleep"]
  /\ UNCHANGED <<phase, pool, adding, synced, disk, submitted, lost, kills>>

SyncChanges(p) ==
  /\ phase[p] \in {"up", "stopping"}
  /\ synced' = [synced EXCEPT ![p] = ~@]
  /\ UNCHANGED <<phase, pool, adding, loop, disk, submitted, lost, kills>>

-----------------------------------------------------------------------------
(* The end. *)

RequestShutdown(p) ==
  /\ Goes(p, "up", "stopping")
  /\ UNCHANGED <<pool, adding, loop, synced, disk, submitted, lost, kills>>

\* Mutant: no deadline.
WaitForSync(p) ==
  /\ synced[p]
  /\ Goes(p, "stopping", "rpc")
  /\ UNCHANGED <<pool, adding, loop, synced, disk, submitted, lost, kills>>

\* Synced, or thirty seconds have passed.
WaitForFinalBlockSync(p) ==
  /\ Goes(p, "stopping", "rpc")
  /\ UNCHANGED <<pool, adding, loop, synced, disk, submitted, lost, kills>>

\* Its handlers have ended, or thirty seconds have passed; then the p2p node.
StopServices(p) ==
  /\ Goes(p, "rpc", "p2p") \/ Goes(p, "p2p", "closing")
  /\ UNCHANGED <<pool, adding, loop, synced, disk, submitted, lost, kills>>

\* bc.Close takes stateMu and keeps it while it waits for the loop.
CloseTakesLocks(p) ==
  /\ StateMuFree(p)
  /\ Goes(p, "closing", "held")
  /\ UNCHANGED <<pool, adding, loop, synced, disk, submitted, lost, kills>>

CloseChain(p) ==
  /\ loop[p] = "asleep"
  /\ Goes(p, "held", "closed")
  /\ loop' = [loop EXCEPT ![p] = "done"]
  /\ UNCHANGED <<pool, adding, synced, disk, submitted, lost, kills>>

\* SaveToDisk writes nothing for an empty pool.
SavePool(p) ==
  /\ Goes(p, "closed", "saved")
  /\ file' = IF pool[p] = {} THEN file ELSE pool[p]
  /\ UNCHANGED <<pool, adding, loop, synced, lock, mined, submitted, lost, kills>>

Return(p) ==
  /\ Goes(p, "saved", "down")
  /\ pool' = [pool EXCEPT ![p] = {}]
  /\ adding' = [adding EXCEPT ![p] = {}]
  /\ synced' = [synced EXCEPT ![p] = FALSE]
  /\ lock' = IF lock = p THEN None ELSE lock
  /\ UNCHANGED <<loop, file, mined, submitted, lost, kills>>

-----------------------------------------------------------------------------
MainStep(p) ==
  \/ OpenChain(p) \/ LoadPool(p) \/ StartServices(p)
  \/ WaitForFinalBlockSync(p) \/ StopServices(p)
  \/ CloseTakesLocks(p) \/ CloseChain(p) \/ SavePool(p) \/ Return(p)

Step(p) ==
  \/ AcquireDataDirLock(p) \/ RequestShutdown(p) \/ MainStep(p)
  \/ Die(p) \/ WriteClosed(p)
  \/ \E t \in Txs : Submit(p, t)
  \/ ExecuteBlock(p) \/ WriteBlock(p) \/ ReorgStarts(p) \/ ReorgEnds(p)
  \/ SyncChanges(p)

Next == \E p \in Processes : Step(p)

Spec == Init /\ [][Next]_vars

\* The main goroutine goes on, and so does who holds stateMu; who waits for
\* it gets it some time.  Nothing is assumed of the peers, of RPC's callers
\* or of the sync.
Fairness ==
  \A p \in Processes : /\ SF_vars(MainStep(p))
                       /\ WF_vars(ReorgEnds(p))

FairSpec == Spec /\ Fairness

-----------------------------------------------------------------------------
(* The invariant behind PendingSurvives. *)

Phases == {"down", "locked", "open", "loaded", "up", "stopping", "rpc", "p2p",
           "closing", "held", "closed", "saved"}

TypeOK ==
  /\ phase \in [Processes -> Phases]
  /\ pool \in [Processes -> SUBSET Txs]
  /\ adding \in [Processes -> SUBSET Txs]
  /\ loop \in [Processes -> {"asleep", "waits", "holds", "done"}]
  /\ synced \in [Processes -> BOOLEAN]
  /\ lock \in Processes \cup {None}
  /\ {file, mined, submitted, lost} \subseteq SUBSET Txs
  /\ kills \in Nat

\* Of two nodes on one data directory, at most one is past the lock.
LockHeld == \A p \in Processes : phase[p] # "down" => lock = p

\* A node's pool is in memory or in the file, and not, as long as it changes, in
\* both: LoadFromDisk has removed the file, and SaveToDisk is the last to write.
OneCopy ==
  \A p \in Processes :
    \/ phase[p] \in {"down", "locked", "open"} /\ pool[p] = {}
    \/ phase[p] = "saved" /\ pool[p] \subseteq file
    \/ phase[p] \notin {"down", "locked", "open", "saved"} /\ file = {}

-----------------------------------------------------------------------------
(* Properties. *)

\* A transaction some pool admitted is in the chain, in a pool or in the file
\* the next start reads, however nodes are started and stopped on the data
\* directory - unless a process died with it.
PendingSurvives ==
  submitted \subseteq mined \cup lost \cup file \cup UNION {pool[p] : p \in Processes}

\* The loop waits for stateMu, and Close, which holds it, for the loop.
Hung(p) == phase[p] = "held" /\ loop[p] = "waits"

\* A node asked to stop stops, though its sync never ends, but for the one
\* embrace of Close and of the loop it waits for.
ShutdownEnds ==
  \A p \in Processes : phase[p] = "stopping" ~> (phase[p] = "down" \/ Hung(p))
=============================================================================
