-------------------------------- MODULE Mining --------------------------------
(***************************************************************************)
(* The mining of one node: the mining loop, the worker goroutines of its   *)
(* miners with the two channels between them, the console commands that    *)
(* start, stop and reset mining, and what happens to the tip meanwhile.    *)
(*                                                                         *)
(* The tip is a height, counted from the tip that this life starts at, on  *)
(* one of two branches.  A reorganization to a heavier branch that is      *)
(* shorter leaves the canonical hashes above the new tip.  How AddBlock    *)
(* itself interleaves with other goroutines is ReorgManager's subject;     *)
(* here it is one step.  Every miner has its private key, and miners are   *)
(* neither added nor removed.                                              *)
(***************************************************************************)
EXTENDS Integers, FiniteSets, Sequences

CONSTANTS
  Miners,
  Workers,          \* the threads of all miners
  Owner,            \* Owner[w]: the miner whose thread w is
  NoWork,
  QueueCapacity,    \* of workQueue and
  ResultCapacity,   \* of workResult
  MaxHeight,        \* bound: no block of the model is higher
  MaxPeerHeight,    \* bound: nor a block of another node than this
  Plans             \* which disturbances one life of the node may meet

Heights == 0..MaxHeight

Tips == [height : Heights, branch : {"old", "new"}]

Start == [height |-> 0, branch |-> "old"]

\* What awaits a block of the pool's transactions, as the fee rates order them,
\* once it is prechecked: nothing; or a refusal by the execution, for a nonce out
\* of order, for gas that the sender cannot pay or only with coins that have not
\* matured, for gas limits that together exceed the block's, or because a king's
\* turn ends meanwhile.  Without a template: a value that cannot be paid.
Orders == {"fit", "refused"}
Pools == Orders \cup {"unaffordable"}

\* The state root in a header: of the block on the account state of its
\* parent, on the state that a failed block spoilt, or neither.
Roots == {"tip", "spoilt", "wrong"}

AllDisturbances ==
  {"stop", "reset", "shutdown", "peers", "sync", "pool", "reorg"}

Works == [miner : Miners, prev : Tips, root : Roots, order : Orders]

ASSUME MiningAssumption ==
  /\ Owner \in [Workers -> Miners]
  /\ NoWork \notin Works
  /\ {QueueCapacity, ResultCapacity} \subseteq Nat \ {0}
  /\ MaxHeight \in Nat /\ MaxPeerHeight \in Heights
  /\ Plans \subseteq SUBSET AllDisturbances

VARIABLES
  plan,                     \* the disturbances of this life
  latest,                   \* the tip
  top,                      \* the height up to which canonical hashes are written
  spoilt,                   \* the account state is not the tip's
  sync,                     \* sync mode and the cooldown after it
  pool,                     \* what a block of what is pending meets
  mining, enabled,          \* the flags
  stopped,                  \* ctx is cancelled
  gossip,                   \* the GossipSub of the node is ready
  console,                  \* a reset sleeps between its two halves
  activeMiners, starting,   \* and StartMiner goroutines not yet run
  loop,                     \* where the mining loop is
  parent, prev, order,      \* the tip it saw, and its template
  todo,                     \* miners it has not given work to
  won,                      \* the result it took
  workQueue, workResult,    \* the channels
  pc, work,                 \* each worker
  late                      \* history: blocks submitted in this pause

chainVars == <<plan, latest, top, spoilt, sync, pool>>
flagVars == <<mining, enabled, stopped, gossip, console>>
minerVars == <<activeMiners, starting>>
roundVars == <<parent, prev, order, todo, won>>
channelVars == <<workQueue, workResult>>
workerVars == <<pc, work>>
vars == <<chainVars, flagVars, minerVars, loop, roundVars, channelVars,
          workerVars, late>>

Init ==
  /\ plan \in Plans
  /\ latest = Start /\ top = 0 /\ spoilt = FALSE
  /\ sync = "no"
  /\ pool \in IF "pool" \in plan THEN Pools \ {"fit"} ELSE {"fit"}
  /\ mining = FALSE /\ enabled = TRUE /\ stopped = FALSE /\ gossip = TRUE /\ console = "idle"
  /\ activeMiners = {} /\ starting = {}
  /\ loop = "none"
  /\ parent = Start /\ prev = Start /\ order = "fit" /\ todo = {} /\ won = NoWork
  /\ workQueue = <<>> /\ workResult = <<>>
  /\ pc = [w \in Workers |-> "off"]
  /\ work = [w \in Workers |-> NoWork]
  /\ late = 0

Paused == ~mining \/ sync # "no" \/ ~gossip

\* Counts anew when mining is paused or goes on.
NewPause == late' = 0

-----------------------------------------------------------------------------
\* Starting and stopping

\* StartMining, for the console and main; both ask whether the chain is
\* synced, and do not overlap.
StartMining ==
  /\ enabled /\ ~mining /\ ~stopped /\ console = "idle"
  /\ sync = "no"
  /\ mining' = TRUE
  /\ starting' = Miners
  /\ loop' = "tick"
  /\ NewPause
  /\ UNCHANGED <<chainVars, enabled, stopped, gossip, console, activeMiners, roundVars,
                 channelVars, workerVars>>

\* A miner that is active already keeps its workers.
StartMiner(m) ==
  /\ m \in starting
  /\ starting' = starting \ {m}
  /\ activeMiners' = activeMiners \cup {m}
  /\ pc' = [w \in Workers |->
              IF Owner[w] = m /\ m \notin activeMiners THEN "idle" ELSE pc[w]]
  /\ UNCHANGED <<chainVars, flagVars, loop, roundVars, channelVars, work, late>>

\* The console's stop takes the permission away as well.
HandleStopMining ==
  /\ "stop" \in plan
  /\ console = "idle" /\ ~stopped
  /\ mining' = FALSE /\ enabled' = FALSE
  /\ IF Paused THEN UNCHANGED late ELSE NewPause
  /\ UNCHANGED <<chainVars, stopped, gossip, console, minerVars, loop, roundVars,
                 channelVars, workerVars>>

\* Its repair of nonces stops mining, sleeps a second, and sets both flags.
ResetBegin ==
  /\ "reset" \in plan
  /\ console = "idle" /\ ~stopped
  /\ mining' = FALSE /\ enabled' = FALSE
  /\ console' = "resetting"
  /\ IF Paused THEN UNCHANGED late ELSE NewPause
  /\ UNCHANGED <<chainVars, stopped, gossip, minerVars, loop, roundVars, channelVars,
                 workerVars>>

ResetEnd ==
  /\ console = "resetting"
  /\ mining' = TRUE /\ enabled' = TRUE
  /\ console' = "idle"
  /\ IF sync = "no" /\ gossip THEN NewPause ELSE UNCHANGED late
  /\ UNCHANGED <<chainVars, stopped, gossip, minerVars, loop, roundVars, channelVars,
                 workerVars>>

\* StopMining, at shutdown, of a node that main made mine.
StopMining ==
  /\ "shutdown" \in plan
  /\ ~stopped /\ gossip
  /\ stopped' = TRUE
  /\ mining' = FALSE
  /\ activeMiners' = {}
  /\ IF Paused THEN UNCHANGED late ELSE NewPause
  /\ UNCHANGED <<chainVars, enabled, gossip, console, starting, loop, roundVars,
                 channelVars, workerVars>>

\* Then the network: where main did not start the mining, its loop is still there.
StopP2P ==
  /\ "shutdown" \in plan
  /\ ~stopped /\ gossip
  /\ gossip' = FALSE
  /\ IF Paused THEN UNCHANGED late ELSE NewPause
  /\ UNCHANGED <<chainVars, mining, enabled, stopped, console, minerVars, loop,
                 roundVars, channelVars, workerVars>>

-----------------------------------------------------------------------------
\* Around the miner

\* The tip is at this height; hashes above it stay.
MoveTip(tip) ==
  /\ latest' = tip
  /\ top' = IF tip.height > top THEN tip.height ELSE top

\* A block of another node.  Its root is that of an unspoilt state.
PeerBlock ==
  /\ "peers" \in plan
  /\ latest.height < MaxPeerHeight
  /\ ~spoilt
  /\ MoveTip([latest EXCEPT !.height = @ + 1])
  /\ UNCHANGED <<plan, spoilt, sync, pool, flagVars, minerVars, loop, roundVars,
                 channelVars, workerVars, late>>

\* A branch that is heavier and shorter, from below where this life starts.  The
\* state is rebuilt from that of the common ancestor.
Reorganize ==
  /\ "reorg" \in plan
  /\ latest.branch = "old"
  /\ latest.height < MaxHeight
  /\ \E h \in 0..(latest.height - 1) : MoveTip([height |-> h, branch |-> "new"])
  /\ spoilt' = FALSE
  /\ UNCHANGED <<plan, sync, pool, flagVars, minerVars, loop, roundVars,
                 channelVars, workerVars, late>>

StartSync ==
  /\ "sync" \in plan
  /\ sync' = "syncing"
  /\ IF Paused THEN UNCHANGED late ELSE NewPause
  /\ UNCHANGED <<plan, latest, top, spoilt, pool, flagVars, minerVars, loop, roundVars,
                 channelVars, workerVars>>

StopSync ==
  /\ sync = "syncing"
  /\ sync' = "cooldown"
  /\ UNCHANGED <<plan, latest, top, spoilt, pool, flagVars, minerVars, loop, roundVars,
                 channelVars, workerVars, late>>

CooldownOver ==
  /\ sync = "cooldown"
  /\ sync' = "no"
  /\ IF mining /\ gossip THEN NewPause ELSE UNCHANGED late
  /\ UNCHANGED <<plan, latest, top, spoilt, pool, flagVars, minerVars, loop, roundVars,
                 channelVars, workerVars>>

\* The offending transactions leave the pool, or the turn is over (bound: once,
\* and none come).
PoolChanges ==
  /\ pool # "fit"
  /\ pool' = "fit"
  /\ UNCHANGED <<plan, latest, top, spoilt, sync, flagVars, minerVars, loop, roundVars,
                 channelVars, workerVars, late>>

-----------------------------------------------------------------------------
\* miningLoop

Goto(l) == loop' = l

\* IsMining is asked at every tick.
LoopEnds ==
  /\ \/ loop = "tick" /\ ~mining
     \/ loop \in {"tick", "wait"} /\ stopped
  /\ Goto("none")
  /\ UNCHANGED <<chainVars, flagVars, minerVars, roundVars, channelVars,
                 workerVars, late>>

\* Mutant: without the question whether the chain is synced.
TickAnyway ==
  /\ loop = "tick" /\ mining /\ ~stopped
  /\ Goto("look")
  /\ UNCHANGED <<chainVars, flagVars, minerVars, roundVars, channelVars,
                 workerVars, late>>

\* A tick is lost unless GossipSub is ready and the chain is synced and out of
\* its cooldown.
Tick ==
  /\ loop = "tick" /\ mining /\ ~stopped
  /\ sync = "no" /\ gossip
  /\ Goto("look")
  /\ UNCHANGED <<chainVars, flagVars, minerVars, roundVars, channelVars,
                 workerVars, late>>

\* The tip, after the peers were asked for theirs, and the active miners.  A
\* block of the next height that is canonical already is not mined again.
\* (Nothing announces pending blocks: waitForPendingBlock never waits.)
LookAtTip ==
  /\ loop = "look"
  /\ latest.height < MaxHeight
  /\ IF latest.height + 1 <= top \/ activeMiners = {}
       THEN Goto("tick") /\ UNCHANGED <<parent, todo>>
       ELSE /\ Goto("assemble")
            /\ parent' = latest
            /\ todo' = activeMiners
  /\ UNCHANGED <<chainVars, flagVars, minerVars, prev, order, won, channelVars,
                 workerVars, late>>

\* Mutant: the loop is left when there is no template.
CreateNewBlockOrReturn ==
  /\ loop = "assemble"
  /\ IF pool = "unaffordable"
       THEN /\ Goto("none")
            /\ parent' = Start /\ todo' = {}
            /\ UNCHANGED <<prev, order>>
       ELSE /\ prev' = latest
            /\ order' = pool
            /\ Goto("share")
            /\ UNCHANGED <<parent, todo>>
  /\ UNCHANGED <<chainVars, flagVars, minerVars, won, channelVars, workerVars,
                 late>>

\* CreateNewBlock looks at the tip again.  It orders by fee rate and executes,
\* with neither nonces, gas costs nor gas limits checked; a value that cannot be
\* paid leaves no template.
CreateNewBlock ==
  /\ loop = "assemble"
  /\ IF pool = "unaffordable"
       THEN /\ Goto("tick")
            /\ parent' = Start /\ todo' = {}
            /\ UNCHANGED <<prev, order>>
       ELSE /\ prev' = latest
            /\ order' = pool
            /\ Goto("share")
            /\ UNCHANGED <<parent, todo>>
  /\ UNCHANGED <<chainVars, flagVars, minerVars, won, channelVars, workerVars,
                 late>>

\* Mutant: the loop waits for room.
QueuedWithRoom(works) ==
  /\ Len(workQueue) + Len(works) <= QueueCapacity
  /\ workQueue' = workQueue \o works

\* Sends that find the channel full are dropped.
Queued(works) ==
  LET all == workQueue \o works
      room == QueueCapacity
  IN  workQueue' = SubSeq(all, 1, IF Len(all) < room THEN Len(all) ELSE room)

\* The account state that a root is computed on now, for a header on prev.
\* Height and difficulty are those for the tip the loop saw.
RootsNow ==
  CASE latest # prev -> {"wrong"}
    [] latest = prev /\ parent.height = prev.height -> {IF spoilt THEN "spoilt" ELSE "tip"}
    [] OTHER -> {"wrong", IF spoilt THEN "spoilt" ELSE "tip"}

\* A unit of work for every thread of one miner, on its own copy of the header.
ShareWork ==
  /\ loop = "share"
  /\ IF todo = {}
       THEN /\ Goto("wait")
            /\ parent' = Start /\ prev' = Start /\ order' = "fit"
            /\ UNCHANGED <<todo, workQueue>>
       ELSE \E m \in todo, root \in RootsNow :
              LET unit == [miner |-> m, prev |-> prev, root |-> root, order |-> order]
                  threads == {w \in Workers : Owner[w] = m}
              IN  /\ Queued([i \in 1..Cardinality(threads) |-> unit])
                  /\ todo' = todo \ {m}
                  /\ UNCHANGED <<loop, parent, prev, order>>
  /\ UNCHANGED <<chainVars, flagVars, minerVars, won, workResult, workerVars,
                 late>>

\* The first result, whichever round its work is from.
TakeResult ==
  /\ loop = "wait"
  /\ workResult # <<>>
  /\ won' = Head(workResult)
  /\ workResult' = Tail(workResult)
  /\ Goto("submit")
  /\ UNCHANGED <<chainVars, flagVars, minerVars, parent, prev, order, todo,
                 workQueue, workerVars, late>>

\* The work of the round stays queued.
Timeout ==
  /\ loop = "wait"
  /\ Goto("tick")
  /\ UNCHANGED <<chainVars, flagVars, minerVars, roundVars, channelVars,
                 workerVars, late>>

\* The roots that the precheck of a block on the tip accepts.
RootExpected == IF spoilt THEN "spoilt" ELSE "tip"

Accepted(b) ==
  /\ MoveTip([b.prev EXCEPT !.height = @ + 1])
  /\ UNCHANGED spoilt

Refused == UNCHANGED <<latest, top, spoilt>>

\* Mutant: executed without the precheck on a copy of the state.
ExecuteAtOnce(b) ==
  \/ b.order = "fit" /\ b.root = RootExpected /\ Accepted(b)
  \/ /\ b.order # "fit" \/ b.root # RootExpected
     /\ UNCHANGED <<latest, top>>
     /\ spoilt' = TRUE

\* Validation of a block on the tip.  The precheck on a copy of the state looks
\* at signatures and values only.  The execution refuses a nonce or a cost after it
\* has executed what came before, too much gas when it has executed everything, and
\* the root when the rewards went to another king; nothing takes that back.
Validate(b) ==
  \/ b.root # RootExpected /\ Refused
  \/ b.root = RootExpected /\ b.order = "fit" /\ Accepted(b)
  \/ /\ b.root = RootExpected /\ b.order = "refused"
     /\ UNCHANGED <<latest, top>>
     /\ spoilt' \in {spoilt, TRUE}

\* AddBlock.  A block that was overtaken loses fork choice, which is no error,
\* or makes the branch that was left the heavier one again.
Submit ==
  /\ loop = "submit"
  /\ IF won.prev = latest
       THEN Validate(won)
       ELSE \/ Refused
            \/ /\ won.prev.branch # latest.branch /\ won.prev.height = top
               /\ won.root = "tip" /\ won.order = "fit"
               /\ MoveTip([won.prev EXCEPT !.height = @ + 1])
               /\ spoilt' = FALSE
  /\ won' = NoWork
  /\ late' = IF Paused THEN late + 1 ELSE late
  /\ Goto("tick")
  /\ UNCHANGED <<plan, sync, pool, flagVars, minerVars, parent, prev, order, todo,
                 channelVars, workerVars>>

LoopStep ==
  \/ LoopEnds \/ Tick \/ LookAtTip \/ CreateNewBlock \/ ShareWork
  \/ TakeResult \/ Timeout \/ Submit

-----------------------------------------------------------------------------
\* minerWorker

MoveWorker(w, at, unit) ==
  /\ pc' = [pc EXCEPT ![w] = at]
  /\ work' = [work EXCEPT ![w] = unit]
  /\ UNCHANGED <<chainVars, flagVars, minerVars, loop, roundVars, late>>

TakeWork(w) ==
  /\ pc[w] = "idle"
  /\ workQueue # <<>>
  /\ workQueue' = Tail(workQueue)
  /\ LET unit == Head(workQueue)
     IN  MoveWorker(w, IF unit.miner = Owner[w] THEN "hash" ELSE "requeue", unit)
  /\ UNCHANGED workResult

\* Another miner's work goes back to the end, or is lost.
Requeue(w) ==
  /\ pc[w] = "requeue"
  /\ workQueue' = IF Len(workQueue) < QueueCapacity
                    THEN Append(workQueue, work[w]) ELSE workQueue
  /\ MoveWorker(w, "idle", NoWork)
  /\ UNCHANGED workResult

\* mineWork finds a nonce, whatever became of the tip.
MineWork(w) ==
  /\ pc[w] = "hash"
  /\ MoveWorker(w, "found", work[w])
  /\ UNCHANGED channelVars

\* The send waits for room.
SendResult(w) ==
  /\ pc[w] = "found"
  /\ Len(workResult) < ResultCapacity
  /\ workResult' = Append(workResult, work[w])
  /\ MoveWorker(w, "idle", NoWork)
  /\ UNCHANGED workQueue

\* The context is cancelled, also in the middle of the nonces; a worker that
\* cannot send its result stays.
WorkerStops(w) ==
  /\ stopped
  /\ pc[w] \in {"idle", "hash"}
  /\ MoveWorker(w, "off", NoWork)
  /\ UNCHANGED channelVars

WorkerStep(w) ==
  TakeWork(w) \/ Requeue(w) \/ MineWork(w) \/ SendResult(w) \/ WorkerStops(w)

-----------------------------------------------------------------------------
Next ==
  \/ StartMining \/ HandleStopMining \/ ResetBegin \/ ResetEnd \/ StopMining
  \/ StopP2P
  \/ \E m \in Miners : StartMiner(m)
  \/ PeerBlock \/ Reorganize \/ StartSync \/ StopSync \/ CooldownOver \/ PoolChanges
  \/ LoopStep
  \/ \E w \in Workers : WorkerStep(w)

Spec == Init /\ [][Next]_vars

\* Goroutines run and tickers tick; a nonce is found in the end.  A result that
\* is there when the loop begins to wait comes before its timeout, and workers
\* that wait for a channel are served in turn.
Fairness ==
  /\ WF_vars(LoopStep)
  /\ SF_vars(TakeResult)
  /\ \A m \in Miners : WF_vars(StartMiner(m))
  /\ \A w \in Workers :
       /\ WF_vars(WorkerStep(w))
       /\ SF_vars(TakeWork(w) /\ Head(workQueue).miner = Owner[w])

FairSpec == Spec /\ Fairness

-----------------------------------------------------------------------------
\* Properties

\* However rounds, stops, resets and syncs interleave: when mining was stopped
\* or a sync has begun, the round that was under way submits its block and no
\* other follows.
PauseTakesEffect == late <= 1

\* The flag is set and no loop runs: mining is then off for good, for a start
\* finds it running.  The reset can do that, when the loop saw the flag in
\* between, and so can the shutdown; nothing else does.
Orphaned == mining /\ loop = "none"

LoopLostOnlyByReset ==
  [][~Orphaned /\ Orphaned' => console = "resetting" \/ stopped]_vars

\* A block that fails leaves the account state as it was, as the precheck on a
\* copy is there to ensure, unless the precheck does not see why it fails: its
\* nonces, costs or gas limits, or a king whose turn ends in between.
SpoiltOnlyUnseen ==
  [][~spoilt /\ spoilt' =>
       won.root = "tip" /\ won.order = "refused"]_vars

\* Left alone, a node that mines makes the chain grow to any height: stale
\* results and a full queue delay it and do not wedge loop and workers.  That
\* two workers hand each other's work round without end, never at rest in the
\* seconds between two rounds, is left to chance.  What does wedge it is a
\* reorganization to a shorter branch: the loop takes the hash it leaves above
\* the tip for a block that is there already.
LeftAlone ==
  /\ mining /\ ~stopped /\ gossip /\ loop # "none"
  /\ sync = "no" /\ pool = "fit"

AtRest == \A w \in Workers : pc[w] # "requeue"

TipGrows ==
  []<>AtRest /\ <>[]LeftAlone =>
    \/ <>(latest.height = MaxHeight)
    \/ <>[]("reorg" \in plan /\ top > latest.height)

=============================================================================
