---------------------------- MODULE Checkpoints ----------------------------
(***************************************************************************)
(* The checkpoints of one node.  Two managers are made at start-up from    *)
(* one file: the chain's, which records every thousandth block, and the    *)
(* p2p node's, which its ban manager asks.  Both write the whole file.     *)
(*                                                                         *)
(* Heights count in thousands.  The critical sections of a manager's mu    *)
(* are single steps, but for GetStats, which takes it twice.               *)
(***************************************************************************)
EXTENDS Integers

CONSTANTS
  Ids,              \* competing blocks of a height
  MaxSlot,
  Trust,            \* verifications that a local block cannot overrule
  MaxVerifications, \* bound
  Savers,           \* goroutines that save
  Plans             \* see plan

AllFaults ==
  {"late",          \* a reorganization, or the shutdown, comes before the
                    \* checkpoint of a block is made
   "sync",          \* blocks added while the chain syncs get no checkpoint
   "remote",        \* trusted remotes answer
   "hourly",        \* the managers' own tickers save, the p2p node's too
   "stats",         \* somebody asks for the statistics
   "crash"}

VARIABLES
  plan,             \* which of AllFaults may happen, and bounds: thousands of
                    \* blocks, and goroutines that save at a time
  canon,            \* the chain: its blocks at these heights
  creators,         \* goroutines in createCheckpointFromBlock
  cps,              \* the maps of both managers
  list,             \* their config.Checkpoints
  savers,           \* goroutines in saveCheckpointsToConfig
  file,             \* the checkpoints in checkpoints.json
  torn,             \* it is no JSON: half written, or two of them
  stats,            \* a GetStats has the chain manager's mu once
  loaded,           \* what the file held when the node started
  up

chainVars == <<canon, creators>>
fileVars == <<file, torn>>
vars == <<plan, chainVars, cps, list, savers, fileVars, stats, loaded, up>>

Slots == 1..MaxSlot
Managers == {"chain", "p2p"}

\* A checkpoint of block x with v verifications.
Checkpoint(x, v) == [id |-> x, ver |-> v]

None == Checkpoint("none", 0)
NoList == [h \in Slots |-> None]
NoBlock == "none"

\* A goroutine that saves the map of manager m, with its copy of it.
Saver(m, pc, snap) == [pc |-> pc, mgr |-> m, snap |-> snap, over |-> FALSE]

Idle == Saver("chain", "idle", NoList)

\* The chain has no holes.
Height == CHOOSE h \in 0..MaxSlot : \A k \in Slots : canon[k] # NoBlock <=> k <= h

Init ==
  /\ plan \in Plans
  /\ canon = [h \in Slots |-> NoBlock]
  /\ creators = {}
  /\ cps = [m \in Managers |-> NoList] /\ list = cps
  /\ savers = [s \in Savers |-> Idle]
  /\ file = NoList /\ torn = FALSE
  /\ stats = "none"
  /\ loaded = NoList
  /\ up = TRUE

-----------------------------------------------------------------------------
\* The chain

Creator(h, x, pc) == [slot |-> h, id |-> x, pc |-> pc]

\* addBlockInternal of a block at one of these heights, on top or, in a
\* reorganization, in another's place; outside a sync it starts a goroutine.
AcceptBlock(h, x) ==
  /\ up
  /\ h <= plan.slots /\ h <= Height + 1 /\ canon[h] # x
  /\ h <= Height /\ "late" \notin plan.faults => creators = {}
  /\ canon' = [k \in Slots |-> IF k < h THEN canon[k] ELSE IF k = h THEN x ELSE NoBlock]
  /\ \/ creators' = creators \cup {Creator(h, x, "check")}
     \/ "sync" \in plan.faults /\ UNCHANGED creators
  /\ UNCHANGED <<plan, cps, list, savers, fileVars, stats, loaded, up>>

\* createCheckpointFromBlock: the block must not be beside the chain by now.
CheckCanonical(c) ==
  /\ c.pc = "check"
  /\ creators' = (creators \ {c}) \cup
       IF canon[c.slot] \in {c.id, NoBlock} THEN {Creator(c.slot, c.id, "add")} ELSE {}
  /\ UNCHANGED <<plan, canon, cps, list, savers, fileVars, stats, loaded, up>>

-----------------------------------------------------------------------------
\* The map

More(v) == IF v < MaxVerifications THEN v + 1 ELSE v

\* A writer waits for mu: a reader that comes now waits behind it.
WriterWaits == \E c \in creators : c.pc = "wait"

\* Mutant: an existing checkpoint is never replaced.
WithBlockFirst(e, x) ==
  IF e.id = x THEN Checkpoint(x, More(e.ver))
  ELSE IF e # None THEN e
  ELSE Checkpoint(x, 1)

\* The entry e of AddCheckpoint after a checkpoint of block x.
WithBlock(e, x) ==
  IF e.id = x THEN Checkpoint(x, More(e.ver))
  ELSE IF e.ver > Trust THEN e
  ELSE Checkpoint(x, 1)

\* A new or replaced entry is saved by a goroutine of its own.
AddCheckpoint(c) ==
  /\ c.pc \in {"add", "wait"}
  /\ IF stats = "inside"
       THEN /\ c.pc = "add"
            /\ creators' = (creators \ {c}) \cup {Creator(c.slot, c.id, "wait")}
            /\ UNCHANGED <<cps, savers>>
       ELSE LET e == cps["chain"][c.slot]
                new == WithBlock(e, c.id)
            IN /\ cps' = [cps EXCEPT !["chain"][c.slot] = new]
               /\ creators' = creators \ {c}
               /\ IF new.id = e.id THEN UNCHANGED savers
                  ELSE \E s \in plan.savers :
                         /\ savers[s].pc = "idle"
                         /\ savers' = [savers EXCEPT ![s] = Saver("chain", "copy", NoList)]
  /\ UNCHANGED <<plan, canon, list, fileVars, stats, loaded, up>>

\* After a remote's checkpoint of block x, which it has verified v times.
WithRemote(e, x, v) ==
  IF e.id = x THEN Checkpoint(x, More(e.ver))
  ELSE IF e.ver > v THEN e
  ELSE Checkpoint(x, v)

\* processRemoteCheckpoints for one checkpoint with a valid signature, by the
\* goroutine of a manager's ticker, which saves afterwards.
ProcessRemote(m) == \E s \in plan.savers, h \in 1..plan.slots, x \in Ids, v \in 1..Trust :
  /\ "remote" \in plan.faults
  /\ up
  /\ m = "chain" => stats = "none"
  /\ savers[s].pc = "idle"
  /\ savers' = [savers EXCEPT ![s] = Saver(m, "copy", NoList)]
  /\ cps' = [cps EXCEPT ![m][h] = WithRemote(@, x, v)]
  /\ UNCHANGED <<plan, chainVars, list, fileVars, stats, loaded, up>>

\* GetStats, and GetLatestCheckpoint inside it.
BeginStats ==
  /\ "stats" \in plan.faults
  /\ up /\ stats = "none" /\ ~WriterWaits
  /\ stats' = "inside"
  /\ UNCHANGED <<plan, chainVars, cps, list, savers, fileVars, loaded, up>>

EndStats ==
  /\ stats = "inside" /\ ~WriterWaits
  /\ stats' = "none"
  /\ UNCHANGED <<plan, chainVars, cps, list, savers, fileVars, loaded, up>>

-----------------------------------------------------------------------------
\* Saving

\* The tickers: no remote answers, and the map is saved all the same.
SaveHourly(m) == \E s \in plan.savers :
  /\ "hourly" \in plan.faults
  /\ up
  /\ savers[s].pc = "idle"
  /\ \A t \in Savers : savers[t].pc # "idle" => savers[t].mgr # m
  /\ savers' = [savers EXCEPT ![s] = Saver(m, "copy", NoList)]
  /\ UNCHANGED <<plan, chainVars, cps, list, fileVars, stats, loaded, up>>

CopyMap(s) ==
  /\ savers[s].pc = "copy"
  /\ savers[s].mgr = "chain" => ~WriterWaits
  /\ savers' = [savers EXCEPT ![s] = Saver(@.mgr, "set", cps[@.mgr])]
  /\ UNCHANGED <<plan, chainVars, cps, list, fileVars, stats, loaded, up>>

\* c.config has no lock.
SetConfig(s) ==
  /\ savers[s].pc = "set"
  /\ list' = [list EXCEPT ![savers[s].mgr] = savers[s].snap]
  /\ savers' = [savers EXCEPT ![s] = Saver(@.mgr, "open", NoList)]
  /\ UNCHANGED <<plan, chainVars, cps, fileVars, stats, loaded, up>>

\* saveConfig: os.WriteFile empties the file, and then writes it.  Of two that
\* have emptied it, the second to write leaves the end of a longer first one.
TruncateFile(s) ==
  /\ savers[s].pc = "open"
  /\ savers' = [t \in Savers |->
       IF t = s
         THEN Saver(savers[s].mgr, "write", list[savers[s].mgr])
         ELSE [savers[t] EXCEPT !.over = FALSE]]
  /\ torn' = TRUE
  /\ UNCHANGED <<plan, chainVars, cps, list, file, stats, loaded, up>>

WriteFile(s) ==
  /\ savers[s].pc = "write"
  /\ file' = savers[s].snap
  /\ torn' \in IF savers[s].over /\ file # savers[s].snap THEN BOOLEAN ELSE {FALSE}
  /\ savers' = [t \in Savers |->
       IF t = s THEN Idle
       ELSE IF savers[t].pc = "write" THEN [savers[t] EXCEPT !.over = TRUE]
       ELSE savers[t]]
  /\ UNCHANGED <<plan, chainVars, cps, list, stats, loaded, up>>

-----------------------------------------------------------------------------
\* Shutdown and start

Down ==
  /\ up' = FALSE
  /\ creators' = {}
  /\ savers' = [s \in Savers |-> Idle]
  /\ stats' = "none"
  /\ cps' = [m \in Managers |-> NoList] /\ list' = cps'

\* The chain manager's Stop saves its map.  Another save may overlap.
Stop ==
  /\ up /\ ~WriterWaits
  /\ creators # {} => "late" \in plan.faults
  /\ file' = cps["chain"]
  /\ torn' \in IF \E s \in Savers : savers[s].pc = "write" THEN BOOLEAN ELSE {FALSE}
  /\ Down
  /\ UNCHANGED <<plan, canon, loaded>>

Crash ==
  /\ "crash" \in plan.faults
  /\ up
  /\ Down
  /\ UNCHANGED <<plan, canon, fileVars, loaded>>

\* Mutant: only the chain's manager reads the file.
StartOne ==
  /\ ~up /\ ~torn
  /\ up' = TRUE
  /\ cps' = [m \in Managers |-> IF m = "chain" THEN file ELSE NoList] /\ list' = cps'
  /\ loaded' = file
  /\ UNCHANGED <<plan, chainVars, savers, fileVars, stats>>

\* NewCheckpoints, twice.  A file that is torn cannot be parsed: the
\* p2p node, and with it the whole node, does not start.
Start ==
  /\ ~up /\ ~torn
  /\ up' = TRUE
  /\ cps' = [m \in Managers |-> file] /\ list' = cps'
  /\ loaded' = file
  /\ UNCHANGED <<plan, chainVars, savers, fileVars, stats>>

Next ==
  \/ \E h \in Slots, x \in Ids : AcceptBlock(h, x)
  \/ \E c \in creators : CheckCanonical(c) \/ AddCheckpoint(c)
  \/ \E m \in Managers : ProcessRemote(m) \/ SaveHourly(m)
  \/ BeginStats \/ EndStats
  \/ \E s \in Savers : CopyMap(s) \/ SetConfig(s) \/ TruncateFile(s) \/ WriteFile(s)
  \/ Stop \/ Crash \/ Start

Spec == Init /\ [][Next]_vars

-----------------------------------------------------------------------------
\* Properties

\* When every goroutine has made its checkpoint, the checkpoints are of the
\* chain, through reorganizations and restarts, unless one came
\* too late, a sync or a remote went past them, or another had been confirmed
\* too often.  (createCheckpointFromBlock and AddCheckpoint.)
ChainCheckpointed ==
  /\ up /\ creators = {}
  /\ plan.faults \cap {"late", "sync", "remote", "crash"} = {}
  => \A h \in Slots : canon[h] # NoBlock =>
       cps["chain"][h].id = canon[h] \/ cps["chain"][h].ver > Trust

\* Whichever manager writes the file, with whichever older copy of its map,
\* every height that had a checkpoint when the node started keeps one.
\* (saveCheckpointsToConfig of two managers on one file.)
LoadedNeverLost ==
  ~torn => \A h \in Slots : loaded[h] # None => file[h] # None

-----------------------------------------------------------------------------
\* The invariant behind the properties

Entries == [id : Ids \cup {"none"}, ver : Nat]

Lists == [Slots -> Entries]

SaverStates ==
  [pc : {"idle", "copy", "set", "open", "write"}, mgr : Managers, snap : Lists,
   over : BOOLEAN]

TypeOK ==
  /\ plan \in Plans
  /\ canon \in [Slots -> Ids \cup {NoBlock}]
  /\ creators \subseteq [slot : Slots, id : Ids, pc : {"check", "add", "wait"}]
  /\ cps \in [Managers -> Lists] /\ list \in [Managers -> Lists]
  /\ savers \in [Savers -> SaverStates]
  /\ file \in Lists /\ loaded \in Lists
  /\ torn \in BOOLEAN /\ up \in BOOLEAN

\* A list with every height that had a checkpoint at the start.
Covers(f) == \A h \in Slots : loaded[h] # None => f[h] # None

\* Every copy of a map that is or may be written covers the heights loaded.
EveryCopyCovers ==
  /\ Covers(file)
  /\ up => \A m \in Managers : Covers(cps[m]) /\ Covers(list[m])
  /\ \A s \in Savers :
       /\ savers[s].pc \in {"set", "write"} => Covers(savers[s].snap)
       /\ ~up => savers[s].pc = "idle"
  /\ ~up => creators = {}

Quiet == plan.faults \cap {"late", "sync", "remote", "crash"} = {}

\* The chain has no holes, and the goroutines are at work on its blocks.
CreatorsOnChain ==
  /\ \E n \in 0..MaxSlot : \A h \in Slots : canon[h] # NoBlock <=> h <= n
  /\ \A c \in creators : canon[c.slot] = c.id

Checkpointed(h, f) == f[h].id = canon[h] \/ f[h].ver > Trust

\* A block has its checkpoint or a goroutine that will make it; a node that is
\* down has it in the file.
EveryBlockCheckpointed == \A h \in Slots : canon[h] # NoBlock =>
  /\ up => Checkpointed(h, cps["chain"]) \/ \E c \in creators : c.slot = h
  /\ ~up => Checkpointed(h, file)

ChainFollowed == Quiet => CreatorsOnChain /\ EveryBlockCheckpointed

=============================================================================
