------------------------------ MODULE KingGossip ------------------------------
(***************************************************************************)
(* How the nodes agree on the list of kings and on the history of          *)
(* rotations: the king topic and the database-sync topic of the p2p node.  *)
(*                                                                         *)
(* Every goroutine that changes the list reads it under one lock, computes *)
(* a new one and installs it under another; the steps of several           *)
(* goroutines of a node interleave.  What a goroutine has still to do is   *)
(* its todo list.  GetConfig, which the code looks for in the manager, is  *)
(* not there: a configuration is the list with default values.             *)
(***************************************************************************)
EXTENDS Integers, Sequences, FiniteSets, Functions

CONSTANTS
  Nodes, Kings,
  DefaultList,        \* the list of the emergency: the hard-coded main king
  Poor,               \* kings whose balance may be below the minimum stake
  Beginnings,         \* how a run may begin: the lists, the history, the
                      \* nodes still to check after their start, the syncs and
                      \* the blocks taken back still to come
  MaxHeight,          \* bound: blocks in a chain
  Rotations,          \* the blocks with which the king may rotate
  MaxBatch,           \* blocks that one answer covers beyond the first (1000)
  StaleWindow,        \* a list update may be older than the tip by (100) ...
  FutureWindow,       \* ... or newer by (10)
  MaxInFlight         \* bound: what a node has in the network; the earlier is lost

Threads == {"king", "db", "compare", "emergency", "check"}

VARIABLES
  list,               \* config.KingAddresses of each node
  todo,               \* what each goroutine has still to do with it
  timer,              \* an emergency fires in five seconds
  net,                \* messages published and not delivered yet
  cache,              \* configurations in dbSyncResponses, by peer
  checker,            \* CheckIfConfigurationSyncNeeded, which holds dbSyncMu
  writer,             \* a goroutine waits to lock dbSyncMu for writing
  height,             \* the tip of each node
  synced, events,     \* LastSyncedBlock and the stored rotations
  local,              \* goroutines about to call SyncBlocks, by their target
  ticks, reverts,     \* bound: periodic syncs and blocks taken back to come
  covered,            \* history: the blocks of which rotations were synced
  passed,             \* history: the blocks passed over for a known cause
  attempt             \* performDBSyncWithPeers

listVars == <<list, todo, timer>>
lockVars == <<checker, writer>>
accountVars == <<covered, passed>>
historyVars == <<height, synced, events, local, ticks, reverts, accountVars, attempt>>
vars == <<listVars, net, cache, lockVars, historyVars>>

NoAttempt == [at |-> "idle", lo |-> 0, hi |-> 0, peers |-> <<>>]

\* syncKingConfigurationOnStartup: a check is due if there are peers by then.
Started(b) == [n \in Nodes |-> IF n \in b.checks THEN "due" ELSE "done"]

Init ==
  /\ \E b \in Beginnings :
       /\ list = b.list /\ height = b.height /\ events = b.events
       /\ synced = b.synced /\ covered = [n \in Nodes |-> 1..b.synced[n]]
       /\ local = b.local /\ ticks = b.ticks /\ reverts = b.reverts
       /\ checker = Started(b)
  /\ todo = [n \in Nodes |-> [t \in Threads |-> <<>>]]
  /\ timer = [n \in Nodes |-> FALSE]
  /\ net = {} /\ passed = [n \in Nodes |-> {}]
  /\ cache = [n \in Nodes |-> {}]
  /\ writer = [n \in Nodes |-> FALSE]
  /\ attempt = [n \in Nodes |-> NoAttempt]

-----------------------------------------------------------------------------
\* Lists

KingsIn(l) == {l[i] : i \in DOMAIN l}

\* What a list has at some of its places, in its order.
At(l, places) ==
  LET Place(k) == CHOOSE i \in places : Cardinality({j \in places : j <= i}) = k
  IN  [k \in 1..Cardinality(places) |-> l[Place(k)]]

Without(l, kings) == At(l, {i \in DOMAIN l : l[i] \notin kings})

\* The orders that Go's map order can give a set.
Orders(S) ==
  {q \in [1..Cardinality(S) -> S] : \A i, j \in DOMAIN q : q[i] = q[j] => i = j}

\* Mutant: the second loop runs over the first list again.
FirstTwice(l1, l2) == l1

\* mergeAddressLists
Merged(l1, l2) ==
  LET both == l1 \o l2
  IN  At(both, {i \in DOMAIN both : \A j \in 1..(i - 1) : both[j] # both[i]})

\* What is left to do: to install a list computed from the one that was seen,
\* and to tell the peers of it; or to look at a peer's configuration.
Install(seen, l, tell) == [op |-> "install", seen |-> seen, list |-> l, tell |-> tell]
Look(l) == [op |-> "look", seen |-> <<>>, list |-> l, tell |-> FALSE]

Others(n) == Nodes \ {n}

Message(kind, n, p, l) ==
  [kind |-> kind, from |-> n, to |-> p, list |-> l, lo |-> 0, hi |-> 0,
   events |-> {}, height |-> IF kind = "update" THEN height[n] ELSE 0]

\* The network when n sends ms on top of what is there.
Sent(there, n, ms) ==
  LET earlier == {m \in there : m.from = n /\ \E m2 \in ms : m2.kind = m.kind}
  IN  ms \cup IF Cardinality(earlier \cup ms) <= MaxInFlight
                THEN there ELSE there \ earlier

Publish(n, ms) == net' = Sent(net, n, ms)

\* BroadcastCurrentConfig
Configs(n, l) ==
  IF l = <<>> THEN {} ELSE {Message("config", n, p, l) : p \in Others(n)}

\* BroadcastKingListUpdate: never at height 0
Updates(n, l) ==
  IF height[n] = 0 \/ l = <<>> THEN {}
  ELSE {Message("update", n, p, l) : p \in Others(n)}

\* BroadcastCurrentKingConfig
Told(n, l) == Configs(n, l) \cup IF Len(l) >= 2 THEN Updates(n, l) ELSE {}

-----------------------------------------------------------------------------
\* dbSyncMu.  A waiting writer keeps new readers out.

CanWrite(n) == checker[n] \in {"due", "done"}
CanRead(n) == ~writer[n]

Stuck(n) == checker[n] = "deciding" /\ writer[n]

-----------------------------------------------------------------------------
\* The goroutine of the king topic

\* Too old or too new an update is ignored, unless it is from height 0.
InWindow(n, m) ==
  \/ m.height = 0
  \/ /\ m.height + StaleWindow >= height[n]
     /\ m.height <= height[n] + FutureWindow

HandleKingListUpdate(n, m) ==
  /\ m \in net /\ m.to = n /\ m.kind = "update"
  /\ todo[n]["king"] = <<>>
  /\ LET merged == Merged(list[n], m.list)
     IN  todo' = IF InWindow(n, m) /\ merged # list[n]
                   THEN [todo EXCEPT ![n]["king"] = <<Install(list[n], merged, FALSE)>>]
                   ELSE todo
  /\ net' = net \ {m}
  /\ UNCHANGED <<list, timer, cache, lockVars, historyVars>>

\* Mutant: a list that is as long replaces the node's, too.
Replaced(n, l) ==
  IF Len(l) >= Len(list[n]) THEN <<Install(list[n], l, TRUE)>> ELSE <<>>

\* applyKingConfiguration up to the update: a longer list replaces the
\* node's, one as long is merged into it.
Wanted(n, l) ==
  LET merged == Merged(list[n], l)
  IN  IF Len(l) > Len(list[n]) THEN <<Install(list[n], l, TRUE)>>
      ELSE IF Len(l) = Len(list[n]) /\ Len(merged) > Len(list[n])
        THEN <<Install(list[n], merged, TRUE)>>
      ELSE <<>>

HandleKingConfig(n, m) ==
  /\ m \in net /\ m.to = n /\ m.kind = "config"
  /\ todo[n]["king"] = <<>>
  /\ todo' = [todo EXCEPT ![n]["king"] = Wanted(n, m.list)]
  /\ net' = net \ {m}
  /\ UNCHANGED <<list, timer, cache, lockVars, historyVars>>

\* The second look that a longer configuration gets
ApplyKingConfiguration(n, t) ==
  /\ todo[n][t] # <<>> /\ Head(todo[n][t]).op = "look"
  /\ todo' = [todo EXCEPT ![n][t] = Wanted(n, Head(@).list) \o Tail(@)]
  /\ UNCHANGED <<list, timer, net, cache, lockVars, historyVars>>

\* UpdateKingAddresses, and what follows it
UpdateKingAddresses(n, t) ==
  /\ todo[n][t] # <<>> /\ Head(todo[n][t]).op = "install"
  /\ LET next == Head(todo[n][t])
     IN  /\ list' = [list EXCEPT ![n] = next.list]
         /\ Publish(n, IF ~next.tell THEN {}
                    ELSE IF t = "check" THEN Configs(n, next.list)
                    ELSE Told(n, next.list))
  /\ todo' = [todo EXCEPT ![n][t] = Tail(@)]
  /\ UNCHANGED <<timer, cache, lockVars, historyVars>>

\* BroadcastCurrentKingConfig, from the syncer, the monitor, the health check
\* and the change detector, and sendKingConfig to one that asks for it.
Broadcast(n) ==
  /\ Publish(n, Told(n, list[n]))
  /\ UNCHANGED <<listVars, cache, lockVars, historyVars>>

\* EnsureKingConfigBroadcast: the update alone, of a single king too.  Of more
\* kings it is a Broadcast whose configurations are lost.
EnsureBroadcast(n) ==
  /\ Len(list[n]) = 1
  /\ Publish(n, Updates(n, list[n]))
  /\ UNCHANGED <<listVars, cache, lockVars, historyVars>>

\* A message that the network, a full subscription or the rate limit drops.
Lose(m) ==
  /\ m.kind \in {"request", "response"}
  /\ net' = net \ {m}
  /\ UNCHANGED <<listVars, cache, lockVars, historyVars>>

-----------------------------------------------------------------------------
\* CompareAndSyncKingLists

\* Answers with a list that is not empty
Filled(n) == {c \in cache[n] : c.list # <<>>}

\* The lists compared: the node's, and one cached answer of each peer that has
\* one.  The request that is sent to the others is not handled anywhere.
Lists(n) ==
  {f \in [{n} \cup {c.peer : c \in Filled(n)} -> {list[n]} \cup {c.list : c \in Filled(n)}] :
     /\ f[n] = list[n]
     /\ \A p \in DOMAIN f \ {n} : [peer |-> p, list |-> f[p]] \in Filled(n)}

\* analyzeAndMergeKingLists: three updates, each computed from the list that
\* was read first.
Merges(ours, largest, consensus, all) ==
  LET merged == Merged(ours, largest)
      missing == Without(consensus, KingsIn(ours))
  IN  (IF Len(largest) > Len(ours) /\ Len(merged) > Len(ours)
         THEN <<Install(ours, merged, TRUE)>> ELSE <<>>)
      \o (IF missing # <<>> THEN <<Install(ours, ours \o missing, TRUE)>> ELSE <<>>)
      \o (IF Len(all) - Len(ours) > Len(all) \div 5
            THEN <<Install(ours, Merged(ours, all), TRUE)>> ELSE <<>>)

Longest(lists) ==
  {l \in lists : \A other \in lists : Len(other) <= Len(l)}

CompareAndSync(n) ==
  /\ todo[n]["compare"] = <<>>
  /\ CanRead(n)
  /\ \E f \in Lists(n) :
       LET agree == Cardinality(DOMAIN f) \div 2 + 1
           all == UNION {KingsIn(f[p]) : p \in DOMAIN f}
           consensus == {k \in all : Cardinality({p \in DOMAIN f : k \in KingsIn(f[p])}) >= agree}
       IN  /\ Cardinality(DOMAIN f) >= 2
           /\ \E largest \in Longest({f[p] : p \in DOMAIN f}) :
                \E c \in Orders(consensus), a \in Orders(all) :
                  todo' = [todo EXCEPT ![n]["compare"] = Merges(list[n], largest, c, a)]
  /\ UNCHANGED <<list, timer, net, cache, lockVars, historyVars>>

-----------------------------------------------------------------------------
\* Emergency

\* From the health check, and from checkAndSyncKingConfig without a king
TriggerEmergencyConfigSync(n) ==
  /\ Len(list[n]) < 2
  /\ timer' = [timer EXCEPT ![n] = TRUE]
  /\ UNCHANGED <<list, todo, net, cache, lockVars, historyVars>>

\* The king of the schedule may be reset, too: see RotatingKing.
HealthCheckRotatingKingConfig(n) ==
  TriggerEmergencyConfigSync(n) \/ (Len(list[n]) >= 2 /\ Broadcast(n))

\* applyEmergencyDefaultConfiguration.  The list is not looked at again.
ApplyEmergencyDefault(n) ==
  /\ timer[n] /\ todo[n]["emergency"] = <<>>
  /\ CanRead(n)
  /\ timer' = [timer EXCEPT ![n] = FALSE]
  /\ LET cached == {c.list : c \in {x \in cache[n] : Len(x.list) >= 2}}
     IN  \E l \in IF cached = {} THEN {DefaultList} ELSE cached :
           todo' = [todo EXCEPT ![n]["emergency"] = <<Install(list[n], l, TRUE)>>]
  /\ UNCHANGED <<list, net, cache, lockVars, historyVars>>

-----------------------------------------------------------------------------
\* CheckIfConfigurationSyncNeeded, some time after the start

\* evaluateSyncDecision over the answers that are recent
Decision(ours, recent) ==
  LET lens == SumFunction([c \in recent |-> Len(c.list)])
      avg == lens \div Cardinality(recent)
  IN  IF Len(ours) < avg - 1 THEN "sync_needed"
      ELSE IF Len(ours) > avg + 1 THEN "broadcast"
      ELSE IF \E c \in recent : Len(c.list) = Len(ours) /\ c.list # ours THEN "sync_needed"
      ELSE IF \E c \in recent : Len(c.list) - Len(ours) > 2 THEN "sync_needed"
      ELSE "ok"

\* dbSyncMu is read-locked until the whole function returns.
CheckBegin(n) ==
  /\ checker[n] = "due"
  /\ CanRead(n)
  /\ \E recent \in SUBSET Filled(n) :
       LET decision == IF recent = {} THEN "ok" ELSE Decision(list[n], recent)
       IN  /\ checker' = [checker EXCEPT ![n] =
                            IF decision = "sync_needed" THEN "deciding" ELSE "done"]
           /\ Publish(n, IF decision = "broadcast" THEN Configs(n, list[n]) ELSE {})
  /\ UNCHANGED <<listVars, cache, writer, historyVars>>

\* triggerConfigurationSync read-locks it again.
TriggerConfigurationSync(n) ==
  /\ checker[n] = "deciding"
  /\ CanRead(n)
  /\ checker' = [checker EXCEPT ![n] = "adopting"]
  /\ \E l \in Longest({c.list : c \in Filled(n)}) :
       todo' = [todo EXCEPT ![n]["check"] = <<Install(list[n], l, TRUE)>>]
  /\ UNCHANGED <<list, timer, net, cache, writer, historyVars>>

CheckEnd(n) ==
  /\ checker[n] = "adopting" /\ todo[n]["check"] = <<>>
  /\ checker' = [checker EXCEPT ![n] = "done"]
  /\ writer' = [writer EXCEPT ![n] = FALSE]
  /\ UNCHANGED <<listVars, net, cache, historyVars>>

\* A message of the database-sync topic, or a new attempt, finds it locked.
WaitToWrite(n) ==
  /\ checker[n] = "deciding"
  /\ writer' = [writer EXCEPT ![n] = TRUE]
  /\ UNCHANGED <<listVars, net, cache, checker, historyVars>>

-----------------------------------------------------------------------------
\* The history of rotations

Least(a, b) == IF a < b THEN a ELSE b

\* performDBSyncWithPeers, up to the first request.  A request is named by
\* its range: the late answer to an earlier try of it serves as well.
Request(n, p, lo, hi) ==
  [Message("request", n, p, <<>>) EXCEPT !.lo = lo, !.hi = hi]

From(s) == IF s > 0 THEN s + 1 ELSE 0

PerformDBSync(n) ==
  /\ attempt[n].at = "idle"
  /\ CanWrite(n)
  /\ synced[n] < height[n] /\ Others(n) # {}
  /\ \E peers \in Orders(Others(n)) :
       /\ attempt' = [attempt EXCEPT ![n] =
                        [at |-> "waiting", lo |-> From(synced[n]), hi |-> height[n],
                         peers |-> peers]]
       /\ Publish(n, {Request(n, Head(peers), From(synced[n]), height[n])})
  /\ UNCHANGED <<listVars, cache, lockVars, height, synced, events, local, ticks,
                 reverts, accountVars>>

\* Mutant: the answer to a truncated range claims all of it.
WholeRange(m) == m.hi

\* The last block of the range that processDBSyncRequest answers
AnsweredTo(m) == Least(m.hi, m.lo + MaxBatch)

\* handleDBSyncRequest and processDBSyncRequest
HandleDBSyncRequest(n, m) ==
  /\ m \in net /\ m.to = n /\ m.kind = "request"
  /\ todo[n]["db"] = <<>>
  /\ CanWrite(n)
  /\ net' = Sent(net \ {m}, n,
       {[Message("response", n, m.from, list[n]) EXCEPT
           !.lo = m.lo, !.hi = AnsweredTo(m), !.height = height[n],
           !.events = {h \in events[n] : m.lo <= h /\ h <= Least(m.hi, m.lo + MaxBatch)}]})
  /\ UNCHANGED <<listVars, cache, lockVars, historyVars>>

\* markDBSyncHeight
Marked(n, h) ==
  LET h1 == Least(h, height[n]) IN IF synced[n] >= h1 THEN synced[n] ELSE h1

\* processReceivedRotations: none from far in the future.
Acceptable(n, evs) == {h \in evs : h <= height[n] + FutureWindow}

\* handleDBSyncResponse; a rotation that cannot be stored is passed over, and so
\* is a block that the answering peer does not have itself.
HandleDBSyncResponse(n, m) ==
  /\ m \in net /\ m.to = n /\ m.kind = "response"
  /\ todo[n]["db"] = <<>>
  /\ CanWrite(n)
  /\ net' = net \ {m}
  /\ \E kept \in {{}, cache[n]} :         \* pruneDBSyncCacheLocked
       cache' = [cache EXCEPT ![n] = kept \cup {[peer |-> m.from, list |-> m.list]}]
  /\ \E stored \in {{}, Acceptable(n, m.events)} :
       LET answered == m.lo..Least(m.hi, m.lo + MaxBatch)
           lost == (m.events \ stored) \cup {h \in answered : h > m.height}
       IN  /\ events' = [events EXCEPT ![n] = @ \cup stored]
           /\ covered' = [covered EXCEPT ![n] = @ \cup (answered \ lost)]
           /\ passed' = [passed EXCEPT ![n] = @ \cup lost]
  /\ synced' = [synced EXCEPT ![n] = Marked(n, m.hi)]
  /\ attempt' = IF attempt[n].at = "waiting" /\ attempt[n].lo = m.lo
                     /\ Head(attempt[n].peers) = m.from
                  THEN [attempt EXCEPT ![n].at = "answered"] ELSE attempt
  /\ todo' = [todo EXCEPT ![n]["db"] =
       IF Len(m.list) > Len(list[n]) THEN Append(Wanted(n, m.list), Look(m.list))
                                     ELSE Wanted(n, m.list)]
  /\ UNCHANGED <<list, timer, lockVars, height, local, ticks, reverts>>

\* Mutant: only an answer clears isDBSyncing.
WaitForAnswer(n) ==
  /\ attempt[n].at = "answered"
  /\ CanWrite(n)
  /\ attempt' = [attempt EXCEPT ![n] = NoAttempt]
  /\ UNCHANGED <<listVars, net, cache, lockVars, height, synced, events, local, ticks,
                 reverts, accountVars>>

\* waitForDBSyncResponse ends: with an answer, or by a timeout or an error
\* with the next peer.
WaitEnds(n) ==
  /\ attempt[n].at # "idle"
  /\ CanWrite(n)
  /\ IF attempt[n].at = "answered" \/ Len(attempt[n].peers) = 1
       THEN attempt' = [attempt EXCEPT ![n] = NoAttempt] /\ net' = net
       ELSE LET peers == Tail(attempt[n].peers)
            IN  /\ attempt' = [attempt EXCEPT ![n].peers = peers]
                /\ Publish(n, {Request(n, Head(peers), attempt[n].lo, attempt[n].hi)})
  /\ UNCHANGED <<listVars, cache, lockVars, height, synced, events, local, ticks,
                 reverts, accountVars>>

\* A block is accepted; a goroutine is to sync the rotations up to it.
AcceptBlock(n) ==
  /\ height[n] < MaxHeight
  /\ height' = [height EXCEPT ![n] = @ + 1]
  /\ local' = [local EXCEPT ![n] = @ \cup {height[n] + 1}]
  /\ \E rotated \in {{}, {height[n] + 1} \cap Rotations} :
       events' = [events EXCEPT ![n] = @ \cup rotated]
  /\ UNCHANGED <<listVars, net, cache, lockVars, synced, ticks, reverts, accountVars,
                 attempt>>

\* A reorganization or a truncation takes the last block back.  Nobody tells the
\* kings' manager: LastSyncedBlock stays, whatever block comes in its place.
RevertBlock(n) ==
  /\ height[n] > 0
  /\ reverts > 0 /\ reverts' = reverts - 1
  /\ height' = [height EXCEPT ![n] = @ - 1]
  /\ covered' = [covered EXCEPT ![n] = @ \ {height[n]}]
  /\ passed' = [passed EXCEPT ![n] = @ \cup {height[n]}]
  /\ UNCHANGED <<listVars, net, cache, lockVars, synced, events, local, ticks, attempt>>

\* Every 30 seconds the node reads its height and syncs up to it.
StartPeriodicRotatingKingSync(n) ==
  /\ height[n] > 0
  /\ ticks > 0 /\ ticks' = ticks - 1
  /\ local' = [local EXCEPT ![n] = @ \cup {height[n]}]
  /\ UNCHANGED <<listVars, net, cache, lockVars, height, synced, events, reverts,
                 accountVars, attempt>>

\* syncRotationsToHeight goes up to the tip.  Of the blocks at which a rotation
\* may be due it skips those that are missing or whose rotation fails.
Walked(n, h) == 1..Least(h, height[n])
Due(n, h) == (Rotations \cap Walked(n, h)) \ covered[n]

\* SyncBlocks saves its own target, even below LastSyncedBlock, and even above
\* the tip, where it did not go.  It may time out, or fail to save.
SyncBlocks(n, h) ==
  /\ h \in local[n]
  /\ local' = [local EXCEPT ![n] = @ \ {h}]
  /\ \E skipped \in SUBSET Due(n, h) : \E made \in SUBSET (Due(n, h) \ skipped) :
       /\ events' = [events EXCEPT ![n] = @ \cup made]
       /\ \/ UNCHANGED <<synced, accountVars>>
          \/ /\ synced' = [synced EXCEPT ![n] = h]
             /\ covered' = [covered EXCEPT ![n] = @ \cup (Walked(n, h) \ skipped)]
             /\ passed' = [passed EXCEPT ![n] = @ \cup skipped]
  /\ UNCHANGED <<listVars, net, cache, lockVars, height, ticks, reverts, attempt>>

-----------------------------------------------------------------------------
\* startKingListCleanup, every ten minutes at every node: the kings below the
\* minimum stake are removed.  A list without any is the default one, empty.
CleanupIneligibleKings(n) ==
  /\ LET left == Without(list[n], Poor)
     IN  /\ left # list[n]
         /\ list' = [list EXCEPT ![n] = left]
         /\ Publish(n, Configs(n, left))
  /\ UNCHANGED <<todo, timer, cache, lockVars, historyVars>>

-----------------------------------------------------------------------------
Receive(n) ==
  \E m \in net : HandleKingListUpdate(n, m) \/ HandleKingConfig(n, m)

Work(n, t) == ApplyKingConfiguration(n, t) \/ UpdateKingAddresses(n, t)

Answer(n) ==
  \E m \in net : HandleDBSyncRequest(n, m) \/ HandleDBSyncResponse(n, m)

Check(n) == CheckBegin(n) \/ TriggerConfigurationSync(n) \/ CheckEnd(n)

Next ==
  \/ \E n \in Nodes :
       \/ Receive(n) \/ Broadcast(n) \/ EnsureBroadcast(n)
       \/ \E t \in Threads : Work(n, t)
       \/ CompareAndSync(n)
       \/ TriggerEmergencyConfigSync(n) \/ HealthCheckRotatingKingConfig(n)
       \/ ApplyEmergencyDefault(n)
       \/ Check(n) \/ WaitToWrite(n)
       \/ PerformDBSync(n) \/ Answer(n) \/ WaitEnds(n)
       \/ AcceptBlock(n) \/ RevertBlock(n) \/ StartPeriodicRotatingKingSync(n)
       \/ \E h \in local[n] : SyncBlocks(n, h)
       \/ CleanupIneligibleKings(n)
  \/ \E m \in net : Lose(m)

Spec == Init /\ [][Next]_vars

\* A list that a node tells again and again comes through while it is the
\* node's list: the topics are broadcast to every 15 seconds.
HearCurrent(n, p) ==
  \E m \in net : /\ m.from = p /\ m.list = list[p]
                 /\ HandleKingConfig(n, m)

Fairness ==
  /\ \A n \in Nodes :
       /\ WF_vars(Broadcast(n)) /\ WF_vars(Work(n, "king"))
       /\ WF_vars(WaitEnds(n))
       /\ WF_vars(Check(n) \/ Work(n, "check"))
       /\ \A p \in Others(n) : SF_vars(HearCurrent(n, p))

FairSpec == Spec /\ Fairness

-----------------------------------------------------------------------------
\* Properties

\* The goroutine t of n installs a list that it computed from an older one.
StaleInstall(n, t) ==
  /\ todo[n][t] # <<>> /\ todo'[n][t] = Tail(todo[n][t])
  /\ Head(todo[n][t]).op = "install" /\ Head(todo[n][t]).seen # list[n]

\* A node forgets a king only when it takes a longer list, when the list has
\* changed under the goroutine that installs the next, in an emergency, in the
\* one check after the start, or in a cleanup.
KingForgottenOnlyIf ==
  [][\A n \in Nodes :
       KingsIn(list[n]) \subseteq KingsIn(list'[n])
         \/ Len(list'[n]) > Len(list[n])
         \/ (\E t \in Threads : StaleInstall(n, t))
         \/ (\E t \in {"emergency", "check"} : todo'[n][t] # todo[n][t])
         \/ CleanupIneligibleKings(n)]_vars

\* The nodes end up with the same kings, whatever was lost on the way, and even
\* if a database sync is stuck.  An emergency replaces a list that may have grown
\* since it was triggered, and a king that one node cleans up comes back with
\* another's longer list, to be cleaned up again: this holds if emergencies and
\* cleanups that remove a king come to an end.
ListsAgree ==
  <>[][\A n \in Nodes : ~ApplyEmergencyDefault(n) /\ ~CleanupIneligibleKings(n)]_vars =>
    <>[](\A n, p \in Nodes : KingsIn(list[n]) = KingsIn(list[p]))

\* LastSyncedBlock goes back when SyncBlocks of an earlier block comes late, and
\* answers come to requests made before.  Still no block at or below it is without
\* its rotations from the node's own walk or from an answer, but for known causes:
\* the block was taken back since, before SyncBlocks of it or after; the walk
\* skipped it; the peer that answered did not have it, or its rotation could not
\* be stored.
NoBlockPassedOver ==
  [][\A n \in Nodes : 1..synced'[n] \subseteq covered'[n] \cup passed'[n]]_vars

\* An attempt to sync ends, answered or not, unless a node waits for its own
\* read lock.
AttemptEnds ==
  \A n \in Nodes : attempt[n].at # "idle" ~> (attempt[n].at = "idle" \/ Stuck(n))

=============================================================================
