------------------------------ MODULE FastSync ------------------------------
(***************************************************************************)
(* How one node catches up with its peers: the height check that starts a  *)
(* sync, the search for the common ancestor, the truncation of the local   *)
(* chain, the parallel download, and the flag that says a sync is running. *)
(*                                                                         *)
(* A sync runs in a goroutine of whoever started it.  Several can run: the *)
(* flag is read when one starts and set only after a peer has answered.    *)
(* Gossip adds blocks meanwhile.  Every request to a peer is one step, and *)
(* each may go unanswered.                                                 *)
(*                                                                         *)
(* A chain is the sequence of its blocks above genesis.  What AddBlock does *)
(* with a block is in ReorgManager; here a block that does not follow the  *)
(* tip has no effect, and one that does needs the account state of its     *)
(* parent.  A deterministic validation failure is looked for among errors  *)
(* that never carry one, so retrySyncWithAlternatePeer is not reached.     *)
(***************************************************************************)
EXTENDS Integers, Sequences, FiniteSets

CONSTANTS
  Blocks,
  Path,               \* [Blocks -> Seq(Blocks)], the ancestry of each block
  Invalid,            \* blocks that fail validation
  Better,             \* pairs of siblings: the first wins the fork choice
  Peers,
  Chain,              \* [Peers -> Seq(Blocks)], the chain each peer serves
  Boast,              \* [Peers -> Nat], a height it claims whatever it has
  Beginnings,         \* where the node and its peers start, how far the peers
                      \* grow, and whether forceSync is called
  Threads,            \* bound: goroutines that sync at one time
  Workers,            \* requests of one download at one time
  MaxFailures,        \* 20
  Threshold           \* a gap that the periodic check ignores

VARIABLES
  plan,               \* one of Beginnings
  chain,              \* the canonical chain
  state,              \* the chain whose execution gave the account state
  syncing, target,    \* the sync flag of the blockchain and its target
  peerHeight,         \* how much of its chain each peer has
  task                \* what each goroutine does; steady, which the code lacks,
                      \* says that the chain did not change during its search

local == <<chain, state>>
mode == <<syncing, target>>
vars == <<plan, local, mode, peerHeight, task>>

Kinds == {"behind", "higher", "force"}

Idle == [at |-> "idle", kind |-> "behind", peer |-> CHOOSE p \in Peers : TRUE,
         goal |-> 0, height |-> 0, low |-> 0, high |-> 0, ancestor |-> 0,
         pending |-> {}, fetched |-> {}, failures |-> 0, next |-> 0,
         steady |-> FALSE]

Init ==
  /\ plan \in Beginnings
  /\ chain = plan.chain /\ state = plan.chain
  /\ peerHeight = plan.heights
  /\ syncing = FALSE /\ target = 0
  /\ task = [t \in Threads |-> Idle]

-----------------------------------------------------------------------------
\* The blockchain

Height == Len(chain)

StartSync(h) == syncing' = TRUE /\ target' = h

StopSync == syncing' = FALSE /\ target' = 0

Claim(p) == IF Boast[p] > peerHeight[p] THEN Boast[p] ELSE peerHeight[p]

\* The peers of P that claim the most, if that is more than h.
Best(P, h) == {p \in P : Claim(p) > h /\ \A q \in P : Claim(q) <= Claim(p)}

\* A block that follows the tip.  Truncated to genesis, the chain has no tip
\* block, and nothing follows it.
Follows(b) == Path[b] = Append(chain, b) /\ (chain = <<>> => state = <<>>)

Valid(b) == b \notin Invalid /\ state = chain

\* tasks, after the chain changed
Unsteady(tasks) == [t \in Threads |-> [tasks[t] EXCEPT !.steady = FALSE]]

\* It is appended, and sync mode ends if that was the target.
Extend(b, tasks) ==
  /\ chain' = Path[b] /\ state' = Path[b]
  /\ task' = Unsteady(tasks)
  /\ syncing' = (syncing /\ Len(Path[b]) < target)
  /\ target' = target

\* TruncateTo deletes blocks and leaves the account state as it is.
TruncateTo(h, tasks) ==
  /\ chain' = SubSeq(chain, 1, h) /\ state' = state
  /\ task' = Unsteady(tasks)

-----------------------------------------------------------------------------
\* Starting

Set(t, r) == task' = [task EXCEPT ![t] = r]

Goto(t, at) == Set(t, [task[t] EXCEPT !.at = at])

\* go syncIfBehind(p): for a discovered peer, a peer named at the console, or
\* the best one when a block was announced.
SyncIfBehind(t, p) ==
  /\ task[t].at = "idle"
  /\ Set(t, [Idle EXCEPT !.at = "check", !.peer = p])
  /\ UNCHANGED <<plan, local, mode, peerHeight>>

\* At the start and while the node is new: the best of the peers that answer.
ForceInitialSync(t) ==
  \E S \in SUBSET Peers : \E p \in Best(S, Height) : SyncIfBehind(t, p)

\* Every fifteen seconds, where the gap is wide.
PeriodicSyncCheck(t) ==
  /\ ~syncing
  /\ \E S \in SUBSET Peers : \E p \in Best(S, Height + 2) : SyncIfBehind(t, p)

\* Mutant: the threshold of earlier versions.
BehindByMore(p) == Claim(p) > Height + Threshold + 2

\* At genesis every gap counts.
Behind(p) == Claim(p) > Height + IF Height = 0 THEN 0 ELSE Threshold

\* FastSyncCheck, every few seconds.
FastSyncCheck(t) ==
  /\ task[t].at = "idle"
  /\ ~syncing
  /\ \E p \in Best(Peers, 0) :
       /\ Behind(p)
       /\ Set(t, [Idle EXCEPT !.at = "check", !.peer = p])
  /\ UNCHANGED <<plan, local, mode, peerHeight>>

\* The flag does not keep a node at genesis from starting another sync.
Check(t) ==
  /\ task[t].at = "check"
  /\ IF Height > 0 /\ syncing
       THEN Set(t, Idle)
       ELSE Set(t, [task[t] EXCEPT !.at = "ask", !.height = Height])
  /\ UNCHANGED <<plan, local, mode, peerHeight>>

AskHeight(t) ==
  /\ task[t].at = "ask"
  /\ LET h == Claim(task[t].peer)
     IN  IF h > task[t].height
           THEN /\ StartSync(h)
                /\ Set(t, [task[t] EXCEPT !.at = "begin", !.goal = h])
           ELSE Goto(t, "higher") /\ UNCHANGED mode
  /\ UNCHANGED <<plan, local, peerHeight>>

\* continueSyncWithHigherPeer: with the best of the others, or that was all.
ContinueWithHigherPeer(t) ==
  /\ task[t].at = "higher"
  /\ LET best == Best(Peers \ {task[t].peer}, task[t].height)
     IN  IF best = {}
           THEN StopSync /\ Set(t, Idle)
           ELSE \E p \in best :
                  /\ StartSync(Claim(p))
                  /\ Set(t, [Idle EXCEPT !.at = "begin", !.kind = "higher",
                                         !.peer = p, !.goal = Claim(p)])
  /\ UNCHANGED <<plan, local, peerHeight>>

\* A node at genesis hears of a block above it: forceSync ends whatever sync
\* there is ...
ForceSync(t) ==
  /\ plan.force
  /\ task[t].at = "idle"
  /\ Height = 0
  /\ \E p \in Peers : peerHeight[p] > 0
  /\ IF syncing THEN StopSync ELSE UNCHANGED mode
  /\ Set(t, [Idle EXCEPT !.at = "force", !.kind = "force"])
  /\ UNCHANGED <<plan, local, peerHeight>>

\* ... and starts its own.
ForceStart(t) ==
  /\ task[t].at = "force"
  /\ LET best == Best(Peers, Height)
     IN  IF best = {}
           THEN Set(t, Idle) /\ UNCHANGED mode
           ELSE \E p \in best :
                  /\ StartSync(Claim(p))
                  /\ Set(t, [task[t] EXCEPT !.at = "begin", !.peer = p,
                                            !.goal = Claim(p)])
  /\ UNCHANGED <<plan, local, peerHeight>>

-----------------------------------------------------------------------------
\* syncMissingBlocks

\* Nothing to do if another sync was faster.
Begin(t) ==
  /\ task[t].at = "begin"
  /\ IF task[t].goal <= Height
       THEN Goto(t, "ended")
       ELSE Set(t, [task[t] EXCEPT !.at = IF Height = 0 THEN "truncate" ELSE "tip",
                                   !.height = Height, !.steady = TRUE])
  /\ UNCHANGED <<plan, local, mode, peerHeight>>

\* Whether peer and node have one block at h.  Both start from one genesis.
SameAt(p, h) == h = 0 \/ chain[h] = Chain[p][h]

\* The blocks that a comparison at h needs.
BothHave(p, h) == h <= Height /\ h <= peerHeight[p]

CompareTips(t) ==
  /\ task[t].at = "tip"
  /\ LET h == task[t].height
     IN  IF ~BothHave(task[t].peer, h) THEN Goto(t, "failed")
         ELSE IF SameAt(task[t].peer, h)
                THEN Set(t, [task[t] EXCEPT !.at = "truncate", !.ancestor = h])
                ELSE Set(t, [task[t] EXCEPT !.at = "search", !.high = h])
  /\ UNCHANGED <<plan, local, mode, peerHeight>>

\* Mutant: the bound is remembered in place of the probe.
NarrowedFromLow(r, same) ==
  LET middle == r.low + (r.high - r.low) \div 2
  IN  IF same THEN [r EXCEPT !.ancestor = r.low, !.low = middle + 1]
              ELSE [r EXCEPT !.high = middle - 1]

Narrowed(r, same) ==
  LET middle == r.low + (r.high - r.low) \div 2
  IN  IF same THEN [r EXCEPT !.ancestor = middle, !.low = middle + 1]
              ELSE [r EXCEPT !.high = middle - 1]

\* findCommonAncestorByHash, one probe.
Search(t) ==
  /\ task[t].at = "search"
  /\ LET r == task[t]
         middle == r.low + (r.high - r.low) \div 2
     IN  CASE r.low > r.high ->
                Set(t, [r EXCEPT !.at = "truncate", !.low = 0, !.high = 0])
           [] r.low <= r.high /\ BothHave(r.peer, middle) ->
                Set(t, Narrowed(r, SameAt(r.peer, middle)))
           [] OTHER -> Goto(t, "failed")
  /\ UNCHANGED <<plan, local, mode, peerHeight>>

\* The local blocks above the ancestor go before any of the peer's is fetched.
Truncate(t) ==
  /\ task[t].at = "truncate"
  /\ LET r == task[t]
         fetching == [r EXCEPT !.at = "fetch", !.pending = (r.ancestor + 1)..r.goal,
                               !.steady = FALSE]
     IN  IF r.ancestor = r.height
           THEN Set(t, fetching) /\ UNCHANGED local
           ELSE IF r.ancestor >= Height
                  THEN Goto(t, "failed") /\ UNCHANGED local
                  ELSE TruncateTo(r.ancestor, [task EXCEPT ![t] = fetching])
  /\ UNCHANGED <<plan, mode, peerHeight>>

\* The heights that the workers ask for: they take them in order.
Requested(r) ==
  {h \in r.pending : Cardinality({g \in r.pending : g < h}) < Workers}

Counted(r) == IF r.failures < MaxFailures THEN [r EXCEPT !.failures = @ + 1]
              ELSE [r EXCEPT !.at = "failed"]

\* A result.  A peer that has no such block says so.
Fetch(t) ==
  /\ task[t].at = "fetch"
  /\ \E h \in Requested(task[t]) :
       LET r == [task[t] EXCEPT !.pending = @ \ {h}]
       IN  Set(t, IF h <= peerHeight[r.peer]
                    THEN [r EXCEPT !.at = "add", !.fetched = @ \cup {h},
                                   !.next = Height + 1]
                    ELSE Counted(r))
  /\ UNCHANGED <<plan, local, mode, peerHeight>>

\* Blocks that follow one another are added.  One that fails stays fetched and
\* is tried again after the next result; one without effect counts as added.
Add(t) ==
  /\ task[t].at = "add"
  /\ LET r == task[t]
         added == [r EXCEPT !.fetched = @ \ {r.next}, !.next = @ + 1]
         b == Chain[r.peer][r.next]
     IN  CASE r.next \notin r.fetched ->
                Set(t, [r EXCEPT !.at = "fetch", !.next = 0]) /\ UNCHANGED <<local, mode>>
           [] r.next \in r.fetched /\ Follows(b) /\ Valid(b) ->
                Extend(b, [task EXCEPT ![t] = added])
           [] r.next \in r.fetched /\ Follows(b) /\ ~Valid(b) ->
                Set(t, [r EXCEPT !.at = "fetch", !.next = 0]) /\ UNCHANGED <<local, mode>>
           [] OTHER -> Set(t, added) /\ UNCHANGED <<local, mode>>
  /\ UNCHANGED <<plan, peerHeight>>

\* All results are in: sync mode ends, at whatever height.
Fetched(t) ==
  /\ task[t].at = "fetch" /\ task[t].pending = {}
  /\ StopSync
  /\ Set(t, [task[t] EXCEPT !.at = "ended", !.fetched = {}])
  /\ UNCHANGED <<plan, local, peerHeight>>

-----------------------------------------------------------------------------
\* Back in the caller

\* syncMissingBlocks returned nil.
Ended(t) ==
  /\ task[t].at = "ended"
  /\ LET there == Height >= task[t].goal
     IN  CASE task[t].kind = "behind" /\ there ->
                /\ Set(t, [Idle EXCEPT !.at = "higher", !.peer = task[t].peer,
                                       !.height = Height])
                /\ UNCHANGED mode
           [] task[t].kind = "higher" /\ there -> Set(t, Idle) /\ StopSync
           [] OTHER -> Set(t, Idle) /\ UNCHANGED mode
  /\ UNCHANGED <<plan, local, peerHeight>>

\* Mutant: sync mode is left on after an error.
FailedStillSyncing(t) ==
  /\ task[t].at = "failed"
  /\ Set(t, Idle)
  /\ UNCHANGED <<plan, local, mode, peerHeight>>

\* It returned an error.  forceSync only logs it.
Failed(t) ==
  /\ task[t].at = "failed"
  /\ Set(t, Idle)
  /\ IF syncing /\ task[t].kind # "force" THEN StopSync ELSE UNCHANGED mode
  /\ UNCHANGED <<plan, local, peerHeight>>

\* A request times out, or its stream breaks.
Unanswered(t) ==
  /\ \/ task[t].at = "ask" /\ Set(t, Idle) /\ UNCHANGED mode
     \/ task[t].at = "higher" /\ Set(t, Idle) /\ StopSync
     \/ task[t].at = "force" /\ Set(t, Idle) /\ UNCHANGED mode
     \/ task[t].at \in {"tip", "search"} /\ Goto(t, "failed") /\ UNCHANGED mode
     \/ /\ task[t].at = "fetch"
        /\ \E h \in Requested(task[t]) :
             Set(t, Counted([task[t] EXCEPT !.pending = @ \ {h}]))
        /\ UNCHANGED mode
  /\ UNCHANGED <<plan, local, peerHeight>>

-----------------------------------------------------------------------------
\* The peers

PeerGrows(p) ==
  /\ peerHeight[p] < plan.limits[p]
  /\ peerHeight' = [peerHeight EXCEPT ![p] = @ + 1]
  /\ UNCHANGED <<plan, local, mode, task>>

\* Its tip arrives by gossip and follows ours, or replaces our tip: the latter
\* through performReorg, which computes the account state anew.
Gossip(p) ==
  /\ peerHeight[p] > 0
  /\ LET b == Chain[p][peerHeight[p]]
     IN  \/ Follows(b) /\ Valid(b) /\ Extend(b, task)
         \/ /\ Height > 0 /\ b \notin Invalid
            /\ <<b, chain[Height]>> \in Better
            /\ Path[b] = Append(SubSeq(chain, 1, Height - 1), b)
            /\ Extend(b, task)
  /\ UNCHANGED <<plan, peerHeight>>

-----------------------------------------------------------------------------
Step(t) ==
  \/ Check(t) \/ AskHeight(t) \/ ContinueWithHigherPeer(t) \/ ForceStart(t)
  \/ Begin(t) \/ CompareTips(t) \/ Search(t) \/ Truncate(t)
  \/ Fetch(t) \/ Add(t) \/ Fetched(t) \/ Ended(t) \/ Failed(t)

Next ==
  \/ \E t \in Threads :
       \/ Step(t) \/ FastSyncCheck(t) \/ ForceSync(t) \/ Unanswered(t)
       \/ ForceInitialSync(t) \/ PeriodicSyncCheck(t)
       \/ \E p \in Peers : SyncIfBehind(t, p)
  \/ \E p \in Peers : PeerGrows(p) \/ Gossip(p)

Spec == Init /\ [][Next]_vars

\* A goroutine goes on, and FastSyncCheck has a ticker.
Fairness ==
  /\ \A t \in Threads : WF_vars(Step(t))
  /\ SF_vars(\E t \in Threads : FastSyncCheck(t))

FairSpec == Spec /\ Fairness

-----------------------------------------------------------------------------
\* Properties

Tasks ==
  [at : {"idle", "check", "ask", "higher", "force", "begin", "tip", "search",
         "truncate", "fetch", "add", "ended", "failed"},
   kind : Kinds, peer : Peers, goal : Nat, height : Nat, low : Nat,
   high : Nat \cup {-1}, ancestor : Nat, pending : SUBSET Nat,
   fetched : SUBSET Nat, failures : 0..MaxFailures, next : Nat,
   steady : BOOLEAN]

FetchOK(r) ==
  /\ r.pending \subseteq (r.ancestor + 1)..r.goal
  /\ r.fetched \subseteq 1..Len(Chain[r.peer])

TypeOK ==
  /\ chain \in Seq(Blocks) /\ state \in Seq(Blocks)
  /\ syncing \in BOOLEAN /\ target \in Nat
  /\ plan \in Beginnings /\ peerHeight \in [Peers -> Nat]
  /\ \A p \in Peers : peerHeight[p] <= Len(Chain[p])
  /\ task \in [Threads -> Tasks]
  /\ \A t \in Threads : FetchOK(task[t])

Running == {"begin", "tip", "search", "truncate", "fetch", "add", "ended",
            "failed", "higher"}

\* Sync mode is on and no goroutine is left that will end it.  All periodic
\* checks, mining and announced blocks wait for its end.
Abandoned == syncing /\ \A t \in Threads : task[t].at \notin Running

\* Several syncs share one flag, each sets and clears it, and a sync may find
\* that another one has done its work.  Unless forceSync was called, which
\* leaves sync mode on after an error, a sync that ends it is always on its way.
AbandonedOnlyByForce ==
  [](\A t \in Threads : task[t].kind # "force") => []~Abandoned

\* A truncation for a peer leaves what the node shares with it and drops
\* nothing else, unless the chain changed since the search began.
TruncatesAtFork ==
  [][\A t \in Threads : Truncate(t) /\ chain' # chain /\ task[t].steady =>
       LET p == task[t].peer
           h == Len(chain')
       IN  /\ chain' = SubSeq(Chain[p], 1, h)
           /\ chain[h + 1] # Chain[p][h + 1]]_vars

\* Every block follows the one below it.
Linked(c) == \A i \in 1..Len(c) : Path[c[i]] = SubSeq(c, 1, i)

\* The goroutine will clear the flag, or begin another sync, before it stops.
EndsSync(r) ==
  /\ r.at \in Running
  /\ r.at = "ended" => Height >= r.goal

SyncAttended == syncing => \E t \in Threads : EndsSync(task[t])

Shared(p, h) ==
  h > 0 => h <= Height /\ h <= Len(Chain[p]) /\ chain[h] = Chain[p][h]

Differs(p, h) == h > 0 /\ chain[h] # Chain[p][h]

Searching == {"tip", "search", "truncate"}

\* What the search has found, if the chain did not change: the ancestor is
\* shared, and above high the chains differ.
SearchInOrder(r) ==
  /\ r.at \in {"check", "ask", "higher", "force", "begin", "tip"} =>
       r.low = 0 /\ r.high = 0 /\ r.ancestor = 0
  /\ r.at \in {"check", "ask", "higher", "force", "begin"} \cup Searching =>
       r.pending = {} /\ r.fetched = {}
  /\ r.at \in Searching /\ r.steady => Height = r.height
  /\ r.at = "search" =>
       /\ r.ancestor <= r.high /\ r.high <= r.height
       /\ (r.low = 0 /\ r.ancestor = 0) \/ r.low = r.ancestor + 1
       /\ r.steady => /\ Shared(r.peer, r.ancestor) /\ Differs(r.peer, r.height)
                      /\ r.high < r.height => Differs(r.peer, r.high + 1)
  /\ r.at = "truncate" /\ r.steady /\ r.ancestor # r.height =>
       Shared(r.peer, r.ancestor) /\ Differs(r.peer, r.ancestor + 1)

SyncInvariant ==
  /\ TypeOK
  /\ Linked(chain)
  /\ \A t \in Threads : SearchInOrder(task[t])

\* A peer's chain is longer by more than the gap that does not matter; to a
\* node at genesis every gap does.
FarBehind ==
  \E p \in Peers :
    \/ Claim(p) - Height > Threshold
    \/ Height = 0 /\ Claim(p) > 0

\* A node that has not been truncated catches up, whoever else starts a sync
\* and when, if in the end requests are answered and forceSync is not called.
CatchesUp ==
  /\ <>[][~\E t \in Threads : Unanswered(t) \/ ForceSync(t)]_vars
  /\ []<>~Abandoned
  /\ [](state = chain)
  => []<>~FarBehind

=============================================================================
