------------------------------ MODULE PeerBans ------------------------------
(***************************************************************************)
(* The ban managers of several honest nodes: what each of them checks of a *)
(* gossiped block, of a direct push and of a sync request before the node  *)
(* handles it, and what becomes of the node when a check fails.            *)
(*                                                                         *)
(* Violations are recorded with bm.mu held, and the ban that may follow    *)
(* asks for bm.mu again: it never returns, and neither does any goroutine  *)
(* that asks for bm.mu later.  Such a node still mines and still asks      *)
(* others for blocks.                                                      *)
(*                                                                         *)
(* A node's chain is its height; which block of a height a peer serves is  *)
(* left open.  Messages are well-formed.  The limits that                  *)
(* allowBlockFromPeer counts by are above those of the ban manager.        *)
(***************************************************************************)
EXTENDS Integers, FiniteSets

CONSTANTS
  Plans,                  \* see plan
  Word,                   \* uint64 arithmetic is modulo Word
  Horizon,                \* 100 blocks
  MaxViolations,
  RateLimitMessages,      \* messages and streams in one second
  RateLimitBlocks         \* gossiped blocks in one minute

VARIABLES
  plan,           \* the heights the nodes start at and those they mine, the
                  \* checkpoint above genesis in the file of each, whether
                  \* messages are so dense that the limits matter, whether
                  \* peers open several connections, and the heights of blocks
                  \* that are legal but beyond what a message may carry
  height,
  known,          \* blocks it has seen, and has passed on
  inbox,          \* messages under way to it
  apart,          \* peers it has closed its connections to
  lock,           \* bm.mu: free, or held for ever
  counter,        \* violationCounter
  banned,         \* bannedPeers
  lately,         \* lastMessages: how many in the last second
  blocksLately    \* blockTimestamps: how many in the last minute

netVars == <<height, known, inbox, apart>>
banVars == <<lock, counter, banned>>
rateVars == <<lately, blocksLately>>
vars == <<plan, netVars, banVars, rateVars>>

Nodes == DOMAIN plan.start

\* A ban is announced to the others as a block, which then has no header.
Notice == [height |-> 0, miner |-> "notice"]

NoPin == [height |-> 0, miner |-> "none"]

NoneCounted == [n \in Nodes |-> [p \in Nodes |-> 0]]

Init ==
  /\ plan \in Plans
  /\ height = plan.start
  /\ known = [n \in Nodes |-> {}]
  /\ inbox = [n \in Nodes |-> {}]
  /\ apart = [n \in Nodes |-> {}]
  /\ lock = [n \in Nodes |-> "free"]
  /\ counter = NoneCounted
  /\ banned = [n \in Nodes |-> {}]
  /\ lately = NoneCounted /\ blocksLately = NoneCounted

-----------------------------------------------------------------------------
\* Sending

Linked(n, p) == n # p /\ p \notin apart[n] /\ n \notin apart[p]

Gossip(n, b) == [via |-> "gossip", from |-> n, block |-> b]

Push(n, b) == [via |-> "direct", from |-> n, block |-> b]

\* directPushMessage to all peers but one.
Pushed(n, b, except) ==
  [p \in Nodes |-> IF Linked(n, p) /\ p # except THEN {Push(n, b)} ELSE {}]

\* inbox, with a message from n to every other node.
ToAll(n, m) == [p \in Nodes |-> IF p = n THEN inbox[p] ELSE inbox[p] \cup {m}]

Contradicts(n, b) ==
  b.height = plan.pinned[n].height /\ b.miner # plan.pinned[n].miner

Large(b) == b.height \in plan.large

\* A new block of the node's own: gossip reaches every node unless the block is
\* too large for it, pushes its peers.  One that contradicts the node's own
\* checkpoints stays with it.
BroadcastBlock(n) ==
  /\ height[n] + 1 \in plan.mines[n]
  /\ LET b == [height |-> height[n] + 1, miner |-> n]
         gossip == IF Large(b) THEN inbox ELSE ToAll(n, Gossip(n, b))
     IN IF Contradicts(n, b)
          THEN UNCHANGED <<known, inbox>>
          ELSE /\ known' = [known EXCEPT ![n] = @ \cup {b}]
               /\ inbox' = [p \in Nodes |-> gossip[p] \cup Pushed(n, b, n)[p]]
  /\ height' = [height EXCEPT ![n] = @ + 1]
  /\ UNCHANGED <<plan, apart, banVars, rateVars>>

-----------------------------------------------------------------------------
\* Violations and bans

Severe(kind) == kind \in {"no_header", "old"}

\* What RecordViolation decides once it has counted this one.
ShouldBan(n, p, kind) ==
  \/ kind = "checkpoint" \/ Severe(kind)
  \/ counter[n][p] + 1 >= MaxViolations

\* Mutant: the ban is made with the lock that is held already.
RecordAndBan(n, p, kind) ==
  IF ShouldBan(n, p, kind)
    THEN /\ banned' = [banned EXCEPT ![n] = @ \cup {p}]
         /\ counter' = [counter EXCEPT ![n][p] = 0]
         /\ UNCHANGED lock
    ELSE /\ counter' = [counter EXCEPT ![n][p] = @ + 1]
         /\ UNCHANGED <<lock, banned>>

RecordViolation(n, p, kind) ==
  /\ lock' = IF ShouldBan(n, p, kind) THEN [lock EXCEPT ![n] = "lost"] ELSE lock
  /\ counter' = [counter EXCEPT ![n][p] = IF kind = "checkpoint" THEN @ ELSE @ + 1]
  /\ UNCHANGED banned

\* BanPeer for a caller that does not hold bm.mu.  The notice goes to all.
BanPeer(n, p) ==
  /\ banned' = [banned EXCEPT ![n] = @ \cup {p}]
  /\ counter' = [counter EXCEPT ![n][p] = 0]
  /\ apart' = [apart EXCEPT ![n] = @ \cup {p}]
  /\ UNCHANGED lock

-----------------------------------------------------------------------------
\* Receiving

\* Mutant: half the horizon.
OldBlockEarly(b, h) == b.height < (h - Horizon + 1) % Word

OldBlock(b, h) == b.height < (h - Horizon) % Word

FutureBlock(b, h) == b.height > h + Horizon

\* CheckMessageWithCheckpoints for a block: the violation it finds.
Verdict(n, m) ==
  LET b == m.block
      h == height[n]
  IN
    CASE lately[n][m.from] >= RateLimitMessages -> "rate"
      [] b = Notice -> "no_header"
      [] Contradicts(n, b) -> "checkpoint"
      [] OldBlock(b, h) -> "old"
      [] FutureBlock(b, h) -> "future"
      [] blocksLately[n][m.from] >= RateLimitBlocks -> "spam"
      [] OTHER -> "none"

\* The node takes the block if it is next, and passes it on if it is new.
HandleBlock(n, m) ==
  LET b == m.block IN
    /\ height' = [height EXCEPT ![n] = IF b.height = @ + 1 THEN @ + 1 ELSE @]
    /\ known' = [known EXCEPT ![n] = @ \cup {b}]
    /\ inbox' = [p \in Nodes |->
         (inbox[p] \cup IF b \in known[n] THEN {} ELSE Pushed(n, b, m.from)[p])
           \ IF p = n THEN {m} ELSE {}]
    /\ UNCHANGED apart

Discard(n, m) ==
  /\ inbox' = [inbox EXCEPT ![n] = @ \ {m}]
  /\ UNCHANGED <<height, known, apart>>

\* checkRateLimit counts what it refuses, too; here, up to the limit.
Counted(n, p) ==
  IF plan.dense /\ lately[n][p] < RateLimitMessages
    THEN [lately EXCEPT ![n][p] = @ + 1] ELSE lately

BlockCounted(n, p) ==
  IF plan.dense /\ blocksLately[n][p] < RateLimitBlocks
    THEN [blocksLately EXCEPT ![n][p] = @ + 1] ELSE blocksLately

\* Only the chain and the checkpoint file outlive the process.
StartAgain(n) ==
  /\ known' = [known EXCEPT ![n] = {}]
  /\ inbox' = [inbox EXCEPT ![n] = {}]
  /\ apart' = [apart EXCEPT ![n] = {}]
  /\ lock' = [lock EXCEPT ![n] = "free"]
  /\ counter' = [counter EXCEPT ![n] = NoneCounted[n]]
  /\ banned' = [banned EXCEPT ![n] = {}]
  /\ lately' = [lately EXCEPT ![n] = NoneCounted[n]]
  /\ blocksLately' = [blocksLately EXCEPT ![n] = NoneCounted[n]]
  /\ UNCHANGED <<plan, height>>

\* Nothing is checked of a message whose author is banned: it is handled, and
\* one without a header brings the node down.
HandleFromBanned(n) == \E m \in inbox[n] :
  /\ lock[n] = "free"
  /\ m.via = "gossip" /\ m.from \in banned[n]
  /\ IF m.block = Notice
       THEN StartAgain(n)
       ELSE HandleBlock(n, m) /\ UNCHANGED <<plan, banVars, rateVars>>

\* handleMessages, for a message of an author who is not banned.
HandleMessage(n) == \E m \in inbox[n] :
  /\ lock[n] = "free"
  /\ m.via = "gossip" /\ m.from \notin banned[n]
  /\ lately' = Counted(n, m.from)
  /\ IF Verdict(n, m) = "none"
       THEN /\ HandleBlock(n, m)
            /\ UNCHANGED <<lock, counter, banned>>
       ELSE /\ RecordViolation(n, m.from, Verdict(n, m))
            /\ Discard(n, m)
  /\ blocksLately' =
       IF Verdict(n, m) \in {"none", "spam"} THEN BlockCounted(n, m.from) ELSE blocksLately
  /\ UNCHANGED plan

\* BanPeer, and the notice of it, of a message or an answer.
BanAndAnnounce(n, p, m) ==
  /\ BanPeer(n, p)
  /\ inbox' = [ToAll(n, Gossip(n, Notice)) EXCEPT ![n] = @ \ m]
  /\ UNCHANGED <<height, known>>

\* handleDirectPush.  A contradiction bans at once, without a record.
HandleDirectPush(n) == \E m \in inbox[n] :
  /\ lock[n] = "free"
  /\ m.via = "direct"
  /\ IF m.from \in banned[n]
       THEN Discard(n, m) /\ UNCHANGED <<lock, counter, banned, lately>>
     ELSE IF lately[n][m.from] >= RateLimitMessages
       THEN /\ RecordViolation(n, m.from, "rate")
            /\ Discard(n, m)
            /\ lately' = Counted(n, m.from)
     ELSE IF Large(m.block)
       THEN /\ RecordViolation(n, m.from, "oversized")
            /\ Discard(n, m)
            /\ lately' = Counted(n, m.from)
     ELSE IF Contradicts(n, m.block)
       THEN /\ BanAndAnnounce(n, m.from, {m})
            /\ lately' = Counted(n, m.from)
     ELSE /\ HandleBlock(n, m)
          /\ lately' = Counted(n, m.from)
          /\ UNCHANGED <<lock, counter, banned>>
  /\ UNCHANGED <<plan, blocksLately>>

\* A request for the next block, which handleStream answers unless it hangs or
\* refuses; it has nothing that contradicts the peer's own checkpoints.  An
\* answer that is too long or contradicts those of the node bans at once.
RequestBlockSync(n) == \E p, miner \in Nodes :
  LET b == [height |-> height[n] + 1, miner |-> miner] IN
    /\ Linked(n, p)
    /\ height[p] > height[n]
    /\ lock[p] = "free"
    /\ n \notin banned[p]
    /\ lately' = Counted(p, n)
    /\ IF lately[p][n] >= RateLimitMessages
         THEN RecordViolation(p, n, "rate") /\ UNCHANGED netVars
       ELSE IF Contradicts(p, b)
         THEN UNCHANGED <<netVars, banVars>>
       ELSE IF Large(b) \/ Contradicts(n, b)
         THEN lock[n] = "free" /\ BanAndAnnounce(n, p, {})
       ELSE /\ height' = [height EXCEPT ![n] = @ + 1]
            /\ UNCHANGED <<known, inbox, apart, banVars>>
    /\ UNCHANGED <<plan, blocksLately>>

\* checkPeerConnections and handlePeerConnected count a violation of a peer that
\* keeps more than three connections.  (Its other violation, at twice the limit
\* of messages, does not occur: a second with so many has more violations than
\* the ban manager survives.)
CheckPeerConnections(n) == \E p \in Nodes :
  /\ plan.floods
  /\ Linked(n, p)
  /\ lock[n] = "free"
  /\ RecordViolation(n, p, "flood")
  /\ UNCHANGED <<plan, netVars, rateVars>>

-----------------------------------------------------------------------------
\* Time

SecondPasses ==
  /\ lately # NoneCounted
  /\ lately' = NoneCounted
  /\ UNCHANGED <<plan, netVars, banVars, blocksLately>>

MinutePasses ==
  /\ blocksLately # NoneCounted
  /\ lately' = NoneCounted /\ blocksLately' = NoneCounted
  /\ UNCHANGED <<plan, netVars, banVars>>

\* IsBanned and cleanupExpiredBans forget a ban of an hour ago, and the node
\* connects again.
BanExpires(n) == \E p \in banned[n] :
  /\ lock[n] = "free"
  /\ banned' = [banned EXCEPT ![n] = @ \ {p}]
  /\ counter' = [counter EXCEPT ![n][p] = 0]
  /\ apart' = [apart EXCEPT ![n] = @ \ {p}]
  /\ UNCHANGED <<plan, height, known, inbox, lock, rateVars>>

\* Somebody restarts a node that hangs.
Restart(n) == lock[n] = "lost" /\ StartAgain(n)

Next ==
  \/ \E n \in Nodes :
       \/ BroadcastBlock(n)
       \/ HandleFromBanned(n) \/ HandleMessage(n) \/ HandleDirectPush(n)
       \/ RequestBlockSync(n) \/ CheckPeerConnections(n)
       \/ BanExpires(n) \/ Restart(n)
  \/ SecondPasses \/ MinutePasses

Spec == Init /\ [][Next]_vars

-----------------------------------------------------------------------------
\* Properties

\* A node that accuses a peer of rewriting history, on its first offence, was
\* sent a block from more than a horizon below its tip, or is below the horizon
\* itself, where the difference wraps and every block is old.  (The comment of
\* checkBlockMessageWithCheckpoints: "very old blocks".)
AccusedOfOldBlocksOnly ==
  [][\A n \in Nodes : \A m \in inbox[n] \ inbox'[n] :
       /\ lock[n] = "free" /\ lock'[n] = "lost"
       /\ m.via = "gossip" /\ m.block # Notice /\ ~Contradicts(n, m.block)
       /\ counter[n][m.from] + 1 < MaxViolations
       => m.block.height + Horizon < height[n] \/ height[n] < Horizon]_vars

\* Whatever peers do too often, too early or too late, and however many
\* connections they open, nobody is banned but where a checkpoint can be
\* contradicted or a block outgrow an answer: every other ban hangs before it
\* is made.  (RecordViolation and BanPeer.)
BansForKnownCauses ==
  \A n \in Nodes : banned[n] # {} => plan.pinned[n] # NoPin \/ plan.large # {}

-----------------------------------------------------------------------------
\* The invariant behind the properties

\* Genesis is nobody's block, which tells the others from a notice.
Blocks == [height : Nat \ {0}, miner : Nodes]

\* Only gossip carries notices.
Messages ==
  {m \in [via : {"gossip", "direct"}, from : Nodes, block : Blocks \cup {Notice}] :
     m.via = "direct" => m.block \in Blocks}

TypeOK ==
  /\ plan \in Plans
  /\ height \in [Nodes -> Nat]
  /\ known \in [Nodes -> SUBSET Blocks]
  /\ inbox \in [Nodes -> SUBSET Messages]
  /\ lock \in [Nodes -> {"free", "lost"}]
  /\ counter \in [Nodes -> [Nodes -> Nat]]
  /\ banned \in [Nodes -> SUBSET Nodes]

=============================================================================
