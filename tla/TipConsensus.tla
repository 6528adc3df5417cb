---------------------------- MODULE TipConsensus ----------------------------
(***************************************************************************)
(* How the tips of several nodes come together: announced blocks and their *)
(* relay, the p2p node's choice between two blocks of one height before it *)
(* hands one to the chain, and the comparison of tips that a miner makes   *)
(* before it builds on its own.                                            *)
(*                                                                         *)
(* Every block here is valid.  What the chain does with a block is in      *)
(* ReorgManager, and a fast sync is in FastSync; here each is one step.    *)
(* The p2p node's own orphan pool is written and never read, and so are    *)
(* the mined candidates, but for a log line: both are left out.  A block   *)
(* stays in knownBlocks longer than any of its announcements is under way. *)
(***************************************************************************)
EXTENDS BlockTree

CONSTANTS
  Nodes,
  Plans,            \* see plan
  Threshold         \* a gap that the periodic sync check ignores

VARIABLES
  plan,             \* the nodes that are up, the blocks that each mines before
                    \* it is told to stop, and what may happen: heights mined
                    \* before announcements arrive ("burst"), announcements
                    \* and answers lost ("loss"), miners that no peer answers
                    \* ("silent"), and rounds that find nothing ("barren")
  tip,              \* bc.latest of each node
  stored,           \* the blocks in its database
  spoilt,           \* its account state is not the tip's
  cut,              \* a sync cut its chain in this round of mining (history)
  known,            \* knownBlocks
  inbox,            \* announcements under way to it, with their senders
  behind,           \* an announced block asked for a sync
  loop,             \* its mining loop: idle, asking its peers, mining
  local, todo,      \* the tip when it began to ask, and whom it has to ask
  found             \* the block of that height that each peer gave it

chainVars == <<tip, stored, spoilt, cut>>
askVars == <<local, todo, found>>
vars == <<plan, chainVars, known, inbox, behind, loop, askVars>>

Nothing == [p \in Nodes |-> NoBlock]

Init ==
  /\ plan \in Plans
  /\ tip = [n \in Nodes |-> Genesis]
  /\ stored = [n \in Nodes |-> {Genesis}]
  /\ spoilt = [n \in Nodes |-> FALSE]
  /\ cut = [n \in Nodes |-> FALSE]
  /\ known = [n \in Nodes |-> {}]
  /\ inbox = [n \in Nodes |-> {}]
  /\ behind = [n \in Nodes |-> FALSE]
  /\ loop = [n \in Nodes |-> "idle"]
  /\ local = [n \in Nodes |-> NoBlock]
  /\ todo = [n \in Nodes |-> {}]
  /\ found = [n \in Nodes |-> Nothing]

-----------------------------------------------------------------------------
\* The chain of a node

Canonical(n) == {Ancestor(tip[n], h) : h \in 0..Height(tip[n])}

Keep == UNCHANGED chainVars

MoveTo(n, b) ==
  /\ tip' = [tip EXCEPT ![n] = b]
  /\ stored' = [stored EXCEPT ![n] = @ \cup {Ancestor(b, h) : h \in 1..Height(b)}]
  /\ UNCHANGED cut

\* A block on the tip.  It executes on the tip's account state only.
Extend(n, b) ==
  IF spoilt[n] THEN Keep ELSE MoveTo(n, b) /\ UNCHANGED spoilt

\* ProcessRemoteBlock for a block beside the chain: a branch with more work
\* takes over, and its reorganization rebuilds the account state.
Offer(n, b) ==
  IF b \in stored[n] \/ TotalWork(b) <= TotalWork(tip[n])
    THEN Keep
    ELSE MoveTo(n, b) /\ spoilt' = [spoilt EXCEPT ![n] = FALSE]

\* Mutant: the arguments are exchanged.
SelectsWeaker(n, b) ==
  LET h == Height(b) IN
    /\ Parent(b) = Ancestor(tip[n], h - 1)
    /\ IsBetterBlockCandidate(Ancestor(tip[n], h), b)

\* selectProtocolBlock prefers b to the node's own block of that height.  A
\* block on another parent than the node's loses.
Selects(n, b) ==
  LET h == Height(b) IN
    /\ Parent(b) = Ancestor(tip[n], h - 1)
    /\ IsBetterBlockCandidate(b, Ancestor(tip[n], h))

\* triggerSyncToHeight, for a block above the tip.
AskForSync(n) == behind' = [behind EXCEPT ![n] = TRUE]

-----------------------------------------------------------------------------
\* processBlock, by what the node has of the block and of its parent

AlreadyInChain(n, b) ==
  /\ b \in Canonical(n)
  /\ Keep /\ UNCHANGED behind

DirectExtension(n, b) ==
  /\ Parent(b) = tip[n]
  /\ Extend(n, b) /\ UNCHANGED behind

MissingParent(n, b) ==
  /\ b \notin Canonical(n) /\ Parent(b) \notin stored[n]
  /\ IF Height(b) > Height(tip[n]) THEN AskForSync(n) ELSE UNCHANGED behind
  /\ Keep

SameHeightFork(n, b) ==
  /\ b \notin Canonical(n) /\ Parent(b) \in stored[n]
  /\ Height(b) <= Height(tip[n])
  /\ IF Selects(n, b) THEN Offer(n, b) ELSE Keep
  /\ UNCHANGED behind

\* On a stored block beside the chain.  One above the tip it is only an
\* "unexpected block state".
OnSideBranch(n, b) ==
  /\ Parent(b) \in stored[n] \ {tip[n]}
  /\ Height(b) > Height(tip[n])
  /\ IF Height(b) > Height(tip[n]) + 1 THEN AskForSync(n) ELSE UNCHANGED behind
  /\ Keep

ProcessBlock(n, b) ==
  \/ AlreadyInChain(n, b)
  \/ DirectExtension(n, b)
  \/ MissingParent(n, b)
  \/ SameHeightFork(n, b)
  \/ OnSideBranch(n, b)

-----------------------------------------------------------------------------
\* Announcements

\* BroadcastBlock: gossip and direct pushes to every peer.
Broadcast(n, b) ==
  /\ known' = [known EXCEPT ![n] = @ \cup {b}]
  /\ inbox' = [m \in Nodes |->
                IF m \in plan.nodes \ {n} THEN inbox[m] \cup {<<b, n>>} ELSE inbox[m]]

\* A block that is new to the node goes on to its other peers.
Receive(n) == \E a \in inbox[n] :
  LET b == a[1]
      from == a[2]
  IN
    /\ known' = [known EXCEPT ![n] = @ \cup {b}]
    /\ inbox' = [m \in Nodes |->
                   IF m = n THEN inbox[n] \ {a}
                   ELSE IF b \notin known[n] /\ m \in plan.nodes \ {from}
                     THEN inbox[m] \cup {<<b, n>>}
                   ELSE inbox[m]]
    /\ ProcessBlock(n, b)
    /\ UNCHANGED <<plan, loop, askVars>>

Lose(n) == \E a \in inbox[n] :
  /\ "loss" \in plan.faults
  /\ inbox' = [inbox EXCEPT ![n] = @ \ {a}]
  /\ UNCHANGED <<plan, chainVars, known, behind, loop, askVars>>

\* The height at which two chains part.
CommonHeight(b, c) ==
  CHOOSE h \in 0..Height(b) :
    /\ h <= Height(c) /\ Ancestor(b, h) = Ancestor(c, h)
    /\ h < Height(b) /\ h < Height(c) => Ancestor(b, h + 1) # Ancestor(c, h + 1)

\* A fast sync with a higher peer.  A chain that has to be cut is cut, and
\* then its account state fits no block.
Sync(n) == \E p \in plan.nodes :
  LET h == CommonHeight(tip[n], tip[p]) IN
    /\ Height(tip[p]) > Height(tip[n])
    /\ behind[n] \/ Height(tip[p]) > Height(tip[n]) + Threshold
    /\ IF h = Height(tip[n])
         THEN Extend(n, tip[p])
         ELSE /\ tip' = [tip EXCEPT ![n] = Ancestor(tip[n], h)]
              /\ stored' = [stored EXCEPT ![n] =
                   @ \ {Ancestor(tip[n], i) : i \in (h + 1)..Height(tip[n])}]
              /\ spoilt' = [spoilt EXCEPT ![n] = TRUE]
              /\ cut' = [cut EXCEPT ![n] = TRUE]
    /\ behind' = [behind EXCEPT ![n] = FALSE]
    /\ UNCHANGED <<plan, known, inbox, loop, askVars>>

\* Nobody is higher.
NoSync(n) ==
  /\ behind[n]
  /\ \A p \in plan.nodes : Height(tip[p]) <= Height(tip[n])
  /\ behind' = [behind EXCEPT ![n] = FALSE]
  /\ UNCHANGED <<plan, chainVars, known, inbox, loop, askVars>>

-----------------------------------------------------------------------------
\* The mining loop, with ResolveMiningTipConsensus

ToMine(n) == plan.mines[n] \ UNION {known[m] : m \in Nodes}

BeginToAsk(n) ==
  /\ ToMine(n) # {}
  /\ loop[n] = "idle"
  /\ local' = [local EXCEPT ![n] = tip[n]]
  /\ todo' = [todo EXCEPT ![n] =
       IF tip[n] = Genesis \/ "silent" \in plan.faults THEN {} ELSE plan.nodes \ {n}]
  /\ loop' = [loop EXCEPT ![n] = IF tip[n] = Genesis THEN "mining" ELSE "asking"]
  /\ cut' = [cut EXCEPT ![n] = FALSE]
  /\ UNCHANGED <<plan, tip, stored, spoilt, known, inbox, behind, found>>

\* GetPeerHeight and RequestBlockSync.
Ask(n) == \E p \in todo[n] :
  /\ todo' = [todo EXCEPT ![n] = @ \ {p}]
  /\ IF Height(tip[p]) >= Height(local[n])
       THEN found' = [found EXCEPT ![n][p] = Ancestor(tip[p], Height(local[n]))]
       ELSE UNCHANGED found
  /\ UNCHANGED <<plan, chainVars, known, inbox, behind, loop, local>>

NoAnswer(n) == \E p \in todo[n] :
  /\ "loss" \in plan.faults
  /\ todo' = [todo EXCEPT ![n] = @ \ {p}]
  /\ UNCHANGED <<plan, chainVars, known, inbox, behind, loop, local, found>>

\* What it compares: its own tip and the answers with the same parent.
Candidates(n) ==
  {local[n]} \cup
  {b \in {found[n][p] : p \in Nodes} \ {NoBlock} : Parent(b) = Parent(local[n])}

Strongest(n) ==
  CHOOSE b \in Candidates(n) :
    \A c \in Candidates(n) \ {b} : IsBetterBlockCandidate(b, c)

\* It processes the strongest one if that is not its own.  It announces it
\* again if that is its tip now and some peer has another one.  Errors are
\* logged, and mining goes on.
Compare(n) ==
  /\ loop[n] = "asking" /\ todo[n] = {}
  /\ IF Strongest(n) = local[n]
       THEN Keep /\ UNCHANGED behind
       ELSE ProcessBlock(n, Strongest(n))
  /\ IF /\ Strongest(n) \in {local[n], tip'[n]}
        /\ \E p \in Nodes : found[n][p] \notin {NoBlock, Strongest(n)}
       THEN Broadcast(n, Strongest(n))
       ELSE UNCHANGED <<known, inbox>>
  /\ loop' = [loop EXCEPT ![n] = "mining"]
  /\ UNCHANGED <<plan, askVars>>

EndRound(n) ==
  /\ loop' = [loop EXCEPT ![n] = "idle"]
  /\ local' = [local EXCEPT ![n] = NoBlock]
  /\ found' = [found EXCEPT ![n] = Nothing]
  /\ UNCHANGED <<plan, behind, todo>>

\* A block on the tip.
Mine(n) == \E b \in ToMine(n) :
  /\ loop[n] = "mining" /\ ~spoilt[n]
  /\ Parent(b) = tip[n]
  /\ "burst" \notin plan.faults =>
       \A m \in Nodes : \A a \in inbox[m] : Height(a[1]) >= Height(b)
  /\ Extend(n, b)
  /\ Broadcast(n, b)
  /\ EndRound(n)

FindNothing(n) ==
  /\ "barren" \in plan.faults
  /\ loop[n] = "mining"
  /\ EndRound(n)
  /\ UNCHANGED <<chainVars, known, inbox>>

-----------------------------------------------------------------------------

Next == \E n \in plan.nodes :
  \/ Receive(n) \/ Lose(n) \/ Sync(n) \/ NoSync(n)
  \/ BeginToAsk(n) \/ Ask(n) \/ NoAnswer(n) \/ Compare(n)
  \/ Mine(n) \/ FindNothing(n)

Spec == Init /\ [][Next]_vars

-----------------------------------------------------------------------------
\* Properties

\* When every announcement has arrived, nodes whose competing blocks differ in
\* work have one tip, whoever heard of which block first, from whom, and
\* whatever their miners compared meanwhile.  Difficulties 0 and 1 are the same
\* work: the harder block is selected and then not adopted.  (processBlock, the
\* relay, and ResolveMiningTipConsensus with the work rule of ReorgManager.)
TipsAgree ==
  /\ plan.faults = {}
  /\ \A n \in Nodes : inbox[n] = {}
  /\ \A b, c \in UNION {known[n] : n \in Nodes} :
       b # c /\ Parent(b) = Parent(c) => CalculateBlockWork(b) # CalculateBlockWork(c)
  => \A n, m \in plan.nodes : tip[n] = tip[m]

\* A miner that compared its tip with another block on the same parent mines on
\* a chain with no less work than that block's, whatever arrived while it asked.
\* Of a block on another parent it knows nothing: it may build on a sibling that
\* arrives first.  And a sync that cuts the chain in the same round takes away
\* the blocks above, which may be why the other one was not preferred.
\* (ResolveMiningTipConsensus and the mining loop, which go on after errors.)
MinesOnMostWork == \A n, p \in Nodes :
  LET b == found[n][p] IN
    /\ loop[n] = "mining" /\ b # NoBlock /\ tip[n] # Genesis /\ ~cut[n]
    /\ Parent(b) = Parent(local[n]) /\ Parent(b) = Parent(tip[n])
    => TotalWork(tip[n]) >= TotalWork(b)

=============================================================================
