------------------------------ MODULE MCGossip ------------------------------
(***************************************************************************)
(* What the nodes tell each other again and again, for model checking in   *)
(* one run: the list of kings, and transactions; and the connections of    *)
(* one node.  They share nothing, and each is explored by itself: in a     *)
(* behaviour only what service names moves.                                *)
(***************************************************************************)
EXTENDS TxGossip

\* The constants of KingGossip.
CONSTANTS
  KingNodes, KingNames, KingDefault, KingPoor, KingBeginnings, KingMaxHeight,
  KingRotations, KingMaxBatch, KingStaleWindow, KingFutureWindow,
  KingMaxInFlight

\* The constants of PeerLinks.
CONSTANTS LinkPeers, LinkBootstrap, LinkMaxPeers, LinkPlans

ASSUME LinkAssumption ==
  /\ IsFiniteSet(LinkPeers) /\ LinkBootstrap \in Seq(LinkPeers)
  /\ LinkMaxPeers \in Nat
  /\ \A q \in LinkPlans : q.min \in Nat /\ q.found \subseteq LinkPeers

ASSUME KingAssumption ==
  /\ IsFiniteSet(KingNodes) /\ IsFiniteSet(KingNames)
  /\ KingDefault \in Seq(KingNames)
  /\ {KingMaxHeight, KingMaxBatch, KingStaleWindow, KingFutureWindow} \subseteq Nat
  /\ KingRotations \subseteq Nat
  /\ \A b \in KingBeginnings :
       /\ b.list \in [KingNodes -> Seq(KingNames)]
       /\ b.height \in [KingNodes -> Nat] /\ b.synced \in [KingNodes -> Nat]
       /\ b.events \in [KingNodes -> SUBSET Nat] /\ b.local \in [KingNodes -> SUBSET Nat]
       /\ \A n \in KingNodes : \A h \in b.local[n] : h <= b.height[n]

VARIABLES
  service,
  kingList, kingTodo, kingTimer, kingNet, kingCache, kingChecker, kingWriter,
  kingHeight, kingSynced, kingEvents, kingLocal, kingTicks, kingReverts,
  kingCovered, kingPassed, kingAttempt,
  linkPlan, linkPeers, linkReachable, linkBanned, linkClosing, linkConnected, linkDials, linkPc, linkBoot, linkCount, linkNoPeers

txVars == vars

kingVars ==
  <<kingList, kingTodo, kingTimer, kingNet, kingCache, kingChecker,
    kingWriter, kingHeight, kingSynced, kingEvents, kingLocal, kingTicks,
    kingReverts, kingCovered, kingPassed, kingAttempt>>

linkVars ==
  <<linkPlan, linkPeers, linkReachable, linkBanned, linkClosing,
    linkConnected, linkDials, linkPc, linkBoot, linkCount, linkNoPeers>>

-----------------------------------------------------------------------------
\* Two nodes with lists of kings, of which k3 is to be cleaned up: one list a
\* part of the other, with some history to sync; two lists to be merged, with k3
\* in one; a list short enough for an emergency; two orders of the same kings,
\* with a check to come and all history to sync; one list, with a periodic sync;
\* one list, with SyncBlocks of the first block late; one list, with the last
\* block of a node taken back before SyncBlocks of it, and another in its place.

KingStart(l1, l2, h1, s1, local1, ticks, checks, reverts) ==
  [list |-> [n1 |-> l1, n2 |-> l2], height |-> [n1 |-> h1, n2 |-> 3],
   synced |-> [n1 |-> s1, n2 |-> 3], events |-> [n1 |-> {}, n2 |-> {1, 3}],
   local |-> [n1 |-> local1, n2 |-> {}], ticks |-> ticks, checks |-> checks,
   reverts |-> reverts]

MainKing == <<"k1">>

FewBeginnings ==
  { KingStart(<<"k1", "k2">>, <<"k1", "k2", "k4">>, 3, 2, {}, 0, {}, 0),
    KingStart(<<"k1", "k2">>, <<"k1", "k3">>, 3, 3, {}, 0, {}, 0),
    KingStart(<<"k1">>, <<"k2", "k1">>, 3, 3, {}, 0, {}, 0),
    KingStart(<<"k1", "k2">>, <<"k2", "k1">>, 3, 0, {}, 0, {"n1"}, 0),
    KingStart(<<"k1", "k2">>, <<"k1", "k2">>, 3, 2, {}, 1, {}, 0),
    KingStart(<<"k1", "k2">>, <<"k1", "k2">>, 3, 2, {1}, 0, {}, 0),
    KingStart(<<"k1", "k2">>, <<"k1", "k2">>, 3, 2, {3}, 0, {}, 1) }

Kings == INSTANCE KingGossip WITH
  Nodes <- KingNodes, Kings <- KingNames, DefaultList <- KingDefault,
  Poor <- KingPoor, Beginnings <- KingBeginnings, MaxHeight <- KingMaxHeight,
  MaxBatch <- KingMaxBatch, Rotations <- KingRotations, StaleWindow <- KingStaleWindow,
  FutureWindow <- KingFutureWindow,
  MaxInFlight <- KingMaxInFlight, list <- kingList, todo <- kingTodo,
  timer <- kingTimer, net <- kingNet, cache <- kingCache,
  checker <- kingChecker, writer <- kingWriter, height <- kingHeight,
  synced <- kingSynced, events <- kingEvents, local <- kingLocal,
  ticks <- kingTicks, reverts <- kingReverts, covered <- kingCovered,
  passed <- kingPassed, attempt <- kingAttempt

-----------------------------------------------------------------------------
\* Transactions of two nodes: one that is lost again and again; one that is
\* replaced while the other node mines the first; two in a row, of which the
\* second may overtake the first.

MCPlan(next, a, b, miners, lossy) ==
  [nonce |-> [t |-> 0, u |-> next], sends |-> [a |-> a, b |-> b],
   miners |-> miners, lossy |-> lossy]

MCPlans ==
  {MCPlan(0, {"t"}, {}, {}, TRUE), MCPlan(0, {"t", "u"}, {}, {"b"}, FALSE),
   MCPlan(1, {"t", "u"}, {}, {}, FALSE)}

-----------------------------------------------------------------------------
\* Room for one of two peers: they come and go, one is banned and found again, or
\* they connect by themselves.

LinkList == <<"p", "q">>

LinkPlan(has, found) == [has |-> has, min |-> 1, found |-> found]

FewLinkPlans ==
  {LinkPlan({"flaky"}, {"q"}), LinkPlan({"ban"}, {"p"}), LinkPlan({"inbound"}, {"p", "q"})}

Links == INSTANCE PeerLinks WITH
  Peers <- LinkPeers, BootstrapPeers <- LinkBootstrap, MaxPeers <- LinkMaxPeers,
  Plans <- LinkPlans, plan <- linkPlan, peers <- linkPeers,
  reachable <- linkReachable, banned <- linkBanned, closing <- linkClosing,
  connected <- linkConnected, dials <- linkDials, pc <- linkPc,
  boot <- linkBoot, peerCount <- linkCount, noPeerStartTime <- linkNoPeers

-----------------------------------------------------------------------------

Some(plans) == CHOOSE p \in plans : TRUE

\* What does not move starts in one state.
GossipInit ==
  /\ service \in {"kings", "transactions", "links"}
  /\ Kings!Init
  /\ service # "kings" =>
       /\ kingList = Some(KingBeginnings).list
       /\ kingHeight = Some(KingBeginnings).height
  /\ Init /\ (service # "transactions" => plan = Some(MCPlans))
  /\ Links!Init /\ (service # "links" => linkPlan = Some(LinkPlans))

GossipNext ==
  \/ /\ service = "kings" /\ Kings!Next
     /\ UNCHANGED <<service, txVars, linkVars>>
  \/ /\ service = "transactions" /\ Next
     /\ UNCHANGED <<service, kingVars, linkVars>>
  \/ /\ service = "links" /\ Links!Next
     /\ UNCHANGED <<service, kingVars, txVars>>

\* Each property of a part that needs fairness assumes that part's own, of its own
\* behaviours.
GossipSpec ==
  GossipInit /\ [][GossipNext]_<<service, kingVars, txVars, linkVars>>

-----------------------------------------------------------------------------
\* Properties

\* Kings are forgotten, and blocks passed over, for known causes only (see
\* KingGossip).
KingsLostKnown == Kings!KingForgottenOnlyIf /\ Kings!NoBlockPassedOver

\* Nodes end up with the same kings (see KingGossip).
ListsAgree == service = "kings" /\ Kings!Fairness => Kings!ListsAgree

\* A database sync ends (see KingGossip).
AttemptEnds == service = "kings" /\ Kings!Fairness => Kings!AttemptEnds

\* A pending transaction reaches every pool that does not refuse it (see
\* TxGossip).
TransactionsSpread ==
  service = "transactions" /\ Fairness => SpreadsUnlessRefused

\* A node does not stay without peers, with too many, or with a banned one (see
\* PeerLinks).
LinksHold ==
  /\ service = "links" /\ Links!Fairness => Links!NotIsolated /\ Links!ExcessPruned
  /\ Links!PruningKeepsOne /\ [][Links!BannedLeave']_linkVars

=============================================================================
