----------------------------- MODULE PeerLinks -----------------------------
(***************************************************************************)
(* The connections of one node: the bootstrap list, peers found by mDNS    *)
(* and the DHT, peers that connect by themselves, the manager that ticks   *)
(* every 20 seconds, and bans.  How a ban comes about is in PeerBans; the  *)
(* network, libp2p and its own connection manager are the environment,     *)
(* which takes connections away whenever it likes.                         *)
(***************************************************************************)
EXTENDS Integers, Sequences, FiniteSets

CONSTANTS
  Peers,
  BootstrapPeers,       \* a sequence
  MaxPeers,
  Plans                 \* MinPeers, the peers that discovery finds, and what a
                        \* behaviour has: peers that come and go, "flaky",
                        \* that connect, "inbound", a "ban"

VARIABLES
  plan,
  peers,                \* those the node is connected to
  reachable,
  banned, closing,      \* and those that BanPeer's goroutine will close
  connected,            \* connections that handlePeerConnected has yet to see
  dials,                \* discovered peers that are dialled
  pc,                   \* of manageConnections: see the actions
  boot,                 \* bootstrap peers that it waits for
  peerCount,
  noPeerStartTime       \* zero, now, or over 60 seconds ago

banVars == <<banned, closing>>
managerVars == <<pc, boot, peerCount, noPeerStartTime>>
vars == <<plan, peers, reachable, banVars, connected, dials, managerVars>>

-----------------------------------------------------------------------------
\* Bootstrapping

FirstOf(s, n) == {s[i] : i \in 1 .. (IF n < Len(s) THEN n ELSE Len(s))}

\* Always the first of the list, the connected and the banned ones included.
Chosen == FirstOf(BootstrapPeers, MaxPeers - Cardinality(peers))

\* The node starts by waiting for its bootstrap peers.
Init ==
  /\ plan \in Plans
  /\ peers = {} /\ reachable = Peers
  /\ banned = {} /\ closing = {}
  /\ connected = {} /\ dials = {}
  /\ pc = "starting" /\ boot = Chosen
  /\ peerCount = 0 /\ noPeerStartTime = "zero"

\* host.Connect, which does nothing for a peer that is connected.
Connect(p) ==
  /\ peers' = peers \cup {p}
  /\ connected' = IF p \in peers THEN connected ELSE connected \cup {p}

\* A dial ends, with the connection or after ConnectionTimeout.
DialEnds(p) ==
  \/ p \in reachable /\ Connect(p)
  \/ p \notin reachable /\ UNCHANGED <<peers, connected>>

BootstrapDial(p) ==
  /\ p \in boot /\ boot' = boot \ {p}
  /\ DialEnds(p)
  /\ UNCHANGED <<plan, reachable, banVars, dials, pc, peerCount, noPeerStartTime>>

-----------------------------------------------------------------------------
\* Discovery

\* connectDiscoveredPeer, up to the dial.
ConnectDiscoveredPeer(p) ==
  /\ p \in plan.found \ banned /\ Cardinality(peers) < MaxPeers
  /\ dials' = dials \cup {p}
  /\ UNCHANGED <<plan, peers, reachable, banVars, connected, managerVars>>

\* Found by mDNS.
HandlePeerFound(p) == pc # "starting" /\ ConnectDiscoveredPeer(p)

\* One of the providers that the DHT returns, until there are enough peers.
StartDHTDiscovery(p) ==
  /\ pc # "starting" /\ Cardinality(peers) < MaxPeers
  /\ ConnectDiscoveredPeer(p)

DiscoveredDial(p) ==
  /\ p \in dials /\ dials' = dials \ {p}
  /\ DialEnds(p)
  /\ UNCHANGED <<plan, reachable, banVars, managerVars>>

\* A peer that found this node.
Inbound(p) ==
  /\ "inbound" \in plan.has
  /\ p \in reachable \ peers
  /\ Connect(p)
  /\ UNCHANGED <<plan, reachable, banVars, dials, managerVars>>

\* Mutant: bans are not looked at.
LetIn(p) == UNCHANGED peers

\* A banned peer is closed as soon as it has connected.
CloseIfBanned(p) == peers' = IF p \in banned THEN peers \ {p} ELSE peers

HandlePeerConnected(p) ==
  /\ p \in connected /\ connected' = connected \ {p}
  /\ CloseIfBanned(p)
  /\ UNCHANGED <<plan, reachable, banVars, dials, managerVars>>

-----------------------------------------------------------------------------
\* Bans, and what the environment does

BanPeer(p) ==
  /\ "ban" \in plan.has /\ p \in peers \ banned
  /\ banned' = banned \cup {p} /\ closing' = closing \cup {p}
  /\ UNCHANGED <<plan, peers, reachable, connected, dials, managerVars>>

CloseBanned(p) ==
  /\ p \in closing /\ closing' = closing \ {p}
  /\ peers' = peers \ {p}
  /\ UNCHANGED <<plan, reachable, banned, connected, dials, managerVars>>

CleanupExpiredBans(p) ==
  /\ p \in banned /\ banned' = banned \ {p}
  /\ UNCHANGED <<plan, peers, reachable, closing, connected, dials, managerVars>>

Lose(p) ==
  /\ p \in peers /\ peers' = peers \ {p}
  /\ UNCHANGED <<plan, reachable, banVars, connected, dials, managerVars>>

ComeOrGo(p) ==
  /\ "flaky" \in plan.has
  /\ reachable' = IF p \in reachable THEN reachable \ {p} ELSE reachable \cup {p}
  /\ peers' = peers \cap reachable'
  /\ UNCHANGED <<plan, banVars, connected, dials, managerVars>>

-----------------------------------------------------------------------------
\* manageConnections

\* The loop reads the peers once.
Tick ==
  /\ pc = "waiting"
  /\ peerCount' = Cardinality(peers)
  /\ pc' = IF peers = {} /\ noPeerStartTime = "long" THEN "forcing" ELSE "checking"
  /\ noPeerStartTime' = IF peers = {} THEN "now" ELSE "zero"
  /\ UNCHANGED <<plan, peers, reachable, banVars, connected, dials, boot>>

SixtySeconds ==
  /\ noPeerStartTime = "now" /\ noPeerStartTime' = "long"
  /\ UNCHANGED <<plan, peers, reachable, banVars, connected, dials, pc, boot, peerCount>>

\* ForceBootstrap, and the check of the same tick afterwards.
ForceBootstrap ==
  /\ pc = "forcing" /\ pc' = "forced"
  /\ boot' = Chosen
  /\ UNCHANGED <<plan, peers, reachable, banVars, connected, dials, peerCount,
                 noPeerStartTime>>

ForceEnds ==
  /\ pc = "forced" /\ boot = {} /\ pc' = "checking"
  /\ UNCHANGED <<plan, peers, reachable, banVars, connected, dials, boot,
                 peerCount, noPeerStartTime>>

\* Mutant: one too many is let pass.
OneMore(n) == n > MaxPeers + 1

TooMany(n) == n > MaxPeers

CheckPeers ==
  /\ pc = "checking"
  /\ \/ peerCount < plan.min /\ pc' = "booting" /\ boot' = Chosen
     \/ TooMany(peerCount) /\ pc' = "pruning" /\ boot' = boot
     \/ peerCount >= plan.min /\ ~TooMany(peerCount)
          /\ pc' = "waiting" /\ boot' = boot
  /\ UNCHANGED <<plan, peers, reachable, banVars, connected, dials, peerCount,
                 noPeerStartTime>>

BootstrapEnds ==
  /\ pc \in {"starting", "booting"} /\ boot = {} /\ pc' = "waiting"
  /\ UNCHANGED <<plan, peers, reachable, banVars, connected, dials, boot,
                 peerCount, noPeerStartTime>>

\* Mutant: whoever is left is closed.
CloseAnyway(count) ==
  peers' \in {s \in SUBSET peers : Cardinality(s) =
                IF count < Cardinality(peers) THEN Cardinality(peers) - count ELSE 0}

\* Any of the peers that there are now, but not all of them.
CloseExcess(count) ==
  \/ Cardinality(peers) <= count /\ UNCHANGED peers
  \/ /\ Cardinality(peers) > count
     /\ peers' \in {s \in SUBSET peers : Cardinality(s) = Cardinality(peers) - count}

PruneConnections ==
  /\ pc = "pruning" /\ pc' = "waiting"
  /\ CloseExcess(peerCount - MaxPeers)
  /\ UNCHANGED <<plan, reachable, banVars, connected, dials, boot, peerCount,
                 noPeerStartTime>>

Manager ==
  \/ Tick \/ ForceBootstrap \/ ForceEnds \/ CheckPeers \/ BootstrapEnds
  \/ PruneConnections

Served(p) ==
  BootstrapDial(p) \/ DiscoveredDial(p) \/ HandlePeerConnected(p) \/ CloseBanned(p)

Next ==
  \/ Manager \/ SixtySeconds
  \/ \E p \in Peers :
       \/ Served(p) \/ HandlePeerFound(p) \/ StartDHTDiscovery(p)
       \/ Inbound(p) \/ BanPeer(p) \/ CleanupExpiredBans(p)
       \/ Lose(p) \/ ComeOrGo(p)

\* The ticker ticks, time passes, dials time out, and goroutines are run.
Fairness ==
  /\ WF_vars(Manager) /\ WF_vars(SixtySeconds)
  /\ \A p \in Peers :
       /\ WF_vars(BootstrapDial(p)) /\ WF_vars(DiscoveredDial(p))
       /\ WF_vars(HandlePeerConnected(p)) /\ WF_vars(CloseBanned(p))

Spec == Init /\ [][Next]_vars /\ Fairness

-----------------------------------------------------------------------------
\* Properties

\* While one of the bootstrap peers that are tried stays within reach and is not
\* banned, the node has a peer again and again, whatever it loses.
NotIsolated ==
  \A p \in FirstOf(BootstrapPeers, MaxPeers) :
    <>[](p \in reachable \ banned) => []<>(peers # {})

\* When no more connections come, there are not too many in the end, although
\* dials under way at the same time overshoot.
ExcessPruned ==
  <>[][peers' \subseteq peers]_vars => <>[](Cardinality(peers) <= MaxPeers)

\* Whoever dials a banned peer and whenever: while it is connected, a goroutine
\* is under way that will close it.
BannedLeave == peers \cap banned \subseteq closing \cup connected

\* Pruning by a count that is not true any more leaves the node a peer.
PruningKeepsOne == [][PruneConnections /\ peers # {} => peers' # {}]_vars

=============================================================================
