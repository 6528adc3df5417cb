----------------------------- MODULE PeerProofs -----------------------------
(***************************************************************************)
(* What nodes make of each other, proved for every value of the constants: *)
(* the ban managers (PeerBans), the sync of a node (FastSync) and the tips *)
(* of several nodes (TipConsensus), each the instance of MCLedger.         *)
(***************************************************************************)
EXTENDS MCLedger, SumLemmas, SequenceTheorems

-----------------------------------------------------------------------------
(* Ban managers: who is accused, and who is banned. *)

\* A word does not exceed what it stands for.
LEMMA WordBelow ==
  ASSUME NEW a \in Nat, NEW w \in Nat \ {0}
  PROVE  a % w <= a
OBVIOUS

\* A node that takes or passes on a block keeps its type.
LEMMA BlockHandled ==
  ASSUME Bans!TypeOK, NEW n \in Bans!Nodes, NEW m \in banInbox[n],
         m.block \in Bans!Blocks, Bans!HandleBlock(n, m), UNCHANGED banPlan
  PROVE  /\ banHeight' \in [Bans!Nodes -> Nat]
         /\ \A k \in Bans!Nodes : banHeight'[k] >= banHeight[k]
         /\ banKnown' \in [Bans!Nodes -> SUBSET Bans!Blocks]
         /\ banInbox' \in [Bans!Nodes -> SUBSET Bans!Messages]
<1> DEFINE b == m.block
<1>1. /\ banHeight' = [banHeight EXCEPT ![n] = IF b.height = @ + 1 THEN @ + 1 ELSE @]
      /\ banKnown' = [banKnown EXCEPT ![n] = @ \cup {b}]
      /\ banInbox' = [p \in Bans!Nodes |->
           (banInbox[p] \cup IF b \in banKnown[n] THEN {} ELSE Bans!Pushed(n, b, m.from)[p])
             \ IF p = n THEN {m} ELSE {}]
  BY DEF Bans!HandleBlock
<1>2. \A p \in Bans!Nodes : Bans!Pushed(n, b, m.from)[p] \subseteq {Bans!Push(n, b)}
  BY DEF Bans!Pushed
<1>3. Bans!Push(n, b) \in Bans!Messages
  BY DEF Bans!Push, Bans!Messages
<1> HIDE DEF b
<1>4. banInbox' \in [Bans!Nodes -> SUBSET Bans!Messages]
  BY <1>1, <1>2, <1>3 DEF Bans!TypeOK
<1>5. b \in Bans!Blocks
  BY DEF b
<1> QED BY <1>1, <1>4, <1>5 DEF Bans!TypeOK

\* What a step leaves of a message to a node is its own, or as it was.
LEMMA Discarded ==
  ASSUME Bans!TypeOK, NEW n \in Bans!Nodes, NEW m, Bans!Discard(n, m),
         UNCHANGED banPlan
  PROVE  /\ UNCHANGED <<banHeight, banKnown>>
         /\ banInbox' \in [Bans!Nodes -> SUBSET Bans!Messages]
BY DEF Bans!Discard, Bans!TypeOK

LEMMA Recorded ==
  ASSUME Bans!TypeOK, NEW n \in Bans!Nodes, NEW p \in Bans!Nodes, NEW kind,
         Bans!RecordViolation(n, p, kind), UNCHANGED banPlan
  PROVE  /\ banLock' \in [Bans!Nodes -> {"free", "lost"}]
         /\ banCounter' \in [Bans!Nodes -> [Bans!Nodes -> Nat]]
         /\ UNCHANGED banBanned
<1>1. banLock' \in [Bans!Nodes -> {"free", "lost"}]
  BY DEF Bans!RecordViolation, Bans!TypeOK
<1>2. banCounter[n] \in [Bans!Nodes -> Nat]
  BY DEF Bans!TypeOK
<1> DEFINE c == [banCounter[n] EXCEPT ![p] = IF kind = "checkpoint" THEN @ ELSE @ + 1]
<1>3. c \in [Bans!Nodes -> Nat]
  BY <1>2
<1>4. banCounter' = [banCounter EXCEPT ![n] = c]
  BY DEF Bans!RecordViolation
<1> HIDE DEF c
<1> QED BY <1>1, <1>3, <1>4 DEF Bans!RecordViolation, Bans!TypeOK

\* A ban that is made and announced, and its cause.
LEMMA Banned ==
  ASSUME Bans!TypeOK, Bans!BansForKnownCauses,
         NEW n \in Bans!Nodes, NEW p \in Bans!Nodes, NEW m,
         Bans!BanAndAnnounce(n, p, m), UNCHANGED banPlan,
         banPlan.pinned[n] # Bans!NoPin \/ banPlan.large # {}
  PROVE  Bans!TypeOK' /\ Bans!BansForKnownCauses'
<1>0. /\ Bans!Nodes' = Bans!Nodes /\ Bans!Messages' = Bans!Messages
      /\ Bans!Blocks' = Bans!Blocks
  BY DEF Bans!Nodes, Bans!Messages, Bans!Blocks
<1>1. /\ banBanned' = [banBanned EXCEPT ![n] = @ \cup {p}]
      /\ banCounter' = [banCounter EXCEPT ![n][p] = 0]
      /\ UNCHANGED <<banHeight, banKnown, banLock>>
      /\ banInbox' = [Bans!ToAll(n, Bans!Gossip(n, Bans!Notice)) EXCEPT ![n] = @ \ m]
  BY DEF Bans!BanAndAnnounce, Bans!BanPeer
<1>2. Bans!Gossip(n, Bans!Notice) \in Bans!Messages
  BY DEF Bans!Gossip, Bans!Messages
<1>3. Bans!ToAll(n, Bans!Gossip(n, Bans!Notice)) \in [Bans!Nodes -> SUBSET Bans!Messages]
  BY <1>2 DEF Bans!ToAll, Bans!TypeOK
<1>4. banInbox' \in [Bans!Nodes -> SUBSET Bans!Messages]
  BY <1>1, <1>3
<1>5. /\ banBanned' \in [Bans!Nodes -> SUBSET Bans!Nodes]
      /\ banCounter' \in [Bans!Nodes -> [Bans!Nodes -> Nat]]
  BY <1>1 DEF Bans!TypeOK
<1>6. \A k \in Bans!Nodes :
        banBanned'[k] # {} => banPlan.pinned[k] # Bans!NoPin \/ banPlan.large # {}
  BY <1>1 DEF Bans!TypeOK, Bans!BansForKnownCauses
<1> QED BY <1>0, <1>1, <1>4, <1>5, <1>6 DEF Bans!TypeOK, Bans!BansForKnownCauses

\* What contradicts a checkpoint meets one.
LEMMA ContradictedPin ==
  ASSUME NEW n, NEW b \in Bans!Blocks, Bans!Contradicts(n, b)
  PROVE  banPlan.pinned[n] # Bans!NoPin
BY DEF Bans!Contradicts, Bans!Blocks, Bans!NoPin

BansInvariant == Bans!TypeOK /\ Bans!BansForKnownCauses

LEMMA BansStep ==
  ASSUME BansInvariant, [Bans!Next]_(Bans!vars)
  PROVE  BansInvariant'
<1> USE BanAssumption
    DEF BansInvariant, Bans!BansForKnownCauses,
        Bans!netVars, Bans!banVars, Bans!rateVars
<1>0. banPlan' = banPlan
  BY DEF Bans!Next, Bans!vars, Bans!BroadcastBlock, Bans!HandleFromBanned,
         Bans!StartAgain, Bans!HandleMessage, Bans!HandleDirectPush,
         Bans!RequestBlockSync, Bans!CheckPeerConnections, Bans!BanExpires,
         Bans!Restart,
         Bans!SecondPasses, Bans!MinutePasses
<1>1. Bans!Nodes' = Bans!Nodes /\ Bans!Messages' = Bans!Messages /\ Bans!Blocks' = Bans!Blocks
  BY <1>0 DEF Bans!Nodes, Bans!Messages, Bans!Blocks
<1>2. ASSUME UNCHANGED <<banHeight, banKnown, banInbox, banLock, banCounter, banBanned>>
      PROVE  BansInvariant'
  BY <1>0, <1>1, <1>2 DEF Bans!TypeOK
<1>3. ASSUME NEW n \in Bans!Nodes, Bans!BroadcastBlock(n)
      PROVE  BansInvariant'
  <2> DEFINE b == [height |-> banHeight[n] + 1, miner |-> n]
  <2> DEFINE gossip ==
               IF Bans!Large(b) THEN banInbox ELSE Bans!ToAll(n, Bans!Gossip(n, b))
  <2>1. /\ \/ UNCHANGED <<banKnown, banInbox>>
           \/ /\ banKnown' = [banKnown EXCEPT ![n] = @ \cup {b}]
              /\ banInbox' =
                   [p \in Bans!Nodes |-> gossip[p] \cup Bans!Pushed(n, b, n)[p]]
        /\ banHeight' = [banHeight EXCEPT ![n] = @ + 1]
        /\ UNCHANGED <<banLock, banCounter, banBanned>>
    BY <1>3 DEF Bans!BroadcastBlock
  <2>2. b \in Bans!Blocks
    BY DEF Bans!Blocks, Bans!TypeOK
  <2> HIDE DEF b
  <2>3. \A p \in Bans!Nodes : Bans!Pushed(n, b, n)[p] \subseteq {Bans!Push(n, b)}
    BY DEF Bans!Pushed
  <2>4. Bans!Push(n, b) \in Bans!Messages /\ Bans!Gossip(n, b) \in Bans!Messages
    BY <2>2 DEF Bans!Push, Bans!Gossip, Bans!Messages
  <2>6. gossip \in [Bans!Nodes -> SUBSET Bans!Messages]
    BY <2>4 DEF Bans!TypeOK, Bans!ToAll
  <2> HIDE DEF gossip
  <2>8. \A p \in Bans!Nodes : Bans!Pushed(n, b, n)[p] \subseteq Bans!Messages
    BY <2>3, <2>4
  <2>9. [p \in Bans!Nodes |-> gossip[p] \cup Bans!Pushed(n, b, n)[p]]
          \in [Bans!Nodes -> SUBSET Bans!Messages]
    BY <2>6, <2>8
  <2>5. banInbox' \in [Bans!Nodes -> SUBSET Bans!Messages]
    BY <2>1, <2>9 DEF Bans!TypeOK
  <2>7. /\ banHeight' \in [Bans!Nodes -> Nat]
        /\ banKnown' \in [Bans!Nodes -> SUBSET Bans!Blocks]
    BY <2>1, <2>2 DEF Bans!TypeOK
  <2> QED BY <1>0, <1>1, <2>1, <2>5, <2>7 DEF Bans!TypeOK
<1>4. ASSUME NEW n \in Bans!Nodes, Bans!StartAgain(n)
      PROVE  BansInvariant'
  BY <1>0, <1>1, <1>4 DEF Bans!StartAgain, Bans!TypeOK, Bans!NoneCounted
<1>5. ASSUME NEW n \in Bans!Nodes, Bans!HandleFromBanned(n)
      PROVE  BansInvariant'
  <2>1. PICK m \in banInbox[n] :
          IF m.block = Bans!Notice
            THEN Bans!StartAgain(n)
            ELSE Bans!HandleBlock(n, m) /\ UNCHANGED <<banLock, banCounter, banBanned>>
    BY <1>5 DEF Bans!HandleFromBanned
  <2>2. CASE m.block = Bans!Notice
    BY <1>4, <2>1, <2>2
  <2>3. CASE m.block # Bans!Notice
    <3>1. m.block \in Bans!Blocks
      BY <2>3 DEF Bans!TypeOK, Bans!Messages
    <3> QED BY <1>0, <1>1, <2>1, <2>3, <3>1, BlockHandled DEF Bans!TypeOK
  <2> QED BY <2>2, <2>3
<1>6. ASSUME NEW n \in Bans!Nodes, Bans!HandleMessage(n)
      PROVE  BansInvariant'
  <2>1. PICK m \in banInbox[n] :
          IF Bans!Verdict(n, m) = "none"
            THEN Bans!HandleBlock(n, m) /\ UNCHANGED <<banLock, banCounter, banBanned>>
            ELSE /\ Bans!RecordViolation(n, m.from, Bans!Verdict(n, m))
                 /\ Bans!Discard(n, m)
    BY <1>6 DEF Bans!HandleMessage
  <2>2. m \in Bans!Messages
    BY DEF Bans!TypeOK
  <2>3. CASE Bans!Verdict(n, m) = "none"
    <3>1. m.block # Bans!Notice
      BY <2>3 DEF Bans!Verdict
    <3>2. m.block \in Bans!Blocks
      BY <2>2, <3>1 DEF Bans!Messages
    <3> QED BY <1>0, <1>1, <2>1, <2>3, <3>2, BlockHandled DEF Bans!TypeOK
  <2>4. CASE Bans!Verdict(n, m) # "none"
    <3>1. m.from \in Bans!Nodes
      BY <2>2 DEF Bans!Messages
    <3> QED BY <1>0, <1>1, <2>1, <2>4, <3>1, Discarded, Recorded DEF Bans!TypeOK
  <2> QED BY <2>3, <2>4
<1>7. ASSUME NEW n \in Bans!Nodes, Bans!HandleDirectPush(n)
      PROVE  BansInvariant'
  <2>1. PICK m \in banInbox[n] :
          /\ m.via = "direct"
          /\ \/ Bans!Discard(n, m) /\ UNCHANGED <<banLock, banCounter, banBanned>>
             \/ \E kind \in {"rate", "oversized"} :
                  Bans!RecordViolation(n, m.from, kind) /\ Bans!Discard(n, m)
             \/ Bans!Contradicts(n, m.block) /\ Bans!BanAndAnnounce(n, m.from, {m})
             \/ Bans!HandleBlock(n, m) /\ UNCHANGED <<banLock, banCounter, banBanned>>
    BY <1>7 DEF Bans!HandleDirectPush
  <2>2. m \in Bans!Messages /\ m.from \in Bans!Nodes /\ m.block \in Bans!Blocks
    BY <2>1 DEF Bans!TypeOK, Bans!Messages
  <2>3. CASE Bans!Discard(n, m) /\ UNCHANGED <<banLock, banCounter, banBanned>>
    BY <1>0, <1>1, <2>3, Discarded DEF Bans!TypeOK
  <2>4. ASSUME NEW kind, Bans!RecordViolation(n, m.from, kind), Bans!Discard(n, m)
        PROVE  BansInvariant'
    BY <1>0, <1>1, <2>2, <2>4, Discarded, Recorded DEF Bans!TypeOK
  <2>5. CASE Bans!Contradicts(n, m.block) /\ Bans!BanAndAnnounce(n, m.from, {m})
    BY <1>0, <2>2, <2>5, ContradictedPin, Banned
  <2>6. CASE Bans!HandleBlock(n, m) /\ UNCHANGED <<banLock, banCounter, banBanned>>
    BY <1>0, <1>1, <2>2, <2>6, BlockHandled DEF Bans!TypeOK
  <2> QED BY <2>1, <2>3, <2>4, <2>5, <2>6
<1>8. ASSUME NEW n \in Bans!Nodes, Bans!RequestBlockSync(n)
      PROVE  BansInvariant'
  <2> DEFINE b(miner) == [height |-> banHeight[n] + 1, miner |-> miner]
  <2>1. PICK p \in Bans!Nodes, miner \in Bans!Nodes :
          \/ /\ Bans!RecordViolation(p, n, "rate")
             /\ UNCHANGED <<banHeight, banKnown, banInbox>>
          \/ UNCHANGED <<banHeight, banKnown, banInbox, banLock, banCounter, banBanned>>
          \/ /\ Bans!Large(b(miner)) \/ Bans!Contradicts(n, b(miner))
             /\ Bans!BanAndAnnounce(n, p, {})
          \/ /\ banHeight' = [banHeight EXCEPT ![n] = @ + 1]
             /\ UNCHANGED <<banKnown, banInbox, banLock, banCounter, banBanned>>
    BY <1>8 DEF Bans!RequestBlockSync
  <2>2. CASE /\ Bans!RecordViolation(p, n, "rate")
             /\ UNCHANGED <<banHeight, banKnown, banInbox>>
    BY <1>0, <1>1, <2>1, <2>2, Recorded DEF Bans!TypeOK
  <2>3. CASE /\ banHeight' = [banHeight EXCEPT ![n] = @ + 1]
             /\ UNCHANGED <<banKnown, banInbox, banLock, banCounter, banBanned>>
    BY <1>0, <1>1, <2>1, <2>3 DEF Bans!TypeOK
  <2>4. CASE /\ Bans!Large(b(miner)) \/ Bans!Contradicts(n, b(miner))
             /\ Bans!BanAndAnnounce(n, p, {})
    <3>1. b(miner) \in Bans!Blocks
      BY DEF Bans!Blocks, Bans!TypeOK
    <3> HIDE DEF b
    <3>2. banPlan.pinned[n] # Bans!NoPin \/ banPlan.large # {}
      BY <2>4, <3>1, ContradictedPin DEF Bans!Large
    <3> QED BY <1>0, <2>4, <3>2, Banned
  <2> QED BY <1>2, <2>1, <2>2, <2>3, <2>4
<1>12. ASSUME NEW n \in Bans!Nodes, Bans!CheckPeerConnections(n)
       PROVE  BansInvariant'
  <2>1. PICK p \in Bans!Nodes :
          /\ Bans!RecordViolation(n, p, "flood")
          /\ UNCHANGED <<banHeight, banKnown, banInbox>>
    BY <1>12 DEF Bans!CheckPeerConnections
  <2> QED BY <1>0, <1>1, <2>1, Recorded DEF Bans!TypeOK
<1>9. ASSUME NEW n \in Bans!Nodes, Bans!BanExpires(n)
      PROVE  BansInvariant'
  <2>1. PICK p \in banBanned[n] :
          /\ banBanned' = [banBanned EXCEPT ![n] = @ \ {p}]
          /\ banCounter' = [banCounter EXCEPT ![n][p] = 0]
          /\ UNCHANGED <<banHeight, banKnown, banInbox, banLock>>
    BY <1>9 DEF Bans!BanExpires
  <2>2. /\ banBanned' \in [Bans!Nodes -> SUBSET Bans!Nodes]
        /\ banCounter' \in [Bans!Nodes -> [Bans!Nodes -> Nat]]
    BY <2>1 DEF Bans!TypeOK
  <2> QED BY <1>0, <1>1, <2>1, <2>2 DEF Bans!TypeOK
<1>10. CASE Bans!SecondPasses \/ Bans!MinutePasses \/ UNCHANGED Bans!vars
  BY <1>2, <1>10 DEF Bans!SecondPasses, Bans!MinutePasses, Bans!vars
<1>11. [Bans!Next]_(Bans!vars)
  OBVIOUS
<1> QED BY <1>3, <1>4, <1>5, <1>6, <1>7, <1>8, <1>9, <1>10, <1>11, <1>12
        DEF Bans!Next, Bans!Restart

\* A step that accuses a peer of rewriting history has found its block old, by a
\* difference that has not wrapped above the horizon.
LEMMA AccusedStep ==
  ASSUME BansInvariant, [Bans!Next]_(Bans!vars),
         NEW n \in Bans!Nodes, NEW m \in banInbox[n] \ banInbox'[n],
         banLock[n] = "free", banLock'[n] = "lost",
         m.via = "gossip", m.block # Bans!Notice, ~Bans!Contradicts(n, m.block),
         banCounter[n][m.from] + 1 < BanMaxViolations
  PROVE  m.block.height + BanHorizon < banHeight[n] \/ banHeight[n] < BanHorizon
<1> USE BanAssumption DEF BansInvariant, Bans!netVars, Bans!banVars, Bans!rateVars
<1>1. ASSUME NEW k \in Bans!Nodes, Bans!HandleMessage(k), ~(banHeight[n] < BanHorizon)
      PROVE  m.block.height + BanHorizon < banHeight[n]
  <2>1. PICK q \in banInbox[k] :
          IF Bans!Verdict(k, q) = "none"
            THEN Bans!HandleBlock(k, q) /\ UNCHANGED <<banLock, banCounter, banBanned>>
            ELSE /\ Bans!RecordViolation(k, q.from, Bans!Verdict(k, q))
                 /\ Bans!Discard(k, q)
    BY <1>1 DEF Bans!HandleMessage
  <2>2. /\ Bans!RecordViolation(k, q.from, Bans!Verdict(k, q))
        /\ Bans!Discard(k, q)
    BY <2>1
  <2>3. k = n /\ q = m /\ Bans!ShouldBan(n, m.from, Bans!Verdict(n, m))
    BY <2>2 DEF Bans!RecordViolation, Bans!Discard, Bans!TypeOK
  <2>4. m \in Bans!Messages /\ m.from \in Bans!Nodes /\ m.block \in Bans!Blocks
    BY DEF Bans!TypeOK, Bans!Messages
  <2>5. banCounter[n][m.from] \in Nat
    BY <2>4 DEF Bans!TypeOK
  <2>6. Bans!Verdict(n, m) \in {"checkpoint", "no_header", "old"}
    BY <2>3, <2>5 DEF Bans!ShouldBan, Bans!Severe
  <2>7. Bans!OldBlock(m.block, banHeight[n])
    BY <2>6 DEF Bans!Verdict
  <2>8. banHeight[n] \in Nat /\ banHeight[n] - BanHorizon \in Nat
    BY <1>1 DEF Bans!TypeOK
  <2>9. (banHeight[n] - BanHorizon) % BanWord <= banHeight[n] - BanHorizon
    BY <2>8, WordBelow
  <2>10. /\ m.block.height < (banHeight[n] - BanHorizon) % BanWord
         /\ (banHeight[n] - BanHorizon) % BanWord \in Int
    BY <2>7, <2>8 DEF Bans!OldBlock
  <2> QED BY <2>4, <2>8, <2>9, <2>10 DEF Bans!Blocks
<1>2. ASSUME NEW k \in Bans!Nodes, Bans!HandleDirectPush(k)
      PROVE  FALSE
  <2>1. PICK q \in banInbox[k] :
          /\ q.via = "direct"
          /\ \/ UNCHANGED banLock
             \/ \E kind \in {"rate", "oversized"} :
                  Bans!RecordViolation(k, q.from, kind) /\ Bans!Discard(k, q)
    BY <1>2 DEF Bans!HandleDirectPush, Bans!BanAndAnnounce, Bans!BanPeer
  <2>2. PICK kind : Bans!RecordViolation(k, q.from, kind) /\ Bans!Discard(k, q)
    BY <2>1
  <2>3. q = m
    BY <2>2 DEF Bans!RecordViolation, Bans!Discard, Bans!TypeOK
  <2> QED BY <2>1, <2>3
<1>3. ASSUME NEW k \in Bans!Nodes, Bans!StartAgain(k)
      PROVE  FALSE
  BY <1>3 DEF Bans!StartAgain, Bans!TypeOK
<1>4. ASSUME NEW k \in Bans!Nodes, Bans!HandleFromBanned(k)
      PROVE  FALSE
  BY <1>3, <1>4 DEF Bans!HandleFromBanned
<1>5. ASSUME NEW k \in Bans!Nodes, Bans!CheckPeerConnections(k) \/ Bans!BanExpires(k)
      PROVE  FALSE
  BY <1>5 DEF Bans!CheckPeerConnections, Bans!BanExpires
<1>9. ASSUME NEW k \in Bans!Nodes, Bans!RequestBlockSync(k)
      PROVE  FALSE
  <2>1. PICK p \in Bans!Nodes :
          UNCHANGED banInbox \/ Bans!BanAndAnnounce(k, p, {})
    BY <1>9 DEF Bans!RequestBlockSync
  <2>2. Bans!BanAndAnnounce(k, p, {})
    BY <2>1
  <2> QED BY <2>2 DEF Bans!BanAndAnnounce, Bans!BanPeer
<1>6. ASSUME NEW k \in Bans!Nodes, Bans!BroadcastBlock(k)
      PROVE  FALSE
  BY <1>6 DEF Bans!BroadcastBlock
<1>7. CASE Bans!SecondPasses \/ Bans!MinutePasses \/ UNCHANGED Bans!vars
  BY <1>7 DEF Bans!SecondPasses, Bans!MinutePasses, Bans!vars
<1>8. [Bans!Next]_(Bans!vars)
  OBVIOUS
<1> QED BY <1>1, <1>2, <1>3, <1>4, <1>5, <1>6, <1>7, <1>8, <1>9
        DEF Bans!Next, Bans!Restart

\* For any nodes, chains, limits, checkpoints and sizes of blocks, however
\* messages interleave: a peer accused of rewriting history has sent an old block
\* or met an accuser below the horizon, and nobody is banned but for a
\* contradiction to a checkpoint or an oversized answer
\* (checkBlockMessageWithCheckpoints, RecordViolation, RequestBlockSync, BanPeer).
THEOREM BansStayJust == Bans!Spec => BansJust
<1>1. Bans!Init => BansInvariant
  BY BanAssumption
     DEF Bans!Init, BansInvariant, Bans!TypeOK,
         Bans!BansForKnownCauses, Bans!NoneCounted, Bans!Nodes
<1>2. BansInvariant /\ [Bans!Next]_(Bans!vars) => BansInvariant'
  BY BansStep
<1> DEFINE Accused ==
  \A n \in Bans!Nodes : \A m \in banInbox[n] \ banInbox'[n] :
    /\ banLock[n] = "free" /\ banLock'[n] = "lost"
    /\ m.via = "gossip" /\ m.block # Bans!Notice /\ ~Bans!Contradicts(n, m.block)
    /\ banCounter[n][m.from] + 1 < BanMaxViolations
    => m.block.height + BanHorizon < banHeight[n] \/ banHeight[n] < BanHorizon
<1>3. BansInvariant /\ [Bans!Next]_(Bans!vars) => [Accused]_(Bans!vars)
  BY AccusedStep
<1>4. BansInvariant => Bans!BansForKnownCauses
  BY DEF BansInvariant
<1> QED BY <1>1, <1>2, <1>3, <1>4, PTL
        DEF Bans!Spec, BansJust, Bans!AccusedOfOldBlocksOnly

-----------------------------------------------------------------------------
(* Sync: the mode is not left on, and a truncation ends at the fork. *)

\* One goroutine takes a step that leaves the chain alone.
LEMMA SyncMoves ==
  ASSUME Sync!SyncInvariant, NEW t \in SyncThreads, NEW r \in Sync!Tasks,
         Sync!Set(t, r), Sync!FetchOK(r), Sync!SearchInOrder(r),
         UNCHANGED <<syncChain, syncState, syncPlan, syncPeerHeight>>,
         syncSyncing' \in BOOLEAN, syncTarget' \in Nat
  PROVE  Sync!SyncInvariant'
<1>1. /\ syncTask' \in [SyncThreads -> Sync!Tasks]
      /\ syncTask'[t] = r
      /\ \A u \in SyncThreads \ {t} : syncTask'[u] = syncTask[u]
  BY DEF Sync!Set, Sync!SyncInvariant, Sync!TypeOK
<1>2. Sync!TypeOK'
  BY <1>1 DEF Sync!TypeOK, Sync!SyncInvariant, Sync!FetchOK
<1>3. \A u \in SyncThreads : Sync!SearchInOrder(syncTask[u])'
  <2>1. Sync!SearchInOrder(syncTask[t])'
    BY <1>1 DEF Sync!SearchInOrder, Sync!Shared, Sync!Differs, Sync!Height
  <2>2. ASSUME NEW u \in SyncThreads \ {t} PROVE Sync!SearchInOrder(syncTask[u])'
    BY <1>1, <2>2
    DEF Sync!SyncInvariant, Sync!SearchInOrder, Sync!Shared, Sync!Differs, Sync!Height
  <2> QED BY <2>1, <2>2
<1> QED BY <1>2, <1>3 DEF Sync!SyncInvariant, Sync!Linked

\* What a goroutine that syncs nothing is set to.
LEMMA SyncIdle ==
  /\ Sync!Idle \in Sync!Tasks
  /\ Sync!Idle.at = "idle" /\ Sync!Idle.low = 0 /\ Sync!Idle.high = 0
  /\ Sync!Idle.ancestor = 0 /\ Sync!Idle.pending = {} /\ Sync!Idle.fetched = {}
BY SyncAssumption DEF Sync!Tasks, Sync!Idle, Sync!Kinds

\* A goroutine that begins anew, or gives up.
LEMMA SyncFresh ==
  ASSUME NEW r \in Sync!Tasks,
         r.at \in {"idle", "check", "ask", "begin", "force", "higher"},
         r.low = 0, r.high = 0, r.ancestor = 0, r.pending = {}, r.fetched = {}
  PROVE  Sync!FetchOK(r) /\ Sync!SearchInOrder(r)
BY DEF Sync!FetchOK, Sync!SearchInOrder, Sync!Searching

\* What is known of a goroutine before its step
LEMMA SyncNow ==
  ASSUME Sync!SyncInvariant, NEW t \in SyncThreads
  PROVE  /\ syncTask[t] \in Sync!Tasks
         /\ Sync!FetchOK(syncTask[t])
         /\ Sync!SearchInOrder(syncTask[t])
         /\ syncChain \in Seq(SyncBlocks) /\ Sync!Height \in Nat
         /\ syncSyncing \in BOOLEAN /\ syncTarget \in Nat
         /\ \A p \in SyncPeers : Sync!Claim(p) \in Nat
BY SyncAssumption DEF Sync!SyncInvariant, Sync!TypeOK, Sync!Height, Sync!Claim

\* A sync is begun, by whichever loop or message begins it.
LEMMA SyncBegins ==
  ASSUME Sync!SyncInvariant, NEW t \in SyncThreads,
         \/ Sync!FastSyncCheck(t)
         \/ Sync!ForceInitialSync(t) \/ Sync!PeriodicSyncCheck(t)
         \/ \E p \in SyncPeers : Sync!SyncIfBehind(t, p)
  PROVE  Sync!SyncInvariant'
<1>1. PICK p \in SyncPeers : Sync!Set(t, [Sync!Idle EXCEPT !.at = "check", !.peer = p])
  BY DEF Sync!FastSyncCheck, Sync!ForceInitialSync, Sync!PeriodicSyncCheck,
         Sync!SyncIfBehind, Sync!Best
<1> DEFINE r == [Sync!Idle EXCEPT !.at = "check", !.peer = p]
<1>2. /\ r \in Sync!Tasks /\ r.at = "check" /\ r.low = 0 /\ r.high = 0
      /\ r.ancestor = 0 /\ r.pending = {} /\ r.fetched = {}
  BY SyncIdle DEF Sync!Tasks
<1>3. UNCHANGED <<syncChain, syncState, syncPlan, syncPeerHeight,
                  syncSyncing, syncTarget>>
  BY DEF Sync!FastSyncCheck, Sync!ForceInitialSync, Sync!PeriodicSyncCheck,
         Sync!SyncIfBehind, Sync!local, Sync!mode
<1> HIDE DEF r
<1>4. Sync!Set(t, r)
  BY <1>1 DEF r
<1> QED BY <1>2, <1>3, <1>4, SyncMoves, SyncFresh, SyncNow

\* syncIfBehind looks whether the claimed height is enough above its own.
LEMMA SyncCheck ==
  ASSUME Sync!SyncInvariant, NEW t \in SyncThreads, Sync!Check(t)
  PROVE  Sync!SyncInvariant'
<1> DEFINE q == syncTask[t]
           r == [q EXCEPT !.at = "ask", !.height = Sync!Height]
<1>1. UNCHANGED <<syncChain, syncState, syncPlan, syncPeerHeight,
                  syncSyncing, syncTarget>>
  BY DEF Sync!Check, Sync!local, Sync!mode
<1>2. CASE Sync!Set(t, Sync!Idle)
  BY <1>1, <1>2, SyncIdle, SyncFresh, SyncMoves, SyncNow
<1>3. CASE Sync!Set(t, r)
  <2>1. /\ r \in Sync!Tasks /\ r.at = "ask" /\ r.low = q.low /\ r.high = q.high
        /\ r.ancestor = q.ancestor /\ r.pending = q.pending /\ r.fetched = q.fetched
        /\ r.peer = q.peer /\ r.goal = q.goal
    BY SyncNow DEF Sync!Tasks
  <2>2. q.low = 0 /\ q.high = 0 /\ q.ancestor = 0 /\ q.pending = {} /\ q.fetched = {}
    BY SyncNow DEF Sync!Check, Sync!SearchInOrder
  <2> HIDE DEF r
  <2>3. Sync!FetchOK(r) /\ Sync!SearchInOrder(r)
    BY <2>1, <2>2, SyncNow DEF Sync!FetchOK, Sync!SearchInOrder, Sync!Searching
  <2> QED BY <1>1, <1>3, <2>1, <2>3, SyncMoves, SyncNow
<1> QED BY <1>2, <1>3 DEF Sync!Check

\* The peer answers the height request of syncIfBehind.
LEMMA SyncAskHeight ==
  ASSUME Sync!SyncInvariant, NEW t \in SyncThreads, Sync!AskHeight(t)
  PROVE  Sync!SyncInvariant'
<1> DEFINE q == syncTask[t]
           h == Sync!Claim(q.peer)
           r == [q EXCEPT !.at = "begin", !.goal = h]
           s == [q EXCEPT !.at = "higher"]
<1>1. /\ UNCHANGED <<syncChain, syncState, syncPlan, syncPeerHeight>>
      /\ q.at = "ask"
  BY DEF Sync!AskHeight, Sync!local
<1>2. q \in Sync!Tasks /\ q.peer \in SyncPeers /\ h \in Nat
  BY SyncNow DEF Sync!Tasks
<1>3. q.low = 0 /\ q.high = 0 /\ q.ancestor = 0 /\ q.pending = {} /\ q.fetched = {}
  BY <1>1, SyncNow DEF Sync!SearchInOrder
<1>4. CASE Sync!Set(t, r) /\ Sync!StartSync(h)
  <2> HIDE DEF h
  <2>1. /\ r \in Sync!Tasks /\ r.at = "begin" /\ r.low = q.low /\ r.high = q.high
        /\ r.ancestor = q.ancestor /\ r.pending = q.pending /\ r.fetched = q.fetched
        /\ r.peer = q.peer
    BY <1>2 DEF Sync!Tasks
  <2> HIDE DEF r
  <2>2. Sync!FetchOK(r) /\ Sync!SearchInOrder(r)
    BY <1>3, <2>1, SyncNow DEF Sync!FetchOK, Sync!SearchInOrder, Sync!Searching
  <2>3. syncSyncing' \in BOOLEAN /\ syncTarget' \in Nat
    BY <1>2, <1>4 DEF Sync!StartSync
  <2> QED BY <1>1, <1>4, <2>1, <2>2, <2>3, SyncMoves
<1>5. CASE Sync!Set(t, s) /\ UNCHANGED Sync!mode
  <2>1. /\ s \in Sync!Tasks /\ s.at = "higher" /\ s.low = q.low /\ s.high = q.high
        /\ s.ancestor = q.ancestor /\ s.pending = q.pending /\ s.fetched = q.fetched
        /\ s.peer = q.peer
    BY <1>2 DEF Sync!Tasks
  <2> HIDE DEF s
  <2>2. Sync!FetchOK(s) /\ Sync!SearchInOrder(s)
    BY <1>3, <2>1, SyncNow DEF Sync!FetchOK, Sync!SearchInOrder, Sync!Searching
  <2> QED BY <1>1, <1>5, <2>1, <2>2, SyncMoves, SyncNow DEF Sync!mode
<1> QED BY <1>4, <1>5 DEF Sync!AskHeight, Sync!Goto

\* A goroutine goes on with nothing kept of its last sync.
LEMMA SyncFromIdle ==
  ASSUME Sync!SyncInvariant, NEW t \in SyncThreads, NEW r, Sync!Set(t, r),
         \/ r = Sync!Idle
         \/ \E a \in {"begin", "higher"}, k \in Sync!Kinds, p \in SyncPeers, g \in Nat :
              r = [Sync!Idle EXCEPT !.at = a, !.kind = k, !.peer = p, !.goal = g]
         \/ \E a \in {"higher"}, p \in SyncPeers, g \in Nat :
              r = [Sync!Idle EXCEPT !.at = a, !.peer = p, !.height = g]
         \/ r = [Sync!Idle EXCEPT !.at = "force", !.kind = "force"],
         UNCHANGED <<syncChain, syncState, syncPlan, syncPeerHeight>>,
         syncSyncing' \in BOOLEAN, syncTarget' \in Nat
  PROVE  Sync!SyncInvariant'
<1>1. /\ r \in Sync!Tasks /\ r.at \in {"idle", "begin", "force", "higher"}
      /\ r.low = 0 /\ r.high = 0 /\ r.ancestor = 0 /\ r.pending = {} /\ r.fetched = {}
  <2>1. CASE r = Sync!Idle
    BY <2>1, SyncIdle
  <2>2. CASE \E a \in {"begin", "higher"}, k \in Sync!Kinds,
                p \in SyncPeers, g \in Nat :
               r = [Sync!Idle EXCEPT !.at = a, !.kind = k, !.peer = p, !.goal = g]
    BY <2>2, SyncIdle DEF Sync!Tasks
  <2>3. CASE \E a \in {"higher"}, p \in SyncPeers, g \in Nat :
               r = [Sync!Idle EXCEPT !.at = a, !.peer = p, !.height = g]
    BY <2>3, SyncIdle DEF Sync!Tasks
  <2>4. CASE r = [Sync!Idle EXCEPT !.at = "force", !.kind = "force"]
    BY <2>4, SyncIdle DEF Sync!Tasks, Sync!Kinds
  <2> QED BY <2>1, <2>2, <2>3, <2>4
<1> QED BY <1>1, SyncMoves, SyncFresh

\* continueSyncWithHigherPeer turns to a higher peer, or ends the sync.
LEMMA SyncContinue ==
  ASSUME Sync!SyncInvariant, NEW t \in SyncThreads, Sync!ContinueWithHigherPeer(t)
  PROVE  Sync!SyncInvariant'
<1>1. UNCHANGED <<syncChain, syncState, syncPlan, syncPeerHeight>>
  BY DEF Sync!ContinueWithHigherPeer, Sync!local
<1>2. CASE Sync!StopSync /\ Sync!Set(t, Sync!Idle)
  BY <1>1, <1>2, SyncFromIdle DEF Sync!StopSync
<1>3. ASSUME NEW p \in SyncPeers, Sync!StartSync(Sync!Claim(p)),
             Sync!Set(t, [Sync!Idle EXCEPT !.at = "begin", !.kind = "higher",
                                           !.peer = p, !.goal = Sync!Claim(p)])
      PROVE  Sync!SyncInvariant'
  <2>1. Sync!Claim(p) \in Nat /\ "higher" \in Sync!Kinds
    BY SyncNow DEF Sync!Kinds
  <2>2. syncSyncing' \in BOOLEAN /\ syncTarget' \in Nat
    BY <1>3, <2>1 DEF Sync!StartSync
  <2> QED BY <1>1, <1>3, <2>1, <2>2, SyncFromIdle
<1> QED BY <1>2, <1>3 DEF Sync!ContinueWithHigherPeer, Sync!Best

\* forceSync ends what sync there is.
LEMMA SyncForce ==
  ASSUME Sync!SyncInvariant, NEW t \in SyncThreads, Sync!ForceSync(t)
  PROVE  Sync!SyncInvariant'
<1>1. /\ UNCHANGED <<syncChain, syncState, syncPlan, syncPeerHeight>>
      /\ Sync!Set(t, [Sync!Idle EXCEPT !.at = "force", !.kind = "force"])
  BY DEF Sync!ForceSync, Sync!local
<1>2. syncSyncing' \in BOOLEAN /\ syncTarget' \in Nat
  BY SyncNow DEF Sync!ForceSync, Sync!StopSync, Sync!mode
<1> QED BY <1>1, <1>2, SyncFromIdle

\* forceSync starts a sync with the best peer, if one is there.
LEMMA SyncForceStart ==
  ASSUME Sync!SyncInvariant, NEW t \in SyncThreads, Sync!ForceStart(t)
  PROVE  Sync!SyncInvariant'
<1> DEFINE q == syncTask[t]
<1>1. UNCHANGED <<syncChain, syncState, syncPlan, syncPeerHeight>> /\ q.at = "force"
  BY DEF Sync!ForceStart, Sync!local
<1>2. CASE Sync!Set(t, Sync!Idle) /\ UNCHANGED Sync!mode
  BY <1>1, <1>2, SyncFromIdle, SyncNow DEF Sync!mode
<1>3. ASSUME NEW p \in SyncPeers, NEW h \in Nat, Sync!StartSync(h),
             Sync!Set(t, [q EXCEPT !.at = "begin", !.peer = p, !.goal = h])
      PROVE  Sync!SyncInvariant'
  <2> DEFINE r == [q EXCEPT !.at = "begin", !.peer = p, !.goal = h]
  <2>1. q.low = 0 /\ q.high = 0 /\ q.ancestor = 0 /\ q.pending = {} /\ q.fetched = {}
    BY <1>1, SyncNow DEF Sync!SearchInOrder
  <2>2. /\ r \in Sync!Tasks /\ r.at = "begin" /\ r.low = q.low /\ r.high = q.high
        /\ r.ancestor = q.ancestor /\ r.pending = q.pending /\ r.fetched = q.fetched
    BY SyncNow DEF Sync!Tasks
  <2> HIDE DEF r
  <2>3. syncSyncing' \in BOOLEAN /\ syncTarget' \in Nat
    BY <1>3 DEF Sync!StartSync
  <2>4. Sync!Set(t, r)
    BY <1>3 DEF r
  <2> QED BY <1>1, <2>1, <2>2, <2>3, <2>4, SyncMoves, SyncFresh
<1> QED BY <1>2, <1>3, SyncNow DEF Sync!ForceStart, Sync!Best

\* syncMissingBlocks begins: the search starts from the node's own height.
LEMMA SyncBegin ==
  ASSUME Sync!SyncInvariant, NEW t \in SyncThreads, Sync!Begin(t)
  PROVE  Sync!SyncInvariant'
<1> DEFINE q == syncTask[t]
           s == [q EXCEPT !.at = "ended"]
           r == [q EXCEPT !.at = IF Sync!Height = 0 THEN "truncate" ELSE "tip",
                          !.height = Sync!Height, !.steady = TRUE]
<1>1. /\ UNCHANGED <<syncChain, syncState, syncPlan, syncPeerHeight,
                     syncSyncing, syncTarget>>
      /\ q.at = "begin"
  BY DEF Sync!Begin, Sync!local, Sync!mode
<1>2. q.low = 0 /\ q.high = 0 /\ q.ancestor = 0 /\ q.pending = {} /\ q.fetched = {}
  BY <1>1, SyncNow DEF Sync!SearchInOrder
<1>3. CASE Sync!Set(t, s)
  <2>1. /\ s \in Sync!Tasks /\ s.at = "ended" /\ s.ancestor = q.ancestor
        /\ s.pending = q.pending /\ s.fetched = q.fetched /\ s.peer = q.peer
    BY SyncNow DEF Sync!Tasks
  <2> HIDE DEF s
  <2>2. Sync!FetchOK(s) /\ Sync!SearchInOrder(s)
    BY <1>2, <2>1, SyncNow DEF Sync!FetchOK, Sync!SearchInOrder, Sync!Searching
  <2> QED BY <1>1, <1>3, <2>1, <2>2, SyncMoves, SyncNow
<1>4. CASE Sync!Set(t, r)
  <2>1. /\ r \in Sync!Tasks /\ r.at = (IF Sync!Height = 0 THEN "truncate" ELSE "tip")
        /\ r.low = q.low /\ r.high = q.high /\ r.height = Sync!Height
        /\ r.ancestor = q.ancestor /\ r.pending = q.pending /\ r.fetched = q.fetched
        /\ r.peer = q.peer
    BY SyncNow DEF Sync!Tasks
  <2> HIDE DEF r
  <2>2. Sync!FetchOK(r) /\ Sync!SearchInOrder(r)
    BY <1>2, <2>1, SyncNow
    DEF Sync!FetchOK, Sync!SearchInOrder, Sync!Searching, Sync!Height
  <2> QED BY <1>1, <1>4, <2>1, <2>2, SyncMoves, SyncNow
<1> QED BY <1>3, <1>4 DEF Sync!Begin, Sync!Goto

\* A goroutine that goes on elsewhere than in a search
LEMMA SyncGoes ==
  ASSUME Sync!SyncInvariant, NEW t \in SyncThreads,
         NEW a \in {"ended", "failed", "fetch", "add"},
         Sync!Goto(t, a),
         UNCHANGED <<syncChain, syncState, syncPlan, syncPeerHeight>>,
         syncSyncing' \in BOOLEAN, syncTarget' \in Nat
  PROVE  Sync!SyncInvariant'
<1> DEFINE q == syncTask[t]
           s == [q EXCEPT !.at = a]
<1>1. /\ s \in Sync!Tasks /\ s.at = a /\ s.ancestor = q.ancestor /\ s.goal = q.goal
      /\ s.pending = q.pending /\ s.fetched = q.fetched /\ s.peer = q.peer
  BY SyncNow DEF Sync!Tasks
<1>2. Sync!Set(t, s)
  BY DEF Sync!Goto
<1> HIDE DEF s
<1>3. Sync!FetchOK(s) /\ Sync!SearchInOrder(s)
  BY <1>1, SyncNow DEF Sync!FetchOK, Sync!SearchInOrder, Sync!Searching
<1> QED BY <1>1, <1>2, <1>3, SyncMoves

\* The tips are compared before a search.
LEMMA SyncCompare ==
  ASSUME Sync!SyncInvariant, NEW t \in SyncThreads, Sync!CompareTips(t)
  PROVE  Sync!SyncInvariant'
<1> DEFINE q == syncTask[t]
           h == q.height
           r == [q EXCEPT !.at = "truncate", !.ancestor = h]
           s == [q EXCEPT !.at = "search", !.high = h]
<1>1. /\ UNCHANGED <<syncChain, syncState, syncPlan, syncPeerHeight,
                     syncSyncing, syncTarget>>
      /\ q.at = "tip"
  BY DEF Sync!CompareTips, Sync!local, Sync!mode
<1>2. /\ q.low = 0 /\ q.high = 0 /\ q.ancestor = 0 /\ q.pending = {} /\ q.fetched = {}
      /\ (q.steady => Sync!Height = q.height)
  BY <1>1, SyncNow DEF Sync!SearchInOrder, Sync!Searching
<1>3. CASE Sync!Goto(t, "failed")
  BY <1>1, <1>3, SyncGoes, SyncNow
<1>4. CASE Sync!Set(t, r)
  <2>1. /\ r \in Sync!Tasks /\ r.at = "truncate" /\ r.height = h /\ r.steady = q.steady
        /\ r.ancestor = h /\ r.pending = q.pending /\ r.fetched = q.fetched
    BY SyncNow DEF Sync!Tasks
  <2> HIDE DEF r
  <2>2. Sync!FetchOK(r) /\ Sync!SearchInOrder(r)
    BY <1>2, <2>1 DEF Sync!FetchOK, Sync!SearchInOrder, Sync!Searching
  <2> QED BY <1>1, <1>4, <2>1, <2>2, SyncMoves, SyncNow
<1>5. CASE Sync!BothHave(q.peer, h) /\ ~Sync!SameAt(q.peer, h) /\ Sync!Set(t, s)
  <2>1. /\ s \in Sync!Tasks /\ s.at = "search" /\ s.height = h /\ s.steady = q.steady
        /\ s.ancestor = q.ancestor /\ s.pending = q.pending /\ s.fetched = q.fetched
        /\ s.high = h /\ s.low = q.low /\ s.peer = q.peer /\ h \in Nat
    BY SyncNow DEF Sync!Tasks
  <2>2. Sync!Differs(s.peer, s.height)
    BY <1>5, <2>1 DEF Sync!SameAt, Sync!Differs
  <2>3. Sync!Shared(s.peer, s.ancestor)
    BY <1>2, <2>1 DEF Sync!Shared
  <2> HIDE DEF s
  <2>4. Sync!FetchOK(s) /\ Sync!SearchInOrder(s)
    BY <1>2, <2>1, <2>2, <2>3 DEF Sync!FetchOK, Sync!SearchInOrder, Sync!Searching
  <2> QED BY <1>1, <1>5, <2>1, <2>4, SyncMoves, SyncNow
<1> QED BY <1>3, <1>4, <1>5 DEF Sync!CompareTips

\* One probe halves what is left of the search.
LEMMA SyncProbe ==
  ASSUME Sync!SyncInvariant, NEW r \in Sync!Tasks, Sync!FetchOK(r),
         Sync!SearchInOrder(r), r.at = "search", r.low <= r.high,
         NEW middle \in Nat, r.low <= middle, middle <= r.high,
         Sync!BothHave(r.peer, middle)
  PROVE  /\ Sync!SameAt(r.peer, middle) =>
              LET n == [r EXCEPT !.ancestor = middle, !.low = middle + 1]
              IN  n \in Sync!Tasks /\ Sync!FetchOK(n) /\ Sync!SearchInOrder(n)
         /\ ~Sync!SameAt(r.peer, middle) =>
              LET n == [r EXCEPT !.high = middle - 1]
              IN  n \in Sync!Tasks /\ Sync!FetchOK(n) /\ Sync!SearchInOrder(n)
<1>1. /\ r.low \in Nat /\ r.high \in Nat /\ r.ancestor \in Nat /\ r.height \in Nat
      /\ r.peer \in SyncPeers
  BY DEF Sync!Tasks
<1>3. /\ r.ancestor <= r.high /\ r.high <= r.height
      /\ (r.low = 0 /\ r.ancestor = 0) \/ r.low = r.ancestor + 1
      /\ (r.steady => Sync!Height = r.height)
      /\ r.pending = {} /\ r.fetched = {}
      /\ r.steady =>
           /\ Sync!Shared(r.peer, r.ancestor) /\ Sync!Differs(r.peer, r.height)
           /\ r.high < r.height => Sync!Differs(r.peer, r.high + 1)
  BY DEF Sync!SearchInOrder, Sync!Searching
<1>4. CASE Sync!SameAt(r.peer, middle)
  <2> DEFINE n == [r EXCEPT !.ancestor = middle, !.low = middle + 1]
  <2>1. /\ n \in Sync!Tasks /\ n.at = "search"
        /\ n.height = r.height /\ n.steady = r.steady
        /\ n.ancestor = middle /\ n.low = middle + 1 /\ n.high = r.high
        /\ n.peer = r.peer
        /\ n.pending = r.pending /\ n.fetched = r.fetched /\ n.goal = r.goal
    <3>1. middle + 1 \in Nat
      OBVIOUS
    <3> QED BY <3>1 DEF Sync!Tasks
  <2> HIDE DEF n
  <2>2. middle <= Len(SyncServed[r.peer]) /\ middle <= Sync!Height
    BY <1>1 DEF Sync!BothHave, Sync!SyncInvariant, Sync!TypeOK
  <2>3. Sync!Shared(n.peer, middle)
    BY <1>4, <2>1, <2>2 DEF Sync!Shared, Sync!SameAt
  <2>4. Sync!FetchOK(n) /\ Sync!SearchInOrder(n)
    BY <1>1, <1>3, <2>1, <2>3 DEF Sync!FetchOK, Sync!SearchInOrder, Sync!Searching
  <2> QED BY <1>4, <2>1, <2>4 DEF n
<1>5. CASE ~Sync!SameAt(r.peer, middle)
  <2> DEFINE n == [r EXCEPT !.high = middle - 1]
  <2>1. middle >= 1
    BY <1>5 DEF Sync!SameAt
  <2>2. /\ n \in Sync!Tasks /\ n.at = "search"
        /\ n.height = r.height /\ n.steady = r.steady
        /\ n.ancestor = r.ancestor /\ n.low = r.low /\ n.high = middle - 1
        /\ n.peer = r.peer
        /\ n.pending = r.pending /\ n.fetched = r.fetched /\ n.goal = r.goal
    BY <2>1 DEF Sync!Tasks
  <2> HIDE DEF n
  <2>4. Sync!Differs(n.peer, n.high + 1)
    BY <1>5, <2>1, <2>2 DEF Sync!Differs, Sync!SameAt
  <2>5. Sync!FetchOK(n) /\ Sync!SearchInOrder(n)
    BY <1>1, <1>3, <2>1, <2>2, <2>4
    DEF Sync!FetchOK, Sync!SearchInOrder, Sync!Searching
  <2> QED BY <1>5, <2>2, <2>5 DEF n
<1> QED BY <1>4, <1>5

\* findCommonAncestorByHash: one request, or the end of the search.
LEMMA SyncSearch ==
  ASSUME Sync!SyncInvariant, NEW t \in SyncThreads, Sync!Search(t)
  PROVE  Sync!SyncInvariant'
<1> DEFINE q == syncTask[t]
           middle == q.low + (q.high - q.low) \div 2
           r == [q EXCEPT !.at = "truncate", !.low = 0, !.high = 0]
<1>1. /\ UNCHANGED <<syncChain, syncState, syncPlan, syncPeerHeight,
                     syncSyncing, syncTarget>>
      /\ q.at = "search" /\ q \in Sync!Tasks
  BY SyncNow DEF Sync!Search, Sync!local, Sync!mode
<1>2. CASE Sync!Goto(t, "failed")
  BY <1>1, <1>2, SyncGoes, SyncNow
<1>3. CASE q.low > q.high /\ Sync!Set(t, r)
  <2>1. /\ r \in Sync!Tasks /\ r.at = "truncate"
        /\ r.height = q.height /\ r.steady = q.steady
        /\ r.ancestor = q.ancestor /\ r.pending = q.pending /\ r.fetched = q.fetched
        /\ r.peer = q.peer /\ r.goal = q.goal
    BY <1>1 DEF Sync!Tasks
  <2>2. q.low \in Nat /\ q.high \in Int /\ q.ancestor \in Nat /\ q.height \in Nat
    BY <1>1 DEF Sync!Tasks
  <2>3. /\ q.ancestor <= q.high /\ q.high <= q.height
        /\ (q.low = 0 /\ q.ancestor = 0) \/ q.low = q.ancestor + 1
        /\ (q.steady => Sync!Height = q.height)
        /\ q.pending = {} /\ q.fetched = {}
        /\ q.steady =>
             /\ Sync!Shared(q.peer, q.ancestor) /\ Sync!Differs(q.peer, q.height)
             /\ q.high < q.height => Sync!Differs(q.peer, q.high + 1)
    BY <1>1, SyncNow DEF Sync!SearchInOrder, Sync!Searching
  <2>4. q.high = q.ancestor
    BY <1>3, <2>2, <2>3
  <2> HIDE DEF r, q
  <2>5. Sync!FetchOK(r) /\ Sync!SearchInOrder(r)
    BY <2>1, <2>2, <2>3, <2>4, SyncNow
    DEF q, Sync!FetchOK, Sync!SearchInOrder, Sync!Searching
  <2> QED BY <1>1, <1>3, <2>1, <2>5, SyncMoves, SyncNow
<1>4. CASE /\ q.low <= q.high /\ Sync!BothHave(q.peer, middle)
           /\ Sync!Set(t, Sync!Narrowed(q, Sync!SameAt(q.peer, middle)))
  <2> DEFINE n == Sync!Narrowed(q, Sync!SameAt(q.peer, middle))
  <2>1. q.low \in Nat /\ q.high \in Int
    BY <1>1 DEF Sync!Tasks
  <2>2. middle \in Nat /\ q.low <= middle /\ middle <= q.high
    BY <1>4, <2>1
  <2>3. n = IF Sync!SameAt(q.peer, middle)
              THEN [q EXCEPT !.ancestor = middle, !.low = middle + 1]
              ELSE [q EXCEPT !.high = middle - 1]
    BY DEF Sync!Narrowed
  <2>4. Sync!Set(t, n) /\ Sync!BothHave(q.peer, middle) /\ q.low <= q.high
    BY <1>4
  <2> HIDE DEF middle, n, q
  <2>5. n \in Sync!Tasks /\ Sync!FetchOK(n) /\ Sync!SearchInOrder(n)
    BY <1>1, <2>2, <2>3, <2>4, SyncProbe, SyncNow DEF q
  <2> QED BY <1>1, <2>4, <2>5, SyncMoves, SyncNow DEF q
<1> QED BY <1>2, <1>3, <1>4 DEF Sync!Search

\* A part of a part of a sequence from its start is a part of it.
LEMMA PrefixOf ==
  ASSUME NEW S, NEW c \in Seq(S), NEW n \in 0..Len(c), NEW i \in 0..n
  PROVE  /\ SubSeq(c, 1, n) \in Seq(S) /\ Len(SubSeq(c, 1, n)) = n
         /\ SubSeq(SubSeq(c, 1, n), 1, i) = SubSeq(c, 1, i)
         /\ i > 0 => SubSeq(c, 1, n)[i] = c[i]
<1>1. SubSeq(c, 1, n) \in Seq(S) /\ Len(SubSeq(c, 1, n)) = n
      /\ \A j \in 1..n : SubSeq(c, 1, n)[j] = c[j]
  OBVIOUS
<1>2. SubSeq(c, 1, i) \in Seq(S) /\ Len(SubSeq(c, 1, i)) = i
      /\ \A j \in 1..i : SubSeq(c, 1, i)[j] = c[j]
  OBVIOUS
<1> DEFINE d == SubSeq(c, 1, n)
<1>3. d \in Seq(S) /\ Len(d) = n /\ \A j \in 1..n : d[j] = c[j]
  BY <1>1
<1> HIDE DEF d
<1>4. SubSeq(d, 1, i) \in Seq(S) /\ Len(SubSeq(d, 1, i)) = i
      /\ \A j \in 1..i : SubSeq(d, 1, i)[j] = c[j]
  BY <1>3
<1>5. SubSeq(d, 1, i) = SubSeq(c, 1, i)
  BY <1>2, <1>4
<1>6. i > 0 => d[i] = c[i]
  BY <1>3
<1> QED BY <1>1, <1>5, <1>6 DEF d

\* What a truncation keeps is a chain.
LEMMA SyncPrefixLinked ==
  ASSUME NEW c \in Seq(SyncBlocks), Sync!Linked(c), NEW n \in 0..Len(c)
  PROVE  SubSeq(c, 1, n) \in Seq(SyncBlocks) /\ Sync!Linked(SubSeq(c, 1, n))
<1> DEFINE d == SubSeq(c, 1, n)
<1>1. d \in Seq(SyncBlocks) /\ Len(d) = n
  BY PrefixOf, 0 \in 0..n
<1>2. ASSUME NEW i \in 1..Len(d) PROVE SyncPath[d[i]] = SubSeq(d, 1, i)
  <2>1. i \in 0..n /\ i > 0 /\ i \in 1..Len(c)
    BY <1>1, <1>2
  <2>2. d[i] = c[i] /\ SubSeq(d, 1, i) = SubSeq(c, 1, i)
    BY <2>1, PrefixOf
  <2> QED BY <2>1, <2>2 DEF Sync!Linked
<1> QED BY <1>1, <1>2 DEF Sync!Linked

\* The chain changes, by a goroutine's step or not.
LEMMA SyncCuts ==
  ASSUME Sync!SyncInvariant, NEW tasks \in [SyncThreads -> Sync!Tasks],
         \A u \in SyncThreads : Sync!FetchOK(tasks[u]) /\ Sync!SearchInOrder(tasks[u]),
         syncTask' = Sync!Unsteady(tasks),
         syncChain' \in Seq(SyncBlocks), Sync!Linked(syncChain)',
         syncState' \in Seq(SyncBlocks),
         UNCHANGED <<syncPlan, syncPeerHeight>>,
         syncSyncing' \in BOOLEAN, syncTarget' \in Nat
  PROVE  Sync!SyncInvariant'
<1>1. ASSUME NEW u \in SyncThreads
      PROVE  /\ syncTask'[u] \in Sync!Tasks /\ Sync!FetchOK(syncTask[u])'
             /\ Sync!SearchInOrder(syncTask[u])'
  <2> DEFINE q == tasks[u]
             r == [q EXCEPT !.steady = FALSE]
  <2>1. /\ r \in Sync!Tasks /\ r.at = q.at /\ r.peer = q.peer /\ r.goal = q.goal
        /\ r.height = q.height /\ r.low = q.low /\ r.high = q.high
        /\ r.ancestor = q.ancestor /\ r.pending = q.pending /\ r.fetched = q.fetched
        /\ r.steady = FALSE
    BY DEF Sync!Tasks
  <2>2. syncTask'[u] = r
    BY DEF Sync!Unsteady
  <2> HIDE DEF r
  <2>3. Sync!FetchOK(syncTask[u])'
    BY <2>1, <2>2 DEF Sync!FetchOK
  <2>4. Sync!SearchInOrder(syncTask[u])'
    BY <2>1, <2>2 DEF Sync!SearchInOrder, Sync!Searching
  <2> QED BY <2>1, <2>2, <2>3, <2>4
<1>2. syncTask' \in [SyncThreads -> Sync!Tasks]
  BY <1>1 DEF Sync!Unsteady
<1>3. Sync!TypeOK'
  BY <1>1, <1>2 DEF Sync!TypeOK, Sync!SyncInvariant
<1> QED BY <1>1, <1>3 DEF Sync!SyncInvariant

\* One goroutine changes, the others keep what is known of them.
LEMMA SyncPut ==
  ASSUME Sync!SyncInvariant, NEW t \in SyncThreads, NEW r \in Sync!Tasks,
         Sync!FetchOK(r), Sync!SearchInOrder(r),
         NEW tasks, tasks = [syncTask EXCEPT ![t] = r]
  PROVE  /\ tasks \in [SyncThreads -> Sync!Tasks]
         /\ \A u \in SyncThreads :
              Sync!FetchOK(tasks[u]) /\ Sync!SearchInOrder(tasks[u])
<1>1. /\ tasks \in [SyncThreads -> Sync!Tasks] /\ tasks[t] = r
      /\ \A u \in SyncThreads \ {t} : tasks[u] = syncTask[u]
  BY DEF Sync!SyncInvariant, Sync!TypeOK
<1> QED BY <1>1 DEF Sync!SyncInvariant, Sync!TypeOK

\* The chain is cut back to the ancestor.
LEMMA SyncTruncate ==
  ASSUME Sync!SyncInvariant, NEW t \in SyncThreads, Sync!Truncate(t)
  PROVE  Sync!SyncInvariant'
<1> DEFINE q == syncTask[t]
           r == [q EXCEPT !.at = "fetch", !.pending = (q.ancestor + 1)..q.goal,
                       !.steady = FALSE]
<1>1. /\ UNCHANGED <<syncPlan, syncPeerHeight, syncSyncing, syncTarget>>
      /\ q.at = "truncate" /\ q \in Sync!Tasks
  BY SyncNow DEF Sync!Truncate, Sync!mode
<1>2. /\ q.ancestor \in Nat /\ q.goal \in Nat
      /\ (q.ancestor + 1)..q.goal \in SUBSET Nat
  BY <1>1 DEF Sync!Tasks
<1>3. /\ r \in Sync!Tasks /\ r.at = "fetch" /\ r.pending = (q.ancestor + 1)..q.goal
      /\ r.ancestor = q.ancestor /\ r.goal = q.goal /\ r.fetched = q.fetched
      /\ r.peer = q.peer
  BY <1>1, <1>2 DEF Sync!Tasks
<1>4. Sync!FetchOK(r)
  BY <1>3, SyncNow DEF Sync!FetchOK
<1>5. Sync!SearchInOrder(r)
  BY <1>3 DEF Sync!SearchInOrder, Sync!Searching
<1>6. CASE Sync!Goto(t, "failed") /\ UNCHANGED Sync!local
  BY <1>1, <1>6, SyncGoes, SyncNow DEF Sync!local
<1>7. CASE Sync!Set(t, r) /\ UNCHANGED Sync!local
  <2> HIDE DEF r
  <2> QED BY <1>1, <1>3, <1>4, <1>5, <1>7, SyncMoves, SyncNow DEF Sync!local
<1>8. CASE /\ q.ancestor < Sync!Height
           /\ Sync!TruncateTo(q.ancestor, [syncTask EXCEPT ![t] = r])
  <2>1. q.ancestor \in 0..Len(syncChain)
    BY <1>2, <1>8, SyncNow DEF Sync!Height
  <2>2. /\ SubSeq(syncChain, 1, q.ancestor) \in Seq(SyncBlocks)
        /\ Sync!Linked(SubSeq(syncChain, 1, q.ancestor))
    BY <2>1, SyncPrefixLinked, SyncNow DEF Sync!SyncInvariant
  <2>3. /\ syncChain' \in Seq(SyncBlocks) /\ Sync!Linked(syncChain)'
        /\ syncState' \in Seq(SyncBlocks)
    BY <1>8, <2>2 DEF Sync!TruncateTo, Sync!SyncInvariant, Sync!TypeOK, Sync!Linked
  <2> HIDE DEF r
  <2> DEFINE tasks == [syncTask EXCEPT ![t] = r]
  <2>4. /\ tasks \in [SyncThreads -> Sync!Tasks]
        /\ \A u \in SyncThreads : Sync!FetchOK(tasks[u]) /\ Sync!SearchInOrder(tasks[u])
    BY <1>3, <1>4, <1>5, SyncPut
  <2>5. syncTask' = Sync!Unsteady(tasks)
    BY <1>8 DEF Sync!TruncateTo
  <2> HIDE DEF tasks
  <2> QED BY <1>1, <2>3, <2>4, <2>5, SyncCuts, SyncNow
<1> QED
  <2>1. q.ancestor \in Nat /\ Sync!Height \in Nat
    BY <1>2, SyncNow
  <2> QED BY <1>2, <1>6, <1>7, <1>8, <2>1 DEF Sync!Truncate

\* Blocks that follow one another make a chain again.
LEMMA SyncFollows ==
  ASSUME Sync!SyncInvariant, NEW b \in SyncBlocks, NEW tasks, Sync!Extend(b, tasks)
  PROVE  /\ syncChain' \in Seq(SyncBlocks) /\ Sync!Linked(syncChain)'
         /\ syncState' \in Seq(SyncBlocks)
         /\ syncSyncing' \in BOOLEAN /\ syncTarget' \in Nat
         /\ syncTask' = Sync!Unsteady(tasks)
BY SyncAssumption DEF Sync!Extend, Sync!Linked, Sync!SyncInvariant, Sync!TypeOK

\* The blocks that were fetched are added in order.
LEMMA SyncAdd ==
  ASSUME Sync!SyncInvariant, NEW t \in SyncThreads, Sync!Add(t)
  PROVE  Sync!SyncInvariant'
<1> DEFINE q == syncTask[t]
           r == [q EXCEPT !.fetched = @ \ {q.next}, !.next = @ + 1]
           s == [q EXCEPT !.at = "fetch", !.next = 0]
           b == SyncServed[q.peer][q.next]
<1>1. UNCHANGED <<syncPlan, syncPeerHeight>> /\ q.at = "add" /\ q \in Sync!Tasks
  BY SyncNow DEF Sync!Add
<1>2. /\ r \in Sync!Tasks /\ r.at = "add" /\ r.pending = q.pending
      /\ r.ancestor = q.ancestor /\ r.goal = q.goal /\ r.fetched \subseteq q.fetched
      /\ r.peer = q.peer
  <2>1. /\ q.fetched \ {q.next} \in SUBSET Nat /\ q.next + 1 \in Nat
        /\ q.fetched \ {q.next} \subseteq q.fetched
    BY <1>1 DEF Sync!Tasks
  <2> QED BY <1>1, <2>1 DEF Sync!Tasks
<1>3. /\ s \in Sync!Tasks /\ s.at = "fetch" /\ s.pending = q.pending
      /\ s.ancestor = q.ancestor /\ s.goal = q.goal /\ s.fetched = q.fetched
      /\ s.peer = q.peer
  BY <1>1 DEF Sync!Tasks
<1>4. Sync!FetchOK(r) /\ Sync!FetchOK(s)
  BY <1>2, <1>3, SyncNow DEF Sync!FetchOK
<1>5. Sync!SearchInOrder(r) /\ Sync!SearchInOrder(s)
  BY <1>2, <1>3 DEF Sync!SearchInOrder, Sync!Searching
<1>6. CASE (Sync!Set(t, r) \/ Sync!Set(t, s)) /\ UNCHANGED <<Sync!local, Sync!mode>>
  <2> HIDE DEF r, s
  <2> QED
    BY <1>1, <1>2, <1>3, <1>4, <1>5, <1>6, SyncMoves, SyncNow
    DEF Sync!local, Sync!mode
<1>7. CASE q.next \in q.fetched /\ Sync!Extend(b, [syncTask EXCEPT ![t] = r])
  <2>1. q.next \in 1..Len(SyncServed[q.peer]) /\ q.peer \in SyncPeers
    BY <1>1, <1>7, SyncNow DEF Sync!FetchOK, Sync!Tasks
  <2>2. b \in SyncBlocks
    BY <2>1, SyncAssumption
  <2> HIDE DEF r, b
  <2> DEFINE tasks == [syncTask EXCEPT ![t] = r]
  <2>3. /\ tasks \in [SyncThreads -> Sync!Tasks]
        /\ \A u \in SyncThreads : Sync!FetchOK(tasks[u]) /\ Sync!SearchInOrder(tasks[u])
    BY <1>2, <1>4, <1>5, SyncPut
  <2>4. Sync!Extend(b, tasks)
    BY <1>7
  <2> HIDE DEF tasks
  <2> QED BY <1>1, <2>2, <2>3, <2>4, SyncCuts, SyncFollows
<1> QED BY <1>6, <1>7 DEF Sync!Add

\* A request that came to nothing
LEMMA SyncCounted ==
  ASSUME NEW r \in Sync!Tasks, r.at = "fetch", Sync!FetchOK(r)
  PROVE  /\ Sync!Counted(r) \in Sync!Tasks
         /\ Sync!Counted(r).at \in {"fetch", "failed"}
         /\ Sync!FetchOK(Sync!Counted(r)) /\ Sync!SearchInOrder(Sync!Counted(r))
<1> DEFINE c == [r EXCEPT !.failures = @ + 1]
           f == [r EXCEPT !.at = "failed"]
<1>1. CASE r.failures < SyncMaxFailures
  <2>1. r.failures + 1 \in 0..SyncMaxFailures
    BY <1>1, SyncAssumption DEF Sync!Tasks
  <2>2. /\ c \in Sync!Tasks /\ c.at = "fetch" /\ c.pending = r.pending
        /\ c.ancestor = r.ancestor /\ c.goal = r.goal /\ c.fetched = r.fetched
        /\ c.peer = r.peer
    BY <2>1 DEF Sync!Tasks
  <2>3. Sync!Counted(r) = c
    BY <1>1 DEF Sync!Counted
  <2> HIDE DEF c
  <2> QED BY <2>2, <2>3 DEF Sync!FetchOK, Sync!SearchInOrder, Sync!Searching
<1>2. CASE ~(r.failures < SyncMaxFailures)
  <2>1. /\ f \in Sync!Tasks /\ f.at = "failed" /\ f.pending = r.pending
        /\ f.ancestor = r.ancestor /\ f.goal = r.goal /\ f.fetched = r.fetched
        /\ f.peer = r.peer
    BY DEF Sync!Tasks
  <2>2. Sync!Counted(r) = f
    BY <1>2 DEF Sync!Counted
  <2> HIDE DEF f
  <2> QED BY <2>1, <2>2 DEF Sync!FetchOK, Sync!SearchInOrder, Sync!Searching
<1> QED BY <1>1, <1>2

\* A goroutine takes a height from those it has to fetch.
LEMMA SyncTakes ==
  ASSUME NEW q \in Sync!Tasks, q.at = "fetch", Sync!FetchOK(q),
         NEW h \in Sync!Requested(q),
         NEW r, r = [q EXCEPT !.pending = @ \ {h}]
  PROVE  /\ r \in Sync!Tasks /\ r.at = "fetch" /\ Sync!FetchOK(r) /\ r.peer = q.peer
         /\ r.fetched = q.fetched /\ h \in Nat \ {0}
<1>1. q.pending \ {h} \in SUBSET Nat /\ q.pending \ {h} \subseteq q.pending
  BY DEF Sync!Tasks
<1>2. /\ r \in Sync!Tasks /\ r.at = "fetch" /\ r.pending = q.pending \ {h}
      /\ r.ancestor = q.ancestor /\ r.goal = q.goal /\ r.fetched = q.fetched
      /\ r.peer = q.peer
  BY <1>1 DEF Sync!Tasks
<1>3. h \in (q.ancestor + 1)..q.goal /\ q.ancestor \in Nat /\ q.goal \in Nat
  BY DEF Sync!Requested, Sync!FetchOK, Sync!Tasks
<1> QED BY <1>1, <1>2, <1>3 DEF Sync!FetchOK

\* A worker asks for a block.
LEMMA SyncFetch ==
  ASSUME Sync!SyncInvariant, NEW t \in SyncThreads, Sync!Fetch(t)
  PROVE  Sync!SyncInvariant'
<1> DEFINE q == syncTask[t]
<1>1. /\ UNCHANGED <<syncChain, syncState, syncPlan, syncPeerHeight,
                     syncSyncing, syncTarget>>
      /\ q.at = "fetch" /\ q \in Sync!Tasks
  BY SyncNow DEF Sync!Fetch, Sync!local, Sync!mode
<1>2. PICK h \in Sync!Requested(q) :
        LET r == [q EXCEPT !.pending = @ \ {h}]
        IN  Sync!Set(t, IF h <= syncPeerHeight[r.peer]
                          THEN [r EXCEPT !.at = "add", !.fetched = @ \cup {h},
                                         !.next = Sync!Height + 1]
                          ELSE Sync!Counted(r))
  BY DEF Sync!Fetch
<1> DEFINE r == [q EXCEPT !.pending = @ \ {h}]
<1>3. /\ r \in Sync!Tasks /\ r.at = "fetch" /\ Sync!FetchOK(r) /\ r.peer = q.peer
      /\ r.fetched = q.fetched /\ h \in Nat \ {0}
  BY <1>1, SyncTakes, SyncNow
<1>4. Sync!Set(t, IF h <= syncPeerHeight[r.peer]
                    THEN [r EXCEPT !.at = "add", !.fetched = @ \cup {h},
                                   !.next = Sync!Height + 1]
                    ELSE Sync!Counted(r))
  BY <1>2
<1> HIDE DEF r
<1>5. CASE h <= syncPeerHeight[r.peer]
  <2> DEFINE s == [r EXCEPT !.at = "add", !.fetched = @ \cup {h},
                            !.next = Sync!Height + 1]
  <2>1. Sync!Height + 1 \in Nat /\ r.fetched \cup {h} \in SUBSET Nat
    <3>1. Sync!Height \in Nat
      BY SyncNow
    <3>2. r.fetched \in SUBSET Nat
      BY <1>3 DEF Sync!Tasks
    <3> QED BY <1>3, <3>1, <3>2
  <2>2. /\ s \in Sync!Tasks /\ s.at = "add" /\ s.pending = r.pending
        /\ s.ancestor = r.ancestor /\ s.goal = r.goal /\ s.fetched = r.fetched \cup {h}
        /\ s.peer = r.peer
    BY <1>3, <2>1 DEF Sync!Tasks
  <2>3. h \in 1..Len(SyncServed[r.peer])
    <3>1. r.peer \in SyncPeers
      BY <1>3 DEF Sync!Tasks
    <3>2. /\ syncPeerHeight[r.peer] \in Nat
          /\ syncPeerHeight[r.peer] <= Len(SyncServed[r.peer])
      BY <3>1 DEF Sync!SyncInvariant, Sync!TypeOK
    <3>3. Len(SyncServed[r.peer]) \in Nat
      BY <3>1, SyncAssumption
    <3> QED BY <1>3, <1>5, <3>2, <3>3
  <2>4. Sync!Set(t, s)
    BY <1>4, <1>5
  <2> HIDE DEF s
  <2>5. Sync!FetchOK(s) /\ Sync!SearchInOrder(s)
    BY <1>3, <2>2, <2>3 DEF Sync!FetchOK, Sync!SearchInOrder, Sync!Searching
  <2> QED BY <1>1, <2>2, <2>4, <2>5, SyncMoves, SyncNow
<1>6. CASE ~(h <= syncPeerHeight[r.peer])
  BY <1>1, <1>3, <1>4, <1>6, SyncCounted, SyncMoves, SyncNow
<1> QED BY <1>5, <1>6

\* All is fetched, or there is nothing to do.
LEMMA SyncFetched ==
  ASSUME Sync!SyncInvariant, NEW t \in SyncThreads, Sync!Fetched(t)
  PROVE  Sync!SyncInvariant'
<1> DEFINE q == syncTask[t]
           r == [q EXCEPT !.at = "ended", !.fetched = {}]
<1>1. /\ UNCHANGED <<syncChain, syncState, syncPlan, syncPeerHeight>>
      /\ syncSyncing' \in BOOLEAN /\ syncTarget' \in Nat /\ Sync!Set(t, r)
  BY DEF Sync!Fetched, Sync!local, Sync!StopSync
<1>2. /\ r \in Sync!Tasks /\ r.at = "ended" /\ r.pending = q.pending
      /\ r.ancestor = q.ancestor /\ r.goal = q.goal /\ r.fetched = {} /\ r.peer = q.peer
  BY SyncNow DEF Sync!Tasks
<1> HIDE DEF r
<1>3. Sync!FetchOK(r) /\ Sync!SearchInOrder(r)
  BY <1>2, SyncNow DEF Sync!FetchOK, Sync!SearchInOrder, Sync!Searching
<1> QED BY <1>1, <1>2, <1>3, SyncMoves

\* A sync is over, well or not.
LEMMA SyncEnded ==
  ASSUME Sync!SyncInvariant, NEW t \in SyncThreads,
         Sync!Ended(t) \/ Sync!Failed(t)
  PROVE  Sync!SyncInvariant'
<1>1. /\ UNCHANGED <<syncChain, syncState, syncPlan, syncPeerHeight>>
      /\ syncSyncing' \in BOOLEAN /\ syncTarget' \in Nat
  <2>1. syncSyncing \in BOOLEAN /\ syncTarget \in Nat
    BY SyncNow
  <2>2. UNCHANGED <<syncChain, syncState, syncPlan, syncPeerHeight>>
    BY DEF Sync!Ended, Sync!Failed, Sync!local
  <2>3. Sync!StopSync \/ UNCHANGED Sync!mode
    BY DEF Sync!Ended, Sync!Failed
  <2>4. ASSUME Sync!StopSync PROVE syncSyncing' \in BOOLEAN /\ syncTarget' \in Nat
    <3>1. syncSyncing' = FALSE /\ syncTarget' = 0
      BY <2>4 DEF Sync!StopSync
    <3> QED BY <3>1
  <2>5. UNCHANGED Sync!mode => syncSyncing' \in BOOLEAN /\ syncTarget' \in Nat
    BY <2>1 DEF Sync!mode
  <2> QED BY <2>2, <2>3, <2>4, <2>5
<1>2. \/ Sync!Set(t, Sync!Idle)
      \/ Sync!Set(t, [Sync!Idle EXCEPT !.at = "higher", !.peer = syncTask[t].peer,
                                        !.height = Sync!Height])
  BY DEF Sync!Ended, Sync!Failed
<1>3. syncTask[t].peer \in SyncPeers /\ Sync!Height \in Nat
  BY SyncNow DEF Sync!Tasks
<1> QED BY <1>1, <1>2, <1>3, SyncFromIdle

\* A request is not answered.
LEMMA SyncUnanswered ==
  ASSUME Sync!SyncInvariant, NEW t \in SyncThreads, Sync!Unanswered(t)
  PROVE  Sync!SyncInvariant'
<1> DEFINE q == syncTask[t]
<1>1. /\ UNCHANGED <<syncChain, syncState, syncPlan, syncPeerHeight>>
      /\ syncSyncing' \in BOOLEAN /\ syncTarget' \in Nat
  <2>1. syncSyncing \in BOOLEAN /\ syncTarget \in Nat
    BY SyncNow
  <2>2. UNCHANGED <<syncChain, syncState, syncPlan, syncPeerHeight>>
    BY DEF Sync!Unanswered, Sync!local
  <2>3. Sync!StopSync \/ UNCHANGED Sync!mode
    BY DEF Sync!Unanswered
  <2>4. ASSUME Sync!StopSync PROVE syncSyncing' \in BOOLEAN /\ syncTarget' \in Nat
    <3>1. syncSyncing' = FALSE /\ syncTarget' = 0
      BY <2>4 DEF Sync!StopSync
    <3> QED BY <3>1
  <2>5. UNCHANGED Sync!mode => syncSyncing' \in BOOLEAN /\ syncTarget' \in Nat
    BY <2>1 DEF Sync!mode
  <2> QED BY <2>2, <2>3, <2>4, <2>5
<1>2. CASE Sync!Set(t, Sync!Idle)
  BY <1>1, <1>2, SyncFromIdle
<1>3. CASE Sync!Goto(t, "failed")
  BY <1>1, <1>3, SyncGoes
<1>4. ASSUME q.at = "fetch", NEW h \in Sync!Requested(q),
             Sync!Set(t, Sync!Counted([q EXCEPT !.pending = @ \ {h}]))
      PROVE  Sync!SyncInvariant'
  <2> DEFINE r == [q EXCEPT !.pending = @ \ {h}]
  <2>1. r \in Sync!Tasks /\ r.at = "fetch" /\ Sync!FetchOK(r)
    BY <1>4, SyncTakes, SyncNow
  <2> HIDE DEF r
  <2>2. Sync!Set(t, Sync!Counted(r))
    BY <1>4 DEF r
  <2> QED BY <1>1, <2>1, <2>2, SyncCounted, SyncMoves
<1> QED BY <1>2, <1>3, <1>4 DEF Sync!Unanswered

\* A peer has one more block.
LEMMA SyncPeerGrows ==
  ASSUME Sync!SyncInvariant, NEW p \in SyncPeers, Sync!PeerGrows(p)
  PROVE  Sync!SyncInvariant'
<1>1. /\ UNCHANGED <<syncChain, syncState, syncPlan, syncSyncing, syncTarget, syncTask>>
      /\ syncPeerHeight[p] < syncPlan.limits[p]
      /\ syncPeerHeight' = [syncPeerHeight EXCEPT ![p] = @ + 1]
  BY DEF Sync!PeerGrows, Sync!local, Sync!mode
<1>2. /\ syncPlan.limits[p] \in Nat /\ syncPlan.limits[p] <= Len(SyncServed[p])
      /\ Len(SyncServed[p]) \in Nat
      /\ syncPeerHeight \in [SyncPeers -> Nat]
      /\ \A o \in SyncPeers : syncPeerHeight[o] <= Len(SyncServed[o])
  BY SyncAssumption DEF Sync!SyncInvariant, Sync!TypeOK
<1>3. /\ syncPeerHeight' \in [SyncPeers -> Nat]
      /\ \A o \in SyncPeers : syncPeerHeight'[o] <= Len(SyncServed[o])
  BY <1>1, <1>2
<1>4. Sync!TypeOK'
  BY <1>1, <1>3 DEF Sync!SyncInvariant, Sync!TypeOK, Sync!FetchOK
<1>5. \A u \in SyncThreads : Sync!SearchInOrder(syncTask[u])'
  BY <1>1
  DEF Sync!SyncInvariant, Sync!SearchInOrder, Sync!Shared, Sync!Differs, Sync!Height
<1> QED BY <1>1, <1>4, <1>5 DEF Sync!SyncInvariant, Sync!Linked

\* A block arrives that no sync asked for.
LEMMA SyncGossip ==
  ASSUME Sync!SyncInvariant, NEW p \in SyncPeers, Sync!Gossip(p)
  PROVE  Sync!SyncInvariant'
<1> DEFINE b == SyncServed[p][syncPeerHeight[p]]
<1>1. /\ UNCHANGED <<syncPlan, syncPeerHeight>> /\ syncPeerHeight[p] > 0
      /\ Sync!Extend(b, syncTask)
  BY DEF Sync!Gossip
<1>2. syncPeerHeight[p] \in 1..Len(SyncServed[p])
  BY <1>1, SyncAssumption DEF Sync!SyncInvariant, Sync!TypeOK
<1>3. b \in SyncBlocks
  BY <1>2, SyncAssumption
<1> HIDE DEF b
<1>4. /\ syncTask \in [SyncThreads -> Sync!Tasks]
      /\ \A u \in SyncThreads :
           Sync!FetchOK(syncTask[u]) /\ Sync!SearchInOrder(syncTask[u])
  BY DEF Sync!SyncInvariant, Sync!TypeOK
<1> QED BY <1>1, <1>3, <1>4, SyncCuts, SyncFollows

\* Every step keeps the invariant.
LEMMA SyncStep ==
  ASSUME Sync!SyncInvariant, [Sync!Next]_(Sync!vars)
  PROVE  Sync!SyncInvariant'
<1>1. ASSUME NEW t \in SyncThreads,
             \/ Sync!Step(t) \/ Sync!FastSyncCheck(t) \/ Sync!ForceSync(t)
             \/ Sync!Unanswered(t)
             \/ Sync!ForceInitialSync(t) \/ Sync!PeriodicSyncCheck(t)
             \/ \E p \in SyncPeers : Sync!SyncIfBehind(t, p)
      PROVE  Sync!SyncInvariant'
  BY <1>1, SyncBegins, SyncCheck, SyncAskHeight, SyncContinue, SyncForce,
     SyncForceStart, SyncBegin, SyncCompare, SyncSearch, SyncTruncate, SyncFetch,
     SyncAdd, SyncFetched, SyncEnded, SyncUnanswered DEF Sync!Step
<1>2. CASE UNCHANGED Sync!vars
  BY <1>2 DEF Sync!vars, Sync!local, Sync!mode, Sync!SyncInvariant, Sync!TypeOK,
              Sync!FetchOK, Sync!Linked, Sync!SearchInOrder, Sync!Shared,
              Sync!Differs, Sync!Height
<1> QED BY <1>1, <1>2, SyncPeerGrows, SyncGossip DEF Sync!Next

\* It holds to begin with.
LEMMA SyncInit == Sync!Init => Sync!SyncInvariant
<1> SUFFICES ASSUME Sync!Init PROVE Sync!SyncInvariant
  OBVIOUS
<1>1. /\ syncPlan \in SyncBeginnings
      /\ syncChain = syncPlan.chain /\ syncState = syncPlan.chain
      /\ syncPeerHeight = syncPlan.heights
      /\ syncSyncing = FALSE /\ syncTarget = 0
      /\ syncTask = [t \in SyncThreads |-> Sync!Idle]
  BY DEF Sync!Init
<1>2. \A t \in SyncThreads : /\ syncTask[t] \in Sync!Tasks /\ Sync!FetchOK(syncTask[t])
                             /\ Sync!SearchInOrder(syncTask[t])
  BY <1>1, SyncIdle, SyncFresh
<1>3. syncTask \in [SyncThreads -> Sync!Tasks]
  BY <1>1, SyncIdle
<1>4. Sync!TypeOK
  BY <1>1, <1>2, <1>3, SyncAssumption DEF Sync!TypeOK
<1>5. Sync!Linked(syncChain)
  BY <1>1, SyncAssumption
<1> QED BY <1>2, <1>4, <1>5 DEF Sync!SyncInvariant

\* A steady search ends where the chains part.
LEMMA SyncCutsAtFork ==
  ASSUME Sync!SyncInvariant, NEW t \in SyncThreads, Sync!Truncate(t),
         syncChain' # syncChain, syncTask[t].steady
  PROVE  LET p == syncTask[t].peer
             h == Len(syncChain')
         IN  /\ syncChain' = SubSeq(SyncServed[p], 1, h)
             /\ syncChain[h + 1] # SyncServed[p][h + 1]
<1> DEFINE q == syncTask[t]
           h == q.ancestor
           p == q.peer
<1>1. /\ q.at = "truncate" /\ h # q.height /\ ~(h >= Sync!Height)
      /\ syncChain' = SubSeq(syncChain, 1, h)
  BY DEF Sync!Truncate, Sync!TruncateTo, Sync!local
<1>2. /\ h \in Nat /\ p \in SyncPeers
      /\ syncChain \in Seq(SyncBlocks) /\ Sync!Linked(syncChain)
  BY SyncNow DEF Sync!Tasks, Sync!SyncInvariant
<1>3. Sync!Shared(p, h) /\ Sync!Differs(p, h + 1)
  BY <1>1, SyncNow DEF Sync!SearchInOrder
<1>4. h \in 0..Len(syncChain)
  BY <1>1, <1>2 DEF Sync!Height
<1>5. Len(syncChain') = h
  BY <1>1, <1>2, <1>4, PrefixOf, h \in 0..h
<1>6. SyncServed[p] \in Seq(SyncBlocks) /\ Sync!Linked(SyncServed[p])
  BY <1>2, SyncAssumption
<1>7. SubSeq(syncChain, 1, h) = SubSeq(SyncServed[p], 1, h)
  <2> HIDE DEF h, p
  <2>1. CASE h = 0
    BY <1>2, <1>6, <2>1
  <2>2. CASE h # 0
    <3>1. /\ h \in 1..Len(syncChain) /\ h \in 1..Len(SyncServed[p])
          /\ syncChain[h] = SyncServed[p][h]
      BY <1>2, <1>3, <1>4, <1>6, <2>2 DEF Sync!Shared
    <3> QED BY <1>2, <1>6, <3>1 DEF Sync!Linked
  <2> QED BY <2>1, <2>2
<1>8. syncChain[h + 1] # SyncServed[p][h + 1]
  BY <1>3 DEF Sync!Differs
<1> QED BY <1>1, <1>5, <1>7, <1>8

\* A step of one goroutine is its own.
LEMMA SyncSets ==
  ASSUME Sync!SyncInvariant, NEW t \in SyncThreads, NEW r, Sync!Set(t, r)
  PROVE  syncTask'[t] = r /\ \A u \in SyncThreads \ {t} : syncTask'[u] = syncTask[u]
BY DEF Sync!Set, Sync!SyncInvariant, Sync!TypeOK

\* A goroutine that goes on elsewhere has the goal it had.
LEMMA SyncGoesTo ==
  ASSUME Sync!SyncInvariant, NEW t \in SyncThreads, NEW a, Sync!Goto(t, a)
  PROVE  syncTask'[t].at = a /\ syncTask'[t].goal = syncTask[t].goal
<1> DEFINE r == [syncTask[t] EXCEPT !.at = a]
<1>1. r.at = a /\ r.goal = syncTask[t].goal
  BY SyncNow DEF Sync!Tasks
<1>2. Sync!Set(t, r)
  BY DEF Sync!Goto
<1> HIDE DEF r
<1> QED BY <1>1, <1>2, SyncSets

\* After a step of t the flag is off, or t will clear it; or the step is none
\* of a sync, and did not touch the flag.
Handled(t) ==
  \/ ~syncSyncing'
  \/ Sync!EndsSync(syncTask[t])'
  \/ /\ ~Sync!EndsSync(syncTask[t])
     /\ UNCHANGED <<syncSyncing, syncChain>>
     /\ \A u \in SyncThreads \ {t} : syncTask'[u] = syncTask[u]

\* No step that begins a sync leaves the flag on for nobody.
LEMMA SyncHandlesBegin ==
  ASSUME Sync!SyncInvariant, NEW t \in SyncThreads,
         \/ Sync!FastSyncCheck(t) \/ Sync!Check(t) \/ Sync!AskHeight(t)
         \/ Sync!ContinueWithHigherPeer(t) \/ Sync!ForceStart(t) \/ Sync!Begin(t)
         \/ Sync!ForceInitialSync(t) \/ Sync!PeriodicSyncCheck(t)
         \/ \E p \in SyncPeers : Sync!SyncIfBehind(t, p)
  PROVE  Handled(t)
<1> DEFINE q == syncTask[t]
<1>1. q \in Sync!Tasks
  BY SyncNow
<1>2. ASSUME NEW r, Sync!Set(t, r), r.at \in {"begin", "higher", "tip", "truncate"}
      PROVE  Handled(t)
  BY <1>2, SyncSets DEF Handled, Sync!EndsSync, Sync!Running
<1>3. CASE \/ Sync!FastSyncCheck(t) \/ Sync!Check(t)
           \/ Sync!ForceInitialSync(t) \/ Sync!PeriodicSyncCheck(t)
           \/ \E p \in SyncPeers : Sync!SyncIfBehind(t, p)
  <2>1. /\ q.at \in {"idle", "check"} /\ UNCHANGED <<syncSyncing, syncChain>>
        /\ \E r : Sync!Set(t, r)
    BY <1>3 DEF Sync!FastSyncCheck, Sync!Check, Sync!ForceInitialSync,
                Sync!PeriodicSyncCheck, Sync!SyncIfBehind, Sync!local, Sync!mode
  <2> QED BY <2>1, SyncSets DEF Handled, Sync!EndsSync, Sync!Running
<1>4. CASE Sync!AskHeight(t)
  <2> DEFINE h == Sync!Claim(q.peer)
             r == [q EXCEPT !.at = "begin", !.goal = h]
  <2>1. CASE Sync!Goto(t, "higher")
    BY <2>1, SyncGoesTo DEF Handled, Sync!EndsSync, Sync!Running
  <2>2. CASE Sync!Set(t, r)
    <3>1. r.at = "begin"
      BY <1>1 DEF Sync!Tasks
    <3> HIDE DEF r
    <3> QED BY <1>2, <2>2, <3>1
  <2> QED BY <1>4, <2>1, <2>2 DEF Sync!AskHeight
<1>5. CASE Sync!ContinueWithHigherPeer(t)
  <2>1. CASE Sync!StopSync
    BY <2>1 DEF Handled, Sync!StopSync
  <2>2. ASSUME NEW p, NEW g,
               Sync!Set(t, [Sync!Idle EXCEPT !.at = "begin", !.kind = "higher",
                                             !.peer = p, !.goal = g])
        PROVE  Handled(t)
    <3> DEFINE r == [Sync!Idle EXCEPT !.at = "begin", !.kind = "higher",
                                      !.peer = p, !.goal = g]
    <3>1. r.at = "begin"
      BY SyncIdle DEF Sync!Tasks
    <3>2. Sync!Set(t, r)
      BY <2>2
    <3> HIDE DEF r
    <3> QED BY <1>2, <3>1, <3>2
  <2> QED BY <1>5, <2>1, <2>2 DEF Sync!ContinueWithHigherPeer
<1>6. CASE Sync!ForceStart(t)
  <2>1. CASE Sync!Set(t, Sync!Idle) /\ UNCHANGED Sync!mode
    <3>1. q.at = "force" /\ UNCHANGED <<syncSyncing, syncChain>>
      BY <1>6, <2>1 DEF Sync!ForceStart, Sync!mode, Sync!local
    <3> QED BY <2>1, <3>1, SyncSets DEF Handled, Sync!EndsSync, Sync!Running
  <2>2. ASSUME NEW p, NEW g,
               Sync!Set(t, [q EXCEPT !.at = "begin", !.peer = p, !.goal = g])
        PROVE  Handled(t)
    <3> DEFINE r == [q EXCEPT !.at = "begin", !.peer = p, !.goal = g]
    <3>1. r.at = "begin"
      BY <1>1 DEF Sync!Tasks
    <3>2. Sync!Set(t, r)
      BY <2>2
    <3> HIDE DEF r
    <3> QED BY <1>2, <3>1, <3>2
  <2> QED BY <1>6, <2>1, <2>2 DEF Sync!ForceStart
<1>7. CASE Sync!Begin(t)
  <2> DEFINE r == [q EXCEPT !.at = IF Sync!Height = 0 THEN "truncate" ELSE "tip",
                            !.height = Sync!Height, !.steady = TRUE]
  <2>1. CASE q.goal <= Sync!Height /\ Sync!Goto(t, "ended")
    <3>1. UNCHANGED syncChain
      BY <1>7 DEF Sync!Begin, Sync!local
    <3>2. syncTask'[t].at = "ended" /\ syncTask'[t].goal <= Sync!Height'
      BY <2>1, <3>1, SyncGoesTo DEF Sync!Height
    <3>3. q.goal \in Nat /\ Sync!Height' \in Nat /\ syncTask'[t].goal = q.goal
      BY <1>1, <2>1, <3>1, SyncNow, SyncGoesTo DEF Sync!Tasks, Sync!Height
    <3> QED BY <3>2, <3>3 DEF Handled, Sync!EndsSync, Sync!Running
  <2>2. CASE Sync!Set(t, r)
    <3>1. r.at \in {"truncate", "tip"}
      BY <1>1 DEF Sync!Tasks
    <3> HIDE DEF r
    <3> QED BY <1>2, <2>2, <3>1
  <2> QED BY <1>7, <2>1, <2>2 DEF Sync!Begin
<1> QED BY <1>3, <1>4, <1>5, <1>6, <1>7

\* No step of a sync leaves the flag on for nobody, if it was not forced.
LEMMA SyncHandlesRest ==
  ASSUME Sync!SyncInvariant, NEW t \in SyncThreads, syncTask[t].kind # "force",
         \/ Sync!CompareTips(t) \/ Sync!Search(t) \/ Sync!Fetch(t) \/ Sync!Fetched(t)
         \/ Sync!Ended(t) \/ Sync!Failed(t) \/ Sync!Unanswered(t)
  PROVE  Handled(t)
<1> DEFINE q == syncTask[t]
<1>1. q \in Sync!Tasks
  BY SyncNow
<1>2. ASSUME NEW r, Sync!Set(t, r), r.at \in Sync!Running \ {"ended"}
      PROVE  Handled(t)
  BY <1>2, SyncSets DEF Handled, Sync!EndsSync, Sync!Running
<1>3. ASSUME NEW a \in Sync!Running \ {"ended"}, Sync!Goto(t, a)
      PROVE  Handled(t)
  BY <1>3, SyncGoesTo DEF Handled, Sync!EndsSync, Sync!Running
<1>4. CASE Sync!StopSync
  BY <1>4 DEF Handled, Sync!StopSync
<1>5. CASE Sync!CompareTips(t)
  <2> DEFINE r == [q EXCEPT !.at = "truncate", !.ancestor = q.height]
             s == [q EXCEPT !.at = "search", !.high = q.height]
  <2>1. r.at = "truncate" /\ s.at = "search"
    BY <1>1 DEF Sync!Tasks
  <2>2. Sync!Goto(t, "failed") \/ Sync!Set(t, r) \/ Sync!Set(t, s)
    BY <1>5 DEF Sync!CompareTips
  <2> HIDE DEF r, s
  <2> QED BY <1>2, <1>3, <2>1, <2>2 DEF Sync!Running
<1>6. CASE Sync!Search(t)
  <2> DEFINE middle == q.low + (q.high - q.low) \div 2
             r == [q EXCEPT !.at = "truncate", !.low = 0, !.high = 0]
             n == Sync!Narrowed(q, Sync!SameAt(q.peer, middle))
  <2>1. r.at = "truncate"
    BY <1>1 DEF Sync!Tasks
  <2>2. q.at = "search"
    BY <1>6 DEF Sync!Search
  <2>3. n.at = "search"
    BY <1>1, <2>2 DEF Sync!Narrowed, Sync!Tasks
  <2>4. Sync!Goto(t, "failed") \/ Sync!Set(t, r) \/ Sync!Set(t, n)
    BY <1>6 DEF Sync!Search
  <2> HIDE DEF r, n
  <2> QED BY <1>2, <1>3, <2>1, <2>3, <2>4 DEF Sync!Running
<1>7. ASSUME NEW r \in Sync!Tasks, r.at = "fetch", Sync!FetchOK(r),
             Sync!Set(t, Sync!Counted(r))
      PROVE  Handled(t)
  BY <1>2, <1>7, SyncCounted DEF Sync!Running
<1>8. CASE Sync!Fetch(t)
  <2>1. q.at = "fetch"
    BY <1>8 DEF Sync!Fetch
  <2>2. PICK h \in Sync!Requested(q) :
          LET r == [q EXCEPT !.pending = @ \ {h}]
          IN  Sync!Set(t, IF h <= syncPeerHeight[r.peer]
                            THEN [r EXCEPT !.at = "add", !.fetched = @ \cup {h},
                                           !.next = Sync!Height + 1]
                            ELSE Sync!Counted(r))
    BY <1>8 DEF Sync!Fetch
  <2> DEFINE r == [q EXCEPT !.pending = @ \ {h}]
             s == [r EXCEPT !.at = "add", !.fetched = @ \cup {h},
                            !.next = Sync!Height + 1]
  <2>3. r \in Sync!Tasks /\ r.at = "fetch" /\ Sync!FetchOK(r)
    BY <1>1, <2>1, SyncTakes, SyncNow
  <2>4. Sync!Set(t, s) \/ Sync!Set(t, Sync!Counted(r))
    BY <2>2
  <2> HIDE DEF r
  <2>5. s.at = "add"
    BY <2>3 DEF Sync!Tasks
  <2> HIDE DEF s
  <2> QED BY <1>2, <1>7, <2>3, <2>4, <2>5 DEF Sync!Running
<1>9. CASE Sync!Fetched(t)
  BY <1>4, <1>9 DEF Sync!Fetched
<1>10. CASE Sync!Ended(t)
  <2> DEFINE r == [Sync!Idle EXCEPT !.at = "higher", !.peer = q.peer,
                                    !.height = Sync!Height]
  <2>1. r.at = "higher"
    BY SyncIdle DEF Sync!Tasks
  <2>2. q.kind \in {"behind", "higher"} /\ q.at = "ended" /\ UNCHANGED syncChain
    BY <1>1, <1>10 DEF Sync!Ended, Sync!Tasks, Sync!Kinds, Sync!local
  <2>3. \/ Sync!Set(t, r) \/ Sync!StopSync
        \/ /\ ~(Sync!Height >= q.goal)
           /\ Sync!Set(t, Sync!Idle) /\ UNCHANGED Sync!mode
    BY <1>10, <2>2 DEF Sync!Ended
  <2> HIDE DEF r
  <2>4. CASE ~(Sync!Height >= q.goal) /\ Sync!Set(t, Sync!Idle) /\ UNCHANGED Sync!mode
    BY <2>2, <2>4, SyncSets DEF Handled, Sync!EndsSync, Sync!Running, Sync!mode
  <2> QED BY <1>2, <1>4, <2>1, <2>3, <2>4 DEF Sync!Running
<1>11. CASE Sync!Failed(t)
  <2>1. Sync!StopSync \/ (~syncSyncing /\ UNCHANGED Sync!mode)
    BY <1>11 DEF Sync!Failed
  <2> QED BY <1>4, <2>1 DEF Handled, Sync!mode
<1>12. CASE Sync!Unanswered(t)
  <2>1. CASE q.at \in {"ask", "force"} /\ Sync!Set(t, Sync!Idle) /\ UNCHANGED Sync!mode
    <3>1. UNCHANGED syncChain
      BY <1>12 DEF Sync!Unanswered, Sync!local
    <3> QED BY <2>1, <3>1, SyncSets
            DEF Handled, Sync!EndsSync, Sync!Running, Sync!mode
  <2>2. ASSUME q.at = "fetch", NEW h \in Sync!Requested(q),
               Sync!Set(t, Sync!Counted([q EXCEPT !.pending = @ \ {h}]))
        PROVE  Handled(t)
    BY <1>1, <1>7, <2>2, SyncTakes, SyncNow
  <2> QED BY <1>3, <1>4, <1>12, <2>1, <2>2 DEF Sync!Unanswered, Sync!Running
<1> QED BY <1>5, <1>6, <1>8, <1>9, <1>10, <1>11, <1>12

\* A chain that is not lower ends no sync below its goal.
LEMMA SyncExtends ==
  ASSUME Sync!SyncInvariant, NEW b \in SyncBlocks,
         NEW tasks \in [SyncThreads -> Sync!Tasks], Sync!Extend(b, tasks),
         Len(SyncPath[b]) >= Sync!Height,
         \A u \in SyncThreads : Sync!EndsSync(syncTask[u]) => Sync!EndsSync(tasks[u]),
         Sync!SyncAttended
  PROVE  Sync!SyncAttended'
<1>1. /\ syncChain' = SyncPath[b] /\ syncTask' = Sync!Unsteady(tasks)
      /\ (syncSyncing' => syncSyncing)
  BY DEF Sync!Extend
<1>2. SUFFICES ASSUME syncSyncing'
               PROVE  \E u \in SyncThreads : Sync!EndsSync(syncTask[u])'
  BY DEF Sync!SyncAttended
<1>3. PICK u \in SyncThreads : Sync!EndsSync(syncTask[u])
  BY <1>1, <1>2 DEF Sync!SyncAttended
<1>4. Sync!EndsSync(tasks[u]) /\ tasks[u] \in Sync!Tasks
  BY <1>3
<1>5. syncTask'[u].at = tasks[u].at /\ syncTask'[u].goal = tasks[u].goal
  BY <1>1, <1>4 DEF Sync!Unsteady, Sync!Tasks
<1>6. Sync!Height' >= Sync!Height /\ Sync!Height \in Nat /\ Sync!Height' \in Nat
  BY <1>1, SyncAssumption, SyncNow DEF Sync!Height
<1>7. tasks[u].goal \in Nat
  BY <1>4 DEF Sync!Tasks
<1>8. Sync!EndsSync(syncTask[u])'
  BY <1>4, <1>5, <1>6, <1>7 DEF Sync!EndsSync
<1> QED BY <1>8

\* A step that was handled leaves the flag to somebody.
LEMMA SyncHandled ==
  ASSUME Sync!SyncInvariant, Sync!SyncAttended, NEW t \in SyncThreads, Handled(t)
  PROVE  Sync!SyncAttended'
<1>1. CASE ~syncSyncing' \/ Sync!EndsSync(syncTask[t])'
  BY <1>1 DEF Sync!SyncAttended
<1>2. CASE /\ syncSyncing' /\ ~Sync!EndsSync(syncTask[t])
           /\ UNCHANGED <<syncSyncing, syncChain>>
           /\ \A u \in SyncThreads \ {t} : syncTask'[u] = syncTask[u]
  <2>1. PICK u \in SyncThreads : Sync!EndsSync(syncTask[u])
    BY <1>2 DEF Sync!SyncAttended
  <2>2. u \in SyncThreads \ {t}
    BY <1>2, <2>1
  <2>3. Sync!EndsSync(syncTask[u])'
    BY <1>2, <2>1, <2>2 DEF Sync!EndsSync, Sync!Height
  <2> QED BY <2>3 DEF Sync!SyncAttended
<1> QED BY <1>1, <1>2 DEF Handled

\* Adding a block leaves the goroutine to add the next.
LEMMA SyncAttendedAdd ==
  ASSUME Sync!SyncInvariant, Sync!SyncAttended, NEW t \in SyncThreads, Sync!Add(t)
  PROVE  Sync!SyncAttended'
<1> DEFINE q == syncTask[t]
           r == [q EXCEPT !.fetched = @ \ {q.next}, !.next = @ + 1]
           s == [q EXCEPT !.at = "fetch", !.next = 0]
           b == SyncServed[q.peer][q.next]
<1>1. q.at = "add" /\ q \in Sync!Tasks
  BY SyncNow DEF Sync!Add
<1>2. r \in Sync!Tasks /\ r.at = "add" /\ s.at = "fetch"
  <2>1. q.fetched \ {q.next} \in SUBSET Nat /\ q.next + 1 \in Nat
    BY <1>1 DEF Sync!Tasks
  <2> QED BY <1>1, <2>1 DEF Sync!Tasks
<1>3. CASE Sync!Set(t, r) \/ Sync!Set(t, s)
  <2> HIDE DEF r, s
  <2>1. Sync!EndsSync(syncTask[t])'
    BY <1>2, <1>3, SyncSets DEF Sync!EndsSync, Sync!Running
  <2> QED BY <2>1 DEF Sync!SyncAttended
<1>4. CASE /\ q.next \in q.fetched /\ Sync!Follows(b)
           /\ Sync!Extend(b, [syncTask EXCEPT ![t] = r])
  <2>1. q.next \in 1..Len(SyncServed[q.peer]) /\ q.peer \in SyncPeers
    BY <1>1, <1>4, SyncNow DEF Sync!FetchOK, Sync!Tasks
  <2>2. b \in SyncBlocks
    BY <2>1, SyncAssumption
  <2> HIDE DEF r, b
  <2> DEFINE tasks == [syncTask EXCEPT ![t] = r]
  <2>3. tasks \in [SyncThreads -> Sync!Tasks] /\ tasks[t] = r
        /\ \A u \in SyncThreads \ {t} : tasks[u] = syncTask[u]
    BY <1>2 DEF Sync!SyncInvariant, Sync!TypeOK
  <2>4. Sync!EndsSync(tasks[t])
    BY <1>2, <2>3 DEF Sync!EndsSync, Sync!Running
  <2>5. Len(SyncPath[b]) >= Sync!Height
    BY <1>4, SyncNow DEF Sync!Follows, Sync!Height
  <2>6. Sync!Extend(b, tasks)
    BY <1>4
  <2> HIDE DEF tasks
  <2>7. \A u \in SyncThreads : Sync!EndsSync(syncTask[u]) => Sync!EndsSync(tasks[u])
    BY <2>3, <2>4
  <2> QED BY <2>2, <2>3, <2>5, <2>6, <2>7, SyncExtends
<1> QED BY <1>3, <1>4 DEF Sync!Add

\* A truncation leaves the goroutine to fetch.
LEMMA SyncAttendedTruncate ==
  ASSUME Sync!SyncInvariant, NEW t \in SyncThreads, Sync!Truncate(t)
  PROVE  Sync!SyncAttended'
<1> DEFINE q == syncTask[t]
           r == [q EXCEPT !.at = "fetch", !.pending = (q.ancestor + 1)..q.goal,
                       !.steady = FALSE]
<1>1. q \in Sync!Tasks /\ syncTask \in [SyncThreads -> Sync!Tasks]
  BY SyncNow DEF Sync!SyncInvariant, Sync!TypeOK
<1>2. r.at = "fetch" /\ [r EXCEPT !.steady = FALSE].at = "fetch"
  BY <1>1 DEF Sync!Tasks
<1>3. \/ Sync!Goto(t, "failed") \/ Sync!Set(t, r)
      \/ syncTask' = Sync!Unsteady([syncTask EXCEPT ![t] = r])
  BY DEF Sync!Truncate, Sync!TruncateTo
<1>4. syncTask'[t].at \in {"failed", "fetch"}
  <2>1. CASE Sync!Goto(t, "failed")
    BY <2>1, SyncGoesTo
  <2>2. CASE Sync!Set(t, r)
    BY <1>2, <2>2, SyncSets
  <2>3. CASE syncTask' = Sync!Unsteady([syncTask EXCEPT ![t] = r])
    <3>1. syncTask'[t] = [r EXCEPT !.steady = FALSE]
      BY <1>1, <2>3 DEF Sync!Unsteady
    <3> QED BY <1>2, <3>1
  <2> QED BY <1>3, <2>1, <2>2, <2>3
<1>5. Sync!EndsSync(syncTask[t])'
  BY <1>4 DEF Sync!EndsSync, Sync!Running
<1> QED BY <1>5 DEF Sync!SyncAttended

\* A block that arrives is never below the tip.
LEMMA SyncAttendedGossip ==
  ASSUME Sync!SyncInvariant, Sync!SyncAttended, NEW p \in SyncPeers, Sync!Gossip(p)
  PROVE  Sync!SyncAttended'
<1> DEFINE b == SyncServed[p][syncPeerHeight[p]]
<1>1. /\ syncPeerHeight[p] > 0 /\ Sync!Extend(b, syncTask)
      /\ \/ SyncPath[b] = Append(syncChain, b)
         \/ /\ Sync!Height > 0
            /\ SyncPath[b] = Append(SubSeq(syncChain, 1, Sync!Height - 1), b)
  BY DEF Sync!Gossip, Sync!Follows
<1>2. syncPeerHeight[p] \in 1..Len(SyncServed[p])
  BY <1>1, SyncAssumption DEF Sync!SyncInvariant, Sync!TypeOK
<1>3. b \in SyncBlocks
  BY <1>2, SyncAssumption
<1> HIDE DEF b
<1>4. Len(SyncPath[b]) >= Sync!Height
  BY <1>1, SyncNow DEF Sync!Height
<1>5. syncTask \in [SyncThreads -> Sync!Tasks]
  BY DEF Sync!SyncInvariant, Sync!TypeOK
<1> QED BY <1>1, <1>3, <1>4, <1>5, SyncExtends

\* No goroutine was started by forceSync.
NobodyForces == \A t \in SyncThreads : syncTask[t].kind # "force"

\* While nobody forces a sync, the flag is never on for nobody.
LEMMA SyncAttendedStep ==
  ASSUME Sync!SyncInvariant, Sync!SyncAttended, NobodyForces, NobodyForces',
         [Sync!Next]_(Sync!vars)
  PROVE  Sync!SyncAttended'
<1>1. ASSUME NEW t \in SyncThreads, Sync!ForceSync(t) PROVE FALSE
  <2> DEFINE r == [Sync!Idle EXCEPT !.at = "force", !.kind = "force"]
  <2>1. r.kind = "force"
    BY SyncIdle DEF Sync!Tasks
  <2>2. Sync!Set(t, r)
    BY <1>1 DEF Sync!ForceSync
  <2> HIDE DEF r
  <2> QED BY <2>1, <2>2, SyncSets DEF NobodyForces
<1>2. ASSUME NEW t \in SyncThreads,
             \/ Sync!Step(t) \/ Sync!FastSyncCheck(t) \/ Sync!ForceSync(t)
             \/ Sync!Unanswered(t)
             \/ Sync!ForceInitialSync(t) \/ Sync!PeriodicSyncCheck(t)
             \/ \E p \in SyncPeers : Sync!SyncIfBehind(t, p)
      PROVE  Sync!SyncAttended'
  <2>1. syncTask[t].kind # "force"
    BY DEF NobodyForces
  <2>2. CASE Handled(t)
    BY <2>2, SyncHandled
  <2>3. CASE Sync!Add(t) \/ Sync!Truncate(t)
    BY <2>3, SyncAttendedAdd, SyncAttendedTruncate
  <2> QED BY <1>1, <1>2, <2>1, <2>2, <2>3, SyncHandlesBegin, SyncHandlesRest
          DEF Sync!Step
<1>3. ASSUME UNCHANGED <<syncTask, syncSyncing, syncChain>>
      PROVE  Sync!SyncAttended'
  BY <1>3 DEF Sync!SyncAttended, Sync!EndsSync, Sync!Height
<1>4. ASSUME NEW p \in SyncPeers, Sync!PeerGrows(p) PROVE Sync!SyncAttended'
  BY <1>3, <1>4 DEF Sync!PeerGrows, Sync!local, Sync!mode
<1>5. CASE UNCHANGED Sync!vars
  BY <1>3, <1>5 DEF Sync!vars, Sync!local, Sync!mode
<1> QED BY <1>2, <1>4, <1>5, SyncAttendedGossip DEF Sync!Next

\* For any tree of blocks, any peers and what they serve, any goroutines, workers
\* and limits: as long as forceSync was not called, sync mode is never on without
\* a goroutine that will clear it or go on with another peer (syncIfBehind,
\* continueSyncWithHigherPeer, syncMissingBlocks), whatever requests go unanswered;
\* and a truncation (prepareFastSyncAncestor, TruncateTo) leaves exactly what the
\* node shares with the peer, unless the chain changed during its search.
THEOREM SyncKeepsTheChain == Sync!Spec => SyncKeepsChain
<1> DEFINE Cut == \A t \in SyncThreads :
             Sync!Truncate(t) /\ syncChain' # syncChain /\ syncTask[t].steady =>
               LET p == syncTask[t].peer
                   h == Len(syncChain')
               IN  /\ syncChain' = SubSeq(SyncServed[p], 1, h)
                   /\ syncChain[h + 1] # SyncServed[p][h + 1]
<1>1. Sync!Init => Sync!SyncInvariant /\ Sync!SyncAttended
  BY SyncInit DEF Sync!Init, Sync!SyncAttended
<1>2. Sync!SyncInvariant /\ [Sync!Next]_(Sync!vars) => Sync!SyncInvariant'
  BY SyncStep
<1>3. Sync!SyncInvariant /\ [Sync!Next]_(Sync!vars) => [Cut]_(Sync!vars)
  BY SyncCutsAtFork
<1>4. /\ Sync!SyncInvariant /\ Sync!SyncAttended /\ NobodyForces /\ NobodyForces'
      /\ [Sync!Next]_(Sync!vars)
      => Sync!SyncAttended'
  BY SyncAttendedStep
<1>5. Sync!SyncAttended => ~Sync!Abandoned
  BY DEF Sync!SyncAttended, Sync!Abandoned, Sync!EndsSync
<1>6. (\A t \in SyncThreads : syncTask[t].kind # "force") <=> NobodyForces
  BY DEF NobodyForces
<1> HIDE DEF Cut
<1>7. Sync!Spec => [][Cut]_(Sync!vars)
  BY <1>1, <1>2, <1>3, PTL DEF Sync!Spec
<1>8. Sync!Spec => ([]NobodyForces => []~Sync!Abandoned)
  BY <1>1, <1>2, <1>4, <1>5, PTL DEF Sync!Spec
<1> QED BY <1>7, <1>8, PTL
  DEF SyncKeepsChain, Sync!AbandonedOnlyByForce, Sync!TruncatesAtFork, Cut,
      NobodyForces

-----------------------------------------------------------------------------
(* TipConsensus: the tree of blocks. *)

TipAll == TipBlocks \cup {"G"}

\* A block is one higher than its parent, and every block has a parent.
LEMMA TipParentIs ==
  ASSUME NEW b \in TipBlocks
  PROVE  /\ TipPath[b] \in Seq(TipBlocks)
         /\ Tips!Height(b) = Len(TipPath[b])
         /\ Tips!Height(b) \in Nat \ {0}
         /\ Tips!Parent(b) \in TipAll
         /\ Tips!Height(Tips!Parent(b)) = Tips!Height(b) - 1
         /\ Tips!Height(b) > 1 =>
              /\ Tips!Parent(b) \in TipBlocks
              /\ TipPath[Tips!Parent(b)] = SubSeq(TipPath[b], 1, Tips!Height(b) - 1)
<1>1. /\ TipPath[b] \in Seq(TipBlocks)
      /\ Len(TipPath[b]) > 0
      /\ \A i \in 1..Len(TipPath[b]) : TipPath[TipPath[b][i]] = SubSeq(TipPath[b], 1, i)
  BY TipAssumption
<1>2. /\ Len(TipPath[b]) \in Nat \ {0}
      /\ Tips!Height(b) = Len(TipPath[b])
  BY <1>1, LenProperties DEF Tips!Height
<1>3. CASE Len(TipPath[b]) = 1
  BY <1>1, <1>2, <1>3, TipAssumption DEF Tips!Parent, Tips!Height, TipAll
<1>4. CASE Len(TipPath[b]) # 1
  <2> DEFINE n == Len(TipPath[b]) - 1
  <2>1. n \in 1..Len(TipPath[b]) /\ n \in Nat
    <3> DEFINE L == Len(TipPath[b])
    <3>1. L \in Nat \ {0} /\ L # 1
      BY <1>2, <1>4
    <3> HIDE DEF L
    <3>2. L - 1 \in 1..L /\ L - 1 \in Nat
      BY <3>1
    <3> QED BY <3>2 DEF L
  <2>2. Tips!Parent(b) = TipPath[b][n] /\ TipPath[b][n] \in TipBlocks
    BY <1>1, <1>4, <2>1, ElementOfSeq DEF Tips!Parent
  <2>3. TipPath[Tips!Parent(b)] = SubSeq(TipPath[b], 1, n)
    BY <1>1, <2>1, <2>2
  <2>4. Len(SubSeq(TipPath[b], 1, n)) = n
    BY <1>1, <2>1, LenProperties, SubSeqProperties
  <2> QED
    BY <1>1, <1>2, <2>2, <2>3, <2>4 DEF Tips!Height, TipAll
<1> QED BY <1>1, <1>2, <1>3, <1>4

\* The ancestors of a block, up to the block itself.
LEMMA TipAncestorIs ==
  ASSUME NEW x \in TipAll, NEW h \in 0..Tips!Height(x)
  PROVE  /\ Tips!Height(x) \in Nat /\ h \in Nat
         /\ Tips!Ancestor(x, h) \in TipAll
         /\ Tips!Height(Tips!Ancestor(x, h)) = h
         /\ h >= 1 => /\ x \in TipBlocks /\ Tips!Ancestor(x, h) \in TipBlocks
                      /\ TipPath[Tips!Ancestor(x, h)] = SubSeq(TipPath[x], 1, h)
<1>1. Tips!Height(x) \in Nat /\ h \in Nat
  <2>1. Tips!Height(x) \in Nat
    BY TipParentIs DEF Tips!Height, TipAll
  <2> QED BY <2>1
<1>2. CASE h = 0
  BY <1>1, <1>2, TipAssumption DEF Tips!Ancestor, TipAll, Tips!Height
<1>3. CASE h >= 1
  <2>1. x \in TipBlocks
    BY <1>1, <1>3 DEF Tips!Height
  <2>2. TipPath[x] \in Seq(TipBlocks) /\ Tips!Height(x) = Len(TipPath[x])
    BY <2>1, TipParentIs
  <2>3. h \in 1..Len(TipPath[x])
    BY <1>1, <1>3, <2>2
  <2>4. TipPath[x][h] \in TipBlocks /\ TipPath[TipPath[x][h]] = SubSeq(TipPath[x], 1, h)
    BY <2>1, <2>2, <2>3, TipAssumption, ElementOfSeq
  <2>5. Len(SubSeq(TipPath[x], 1, h)) = h
    BY <2>2, <2>3, SubSeqProperties, LenProperties
  <2>6. Tips!Ancestor(x, h) = TipPath[x][h]
    BY <1>1, <1>3 DEF Tips!Ancestor
  <2> QED BY <1>1, <2>1, <2>4, <2>5, <2>6 DEF TipAll, Tips!Height
<1> QED BY <1>1, <1>2, <1>3

\* An ancestor of an ancestor is an ancestor.
LEMMA TipAncestorOfAncestor ==
  ASSUME NEW x \in TipAll, NEW k \in 0..Tips!Height(x), NEW h \in 0..k
  PROVE  Tips!Ancestor(Tips!Ancestor(x, k), h) = Tips!Ancestor(x, h)
<1>1. Tips!Height(x) \in Nat /\ k \in Nat
  BY TipAncestorIs
<1>2. CASE h = 0
  BY <1>2 DEF Tips!Ancestor
<1>3. CASE h >= 1
  <2>1. /\ x \in TipBlocks /\ Tips!Ancestor(x, k) \in TipBlocks
        /\ TipPath[Tips!Ancestor(x, k)] = SubSeq(TipPath[x], 1, k)
    BY <1>1, <1>3, TipAncestorIs
  <2>2. TipPath[x] \in Seq(TipBlocks) /\ Tips!Height(x) = Len(TipPath[x])
    BY <2>1, TipParentIs
  <2>3. SubSeq(TipPath[x], 1, k)[h] = TipPath[x][h]
    BY <1>1, <1>3, <2>2, SubSeqProperties
  <2> QED BY <1>1, <1>3, <2>1, <2>3 DEF Tips!Ancestor
<1> QED BY <1>1, <1>2, <1>3

\* A block is its own ancestor at its height.
LEMMA TipAncestorAtTop ==
  ASSUME NEW x \in TipAll
  PROVE  Tips!Ancestor(x, Tips!Height(x)) = x
<1>1. CASE x = "G"
  BY <1>1, TipAssumption DEF Tips!Ancestor, Tips!Height
<1>2. CASE x \in TipBlocks
  BY <1>2, TipParentIs, TipAssumption DEF Tips!Ancestor, Tips!Height
<1> QED BY <1>1, <1>2 DEF TipAll

\* The ancestors of a block are its parent and the ancestors of its parent.
LEMMA TipAncestorOfParent ==
  ASSUME NEW x \in TipBlocks
  PROVE  /\ Tips!Parent(x) = Tips!Ancestor(x, Tips!Height(x) - 1)
         /\ \A h \in 0..(Tips!Height(x) - 1) :
              Tips!Ancestor(Tips!Parent(x), h) = Tips!Ancestor(x, h)
<1>1. Tips!Parent(x) = Tips!Ancestor(x, Tips!Height(x) - 1)
  BY TipParentIs DEF Tips!Parent, Tips!Ancestor, Tips!Height
<1>2. x \in TipAll /\ Tips!Height(x) - 1 \in 0..Tips!Height(x)
  BY TipParentIs DEF TipAll
<1> QED BY <1>1, <1>2, TipAncestorOfAncestor

\* Ancestors at successive heights are parent and child.
LEMMA TipParentOfAncestor ==
  ASSUME NEW x \in TipAll, NEW h \in 1..Tips!Height(x)
  PROVE  Tips!Parent(Tips!Ancestor(x, h)) = Tips!Ancestor(x, h - 1)
<1>1. Tips!Height(x) \in Nat
  BY TipParentIs DEF Tips!Height, TipAll
<1>2. h \in 0..Tips!Height(x) /\ h - 1 \in 0..h /\ h >= 1
  BY <1>1
<1>3. Tips!Ancestor(x, h) \in TipBlocks /\ Tips!Height(Tips!Ancestor(x, h)) = h
  BY <1>2, TipAncestorIs
<1>4. Tips!Parent(Tips!Ancestor(x, h)) = Tips!Ancestor(Tips!Ancestor(x, h), h - 1)
  BY <1>3, TipAncestorOfParent
<1> QED BY <1>2, <1>4, TipAncestorOfAncestor

\* The work of the blocks of a chain.
TipWorkAt(b) == [i \in DOMAIN TipPath[b] |-> Tips!CalculateBlockWork(TipPath[b][i])]

LEMMA TipBlockWork ==
  ASSUME NEW b \in TipBlocks
  PROVE  Tips!CalculateBlockWork(b) \in Nat \ {0}
BY TipAssumption DEF Tips!CalculateBlockWork

LEMMA TipSum ==
  ASSUME NEW f
  PROVE  Tips!SumFunction(f) = SumFunctionOnSet(f, DOMAIN f)
BY DEF Tips!SumFunction, Tips!SumFunctionOnSet, Tips!FoldFunctionOnSet,
       Tips!MapThenFoldSet, SumFunctionOnSet, FoldFunctionOnSet, MapThenFoldSet

\* The work of a whole chain is the sum of its blocks' work.
LEMMA TipWorkIs ==
  ASSUME NEW b \in TipBlocks
  PROVE  /\ Tips!TotalWork(b) = SumFunctionOnSet(TipWorkAt(b), 1..Tips!Height(b))
         /\ \A i \in 1..Tips!Height(b) :
              /\ TipWorkAt(b)[i] = Tips!CalculateBlockWork(TipPath[b][i])
              /\ TipWorkAt(b)[i] \in Int
<1>1. /\ TipPath[b] \in Seq(TipBlocks) /\ Tips!Height(b) = Len(TipPath[b])
      /\ DOMAIN TipPath[b] = 1..Tips!Height(b)
  BY TipParentIs, LenProperties
<1>2. Tips!Branch(b, 0) = TipPath[b]
  <2> DEFINE s == TipPath[b]
  <2>1. s \in Seq(TipBlocks)
    BY <1>1
  <2> HIDE DEF s
  <2>2. SubSeq(s, 0 + 1, Len(s)) = s
    BY <2>1
  <2> QED BY <2>2 DEF Tips!Branch, s
<1>3. Tips!TotalWork(b) = SumFunctionOnSet(TipWorkAt(b), DOMAIN TipWorkAt(b))
  <2>1. Tips!TotalWork(b) = Tips!SumFunction(TipWorkAt(b))
    BY <1>2 DEF Tips!TotalWork, Tips!CalculateChainWork, TipWorkAt
  <2> QED BY <2>1, TipSum
<1>4. DOMAIN TipWorkAt(b) = 1..Tips!Height(b)
  BY <1>1 DEF TipWorkAt
<1>5. ASSUME NEW i \in 1..Tips!Height(b)
      PROVE  /\ TipWorkAt(b)[i] = Tips!CalculateBlockWork(TipPath[b][i])
             /\ TipWorkAt(b)[i] \in Int
  <2>1. TipPath[b][i] \in TipBlocks
    BY <1>1, ElementOfSeq
  <2>2. Tips!CalculateBlockWork(TipPath[b][i]) \in Int
    BY <2>1, TipBlockWork
  <2> QED BY <1>1, <2>2 DEF TipWorkAt
<1> QED BY <1>3, <1>4, <1>5

\* A block adds its work to that of its parent's chain.
LEMMA TipWorkAdds ==
  ASSUME NEW b \in TipBlocks
  PROVE  /\ Tips!TotalWork(b) \in Int /\ Tips!TotalWork(Tips!Parent(b)) \in Int
         /\ Tips!TotalWork(b) =
              Tips!TotalWork(Tips!Parent(b)) + Tips!CalculateBlockWork(b)
<1> DEFINE n == Tips!Height(b) - 1
           p == Tips!Parent(b)
<1>1. /\ n \in Nat /\ n + 1 = Tips!Height(b) /\ TipPath[b] \in Seq(TipBlocks)
      /\ Tips!Height(b) = Len(TipPath[b]) /\ Tips!Height(p) = n
  BY TipParentIs
<1>2. /\ Tips!TotalWork(b) = SumFunctionOnSet(TipWorkAt(b), 1..(n + 1))
      /\ \A i \in 1..(n + 1) : /\ TipWorkAt(b)[i] = Tips!CalculateBlockWork(TipPath[b][i])
                               /\ TipWorkAt(b)[i] \in Int
  BY <1>1, TipWorkIs
<1>3. TipPath[b][n + 1] = b
  BY <1>1, TipAssumption
<1>4. n # 0 => p \in TipBlocks /\ TipPath[p] = SubSeq(TipPath[b], 1, n)
  <2>1. n # 0 => Tips!Height(b) > 1
    BY TipParentIs
  <2> QED BY <2>1, TipParentIs
<1> HIDE DEF n
<1>5. SumFunctionOnSet(TipWorkAt(b), 1..(n + 1)) =
        SumFunctionOnSet(TipWorkAt(b), 1..n) + TipWorkAt(b)[n + 1]
  BY <1>1, <1>2, SumNext
<1>6. TipWorkAt(b)[n + 1] = Tips!CalculateBlockWork(b)
  BY <1>1, <1>2, <1>3
<1>7. Summable(TipWorkAt(b), 1..n)
  <2>1. IsFiniteSet(1..n)
    BY <1>1, FS_Interval
  <2>2. \A i \in 1..n : i \in 1..(n + 1)
    BY <1>1
  <2> QED BY <1>2, <2>1, <2>2 DEF Summable
<1>8. Tips!TotalWork(p) = SumFunctionOnSet(TipWorkAt(b), 1..n)
  <2>1. CASE n = 0
    <3>1. p = "G" /\ 1..n = {}
      BY <1>1, <2>1 DEF Tips!Parent
    <3>2. Tips!Branch(p, 0) = << >>
      BY <3>1, TipAssumption DEF Tips!Branch
    <3> DEFINE f == [i \in DOMAIN << >> |-> Tips!CalculateBlockWork(<< >>[i])]
    <3>3. Tips!TotalWork(p) = Tips!SumFunction(f)
      BY <3>2 DEF Tips!TotalWork, Tips!CalculateChainWork
    <3>4. DOMAIN f = {}
      OBVIOUS
    <3> HIDE DEF f
    <3>5. Tips!TotalWork(p) = SumFunctionOnSet(f, {})
      BY <3>3, <3>4, TipSum
    <3> QED BY <3>1, <3>5, SumEmpty
  <2>2. CASE n # 0
    <3>1. /\ p \in TipBlocks /\ TipPath[p] = SubSeq(TipPath[b], 1, n)
      BY <1>4, <2>2
    <3>2. /\ Tips!TotalWork(p) = SumFunctionOnSet(TipWorkAt(p), 1..n)
          /\ \A i \in 1..n : /\ TipWorkAt(p)[i] = Tips!CalculateBlockWork(TipPath[p][i])
                             /\ TipWorkAt(p)[i] \in Int
      BY <1>1, <3>1, TipWorkIs
    <3>3. \A i \in 1..n : TipPath[p][i] = TipPath[b][i]
      <4> DEFINE s == TipPath[b]
      <4>1. s \in Seq(TipBlocks) /\ n \in 0..Len(s)
        BY <1>1
      <4> HIDE DEF s
      <4>2. \A i \in 1..n : SubSeq(s, 1, n)[i] = s[i]
        BY <1>1, <4>1
      <4> QED BY <3>1, <4>2 DEF s
    <3>4. \A i \in 1..n : i \in 1..(n + 1)
      BY <1>1
    <3>5. \A i \in 1..n : TipWorkAt(p)[i] = TipWorkAt(b)[i]
      BY <1>2, <3>2, <3>3, <3>4
    <3>6. Summable(TipWorkAt(p), 1..n)
      BY <1>7, <3>2 DEF Summable
    <3> QED BY <1>7, <3>2, <3>5, <3>6, SumSame
  <2> QED BY <2>1, <2>2
<1>9. SumFunctionOnSet(TipWorkAt(b), 1..n) \in Int
  BY <1>7, SumType
<1>10. Tips!CalculateBlockWork(b) \in Int
  BY TipBlockWork
<1> QED BY <1>2, <1>5, <1>6, <1>8, <1>9, <1>10

LEMMA TipWorkType ==
  ASSUME NEW x \in TipAll
  PROVE  Tips!TotalWork(x) \in Int
<1>1. CASE x \in TipBlocks
  BY <1>1, TipWorkAdds
<1>2. CASE x \notin TipBlocks
  <2>1. Tips!Branch(x, 0) = << >>
    BY <1>2 DEF Tips!Branch
  <2> DEFINE f == [i \in DOMAIN << >> |-> Tips!CalculateBlockWork(<< >>[i])]
  <2>2. Tips!TotalWork(x) = Tips!SumFunction(f)
    BY <2>1 DEF Tips!TotalWork, Tips!CalculateChainWork
  <2>3. DOMAIN f = {}
    OBVIOUS
  <2> HIDE DEF f
  <2> QED BY <2>2, <2>3, TipSum, SumEmpty
<1> QED BY <1>1, <1>2

\* Work rises along a chain.
LEMMA TipWorkRises ==
  ASSUME NEW x \in TipAll, NEW k \in 0..Tips!Height(x)
  PROVE  /\ Tips!TotalWork(Tips!Ancestor(x, k)) <= Tips!TotalWork(x)
         /\ k # Tips!Height(x) => Tips!TotalWork(Tips!Ancestor(x, k)) < Tips!TotalWork(x)
<1> DEFINE A(h) == Tips!Ancestor(x, h)
           H == Tips!Height(x)
           n == H - k
           T == {m \in 0..n : /\ Tips!TotalWork(A(k)) <= Tips!TotalWork(A(k + m))
                              /\ m # 0 => Tips!TotalWork(A(k)) < Tips!TotalWork(A(k + m))}
<1>1. H \in Nat /\ k \in Nat /\ n \in Nat /\ k + n = H
  BY TipAncestorIs
<1>2. \A h \in 0..H : Tips!TotalWork(A(h)) \in Int
  BY TipAncestorIs, TipWorkType
<1>3. ASSUME NEW h \in 1..H
      PROVE  Tips!TotalWork(A(h - 1)) < Tips!TotalWork(A(h))
  <2>1. h \in 0..H /\ h >= 1 /\ h - 1 \in 0..H
    BY <1>1
  <2>2. A(h) \in TipBlocks
    BY <2>1, TipAncestorIs
  <2>3. Tips!Parent(A(h)) = A(h - 1)
    BY TipParentOfAncestor
  <2>4. Tips!CalculateBlockWork(A(h)) \in Nat \ {0}
    BY <2>2, TipBlockWork
  <2>5. Tips!TotalWork(A(h)) = Tips!TotalWork(A(h - 1)) + Tips!CalculateBlockWork(A(h))
    BY <2>2, <2>3, TipWorkAdds
  <2>6. Tips!TotalWork(A(h)) \in Int /\ Tips!TotalWork(A(h - 1)) \in Int
    BY <1>2, <2>1
  <2> HIDE DEF A
  <2> QED BY <2>4, <2>5, <2>6
<1> HIDE DEF A, H, n
<1>4. 0 \in T
  <2>1. k + 0 = k /\ k \in 0..H /\ 0 \in 0..n
    BY <1>1
  <2>2. Tips!TotalWork(A(k)) \in Int
    BY <1>2, <2>1
  <2> QED BY <2>1, <2>2
<1>5. ASSUME NEW m \in 0..n, m < n, m \in T PROVE m + 1 \in T
  <2>1. /\ k + (m + 1) \in 1..H /\ (k + (m + 1)) - 1 = k + m /\ m + 1 \in 0..n
        /\ k \in 0..H /\ k + m \in 0..H /\ k + (m + 1) \in 0..H
    BY <1>1, <1>5
  <2>2. Tips!TotalWork(A(k + m)) < Tips!TotalWork(A(k + (m + 1)))
    BY <1>3, <2>1
  <2>3. Tips!TotalWork(A(k)) <= Tips!TotalWork(A(k + m))
    BY <1>5
  <2>4. Tips!TotalWork(A(k)) < Tips!TotalWork(A(k + (m + 1)))
    BY <1>2, <2>1, <2>2, <2>3
  <2> QED BY <1>2, <2>1, <2>4
<1>6. n \in T
  <2>1. \A m \in 0..n : m \in T
    <3> HIDE DEF T
    <3> QED BY <1>1, <1>4, <1>5, UpTo
  <2> QED BY <1>1, <2>1
<1>7. A(k + n) = x
  BY <1>1, TipAncestorAtTop DEF A, H
<1> QED BY <1>1, <1>6, <1>7 DEF A, H

\* Of two blocks on one parent the harder has no less work, and the one with more
\* work is the harder.
LEMMA TipSiblings ==
  ASSUME NEW b \in TipBlocks, NEW c \in TipBlocks, Tips!Parent(b) = Tips!Parent(c)
  PROVE  /\ TipDifficulty[b] \in Nat /\ TipDifficulty[c] \in Nat
         /\ TipDifficulty[b] >= TipDifficulty[c] => Tips!TotalWork(b) >= Tips!TotalWork(c)
         /\ Tips!TotalWork(b) > Tips!TotalWork(c) => TipDifficulty[b] > TipDifficulty[c]
<1>1. TipDifficulty[b] \in Nat /\ TipDifficulty[c] \in Nat
  BY TipAssumption
<1>2. /\ Tips!TotalWork(b) = Tips!TotalWork(Tips!Parent(b)) + Tips!CalculateBlockWork(b)
      /\ Tips!TotalWork(c) = Tips!TotalWork(Tips!Parent(b)) + Tips!CalculateBlockWork(c)
      /\ Tips!TotalWork(Tips!Parent(b)) \in Int
  BY TipWorkAdds
<1>3. /\ Tips!CalculateBlockWork(b) = IF TipDifficulty[b] = 0 THEN 1 ELSE TipDifficulty[b]
      /\ Tips!CalculateBlockWork(c) = IF TipDifficulty[c] = 0 THEN 1 ELSE TipDifficulty[c]
  BY DEF Tips!CalculateBlockWork
<1> QED BY <1>1, <1>2, <1>3

\* x is on the chain that ends in y.
TipOn(x, y) ==
  Tips!Height(x) <= Tips!Height(y) /\ x = Tips!Ancestor(y, Tips!Height(x))

\* Where the chains of x and y part, the one of y has the harder block.
TipOvertaken(x, y) == \E d \in Nat :
  /\ d < Tips!Height(x) /\ d < Tips!Height(y)
  /\ Tips!Ancestor(x, d) = Tips!Ancestor(y, d)
  /\ TipDifficulty[Tips!Ancestor(x, d + 1)] < TipDifficulty[Tips!Ancestor(y, d + 1)]

\* A node on y does not go back to x: x is on its chain, or overtaken by it, or
\* above a tip whose account state executes no block.
TipSettled(x, y, bad) == TipOn(x, y) \/ (bad = TRUE /\ TipOn(y, x)) \/ TipOvertaken(x, y)

LEMMA TipHeightType ==
  ASSUME NEW x \in TipAll
  PROVE  /\ Tips!Height(x) \in Nat
         /\ (x \in TipBlocks) <=> (Tips!Height(x) # 0)
         /\ (x = "G") <=> (Tips!Height(x) = 0)
BY TipParentIs, TipAssumption DEF Tips!Height, TipAll

\* A block on a chain has the ancestors of the chain.
LEMMA TipOnChain ==
  ASSUME NEW x \in TipAll, NEW y \in TipAll, TipOn(x, y)
  PROVE  \A h \in 0..Tips!Height(x) : Tips!Ancestor(x, h) = Tips!Ancestor(y, h)
<1>1. Tips!Height(x) \in 0..Tips!Height(y)
  BY TipHeightType DEF TipOn
<1> QED BY <1>1, TipAncestorOfAncestor DEF TipOn

LEMMA TipOnSelf ==
  ASSUME NEW x \in TipAll
  PROVE  TipOn(x, x)
BY TipHeightType, TipAncestorAtTop DEF TipOn

LEMMA TipAncestorOn ==
  ASSUME NEW y \in TipAll, NEW h \in 0..Tips!Height(y)
  PROVE  /\ Tips!Ancestor(y, h) \in TipAll
         /\ Tips!Height(Tips!Ancestor(y, h)) = h
         /\ TipOn(Tips!Ancestor(y, h), y)
<1>1. /\ Tips!Ancestor(y, h) \in TipAll /\ Tips!Height(Tips!Ancestor(y, h)) = h
      /\ h \in Nat /\ Tips!Height(y) \in Nat
  BY TipAncestorIs
<1>2. h <= Tips!Height(y)
  BY <1>1
<1> QED BY <1>1, <1>2 DEF TipOn

LEMMA TipParentOn ==
  ASSUME NEW b \in TipBlocks
  PROVE  /\ b \in TipAll /\ TipOn(Tips!Parent(b), b)
         /\ Tips!Height(Tips!Parent(b)) < Tips!Height(b)
         /\ \A x \in TipAll : TipOn(x, b) /\ x # b => TipOn(x, Tips!Parent(b))
<1>1. /\ Tips!Height(b) \in Nat \ {0} /\ Tips!Height(Tips!Parent(b)) = Tips!Height(b) - 1
      /\ b \in TipAll
      /\ Tips!Parent(b) = Tips!Ancestor(b, Tips!Height(b) - 1)
      /\ \A h \in 0..(Tips!Height(b) - 1) :
           Tips!Ancestor(Tips!Parent(b), h) = Tips!Ancestor(b, h)
  BY TipParentIs, TipAncestorOfParent DEF TipAll
<1>2. TipOn(Tips!Parent(b), b)
  BY <1>1 DEF TipOn
<1>3. ASSUME NEW x \in TipAll, TipOn(x, b), x # b
      PROVE  TipOn(x, Tips!Parent(b))
  <2>1. Tips!Height(x) # Tips!Height(b)
    BY <1>1, <1>3, TipAncestorAtTop DEF TipOn
  <2>2. Tips!Height(x) \in 0..(Tips!Height(b) - 1)
    BY <1>1, <1>3, <2>1, TipHeightType DEF TipOn
  <2> QED BY <1>1, <1>3, <2>2 DEF TipOn
<1> QED BY <1>1, <1>2, <1>3

LEMMA TipOnTrans ==
  ASSUME NEW x \in TipAll, NEW y \in TipAll, NEW z \in TipAll, TipOn(x, y), TipOn(y, z)
  PROVE  TipOn(x, z)
<1>1. Tips!Height(x) \in Nat /\ Tips!Height(y) \in Nat /\ Tips!Height(z) \in Nat
  BY TipHeightType
<1>2. Tips!Height(x) \in 0..Tips!Height(y) /\ Tips!Height(x) <= Tips!Height(z)
  BY <1>1 DEF TipOn
<1> QED BY <1>2, TipOnChain DEF TipOn

\* The chain grows by blocks on its end.
LEMMA TipSettledUp ==
  ASSUME NEW x \in TipAll, NEW y \in TipAll, NEW b \in TipAll, TipOn(y, b),
         TipSettled(x, y, FALSE), NEW bad \in BOOLEAN
  PROVE  TipSettled(x, b, bad)
<1>1. CASE TipOn(x, y)
  BY <1>1, TipOnTrans DEF TipSettled
<1>2. CASE TipOvertaken(x, y)
  <2>1. PICK d \in Nat :
          /\ d < Tips!Height(x) /\ d < Tips!Height(y)
          /\ Tips!Ancestor(x, d) = Tips!Ancestor(y, d)
          /\ TipDifficulty[Tips!Ancestor(x, d + 1)] <
               TipDifficulty[Tips!Ancestor(y, d + 1)]
    BY <1>2 DEF TipOvertaken
  <2>2. d \in 0..Tips!Height(y) /\ d + 1 \in 0..Tips!Height(y) /\ d < Tips!Height(b)
    BY <2>1, TipHeightType DEF TipOn
  <2>3. /\ Tips!Ancestor(y, d) = Tips!Ancestor(b, d)
        /\ Tips!Ancestor(y, d + 1) = Tips!Ancestor(b, d + 1)
    BY <2>2, TipOnChain
  <2>4. TipOvertaken(x, b)
    BY <2>1, <2>2, <2>3 DEF TipOvertaken
  <2> QED BY <2>4 DEF TipSettled
<1> QED BY <1>1, <1>2 DEF TipSettled

\* A harder block takes over from the chain's one on the same parent.
LEMMA TipSettledBeside ==
  ASSUME NEW x \in TipAll, NEW y \in TipAll, NEW b \in TipBlocks,
         Tips!Height(b) <= Tips!Height(y),
         Tips!Parent(b) = Tips!Ancestor(y, Tips!Height(b) - 1),
         TipDifficulty[b] > TipDifficulty[Tips!Ancestor(y, Tips!Height(b))],
         NEW bad, TipSettled(x, y, bad), NEW worse
  PROVE  TipSettled(x, b, worse)
<1> DEFINE h == Tips!Height(b)
           A(z, k) == Tips!Ancestor(z, k)
<1>1. /\ h \in Nat \ {0} /\ b \in TipAll
      /\ Tips!Height(x) \in Nat /\ Tips!Height(y) \in Nat /\ h <= Tips!Height(y)
      /\ A(b, h) = b
  BY TipParentIs, TipHeightType, TipAncestorAtTop DEF TipAll
<1>2. \A k \in 0..(h - 1) : A(b, k) = A(y, k)
  <2>1. ASSUME NEW k \in 0..(h - 1) PROVE A(b, k) = A(y, k)
    <3>1. A(Tips!Parent(b), k) = A(b, k)
      BY TipAncestorOfParent
    <3>2. h - 1 \in 0..Tips!Height(y)
      BY <1>1
    <3>3. A(A(y, h - 1), k) = A(y, k)
      BY <3>2, TipAncestorOfAncestor
    <3> QED BY <3>1, <3>3
  <2> QED BY <2>1
<1>3. A(y, h) \in TipBlocks /\ TipDifficulty[A(y, h)] \in Nat /\ TipDifficulty[b] \in Nat
  <2>1. h \in 0..Tips!Height(y) /\ h >= 1
    BY <1>1
  <2> QED BY <2>1, TipAncestorIs, TipAssumption
<1>4. TipDifficulty[A(y, h)] < TipDifficulty[A(b, h)]
  BY <1>1, <1>3
<1>5. ASSUME Tips!Height(x) >= h, A(x, h) = A(y, h)
      PROVE  TipOvertaken(x, b)
  <2>1. h - 1 \in Nat /\ h - 1 < Tips!Height(x) /\ h - 1 < h /\ (h - 1) + 1 = h
    BY <1>1, <1>5
  <2>2. A(x, h - 1) = A(b, h - 1)
    <3>1. h \in 0..Tips!Height(x) /\ h \in 0..Tips!Height(y) /\ h - 1 \in 0..h
          /\ h - 1 \in 0..(h - 1)
      BY <1>1, <1>5
    <3>2. A(A(x, h), h - 1) = A(x, h - 1) /\ A(A(y, h), h - 1) = A(y, h - 1)
      BY <3>1, TipAncestorOfAncestor
    <3> QED BY <1>2, <1>5, <3>1, <3>2
  <2>3. TipDifficulty[A(x, (h - 1) + 1)] < TipDifficulty[A(b, (h - 1) + 1)]
    BY <1>4, <1>5, <2>1
  <2> QED BY <2>1, <2>2, <2>3 DEF TipOvertaken
<1>6. CASE TipOn(x, y)
  <2>1. CASE Tips!Height(x) < h
    <3>1. Tips!Height(x) \in 0..(h - 1)
      BY <1>1, <2>1
    <3>2. x = A(b, Tips!Height(x))
      BY <1>2, <1>6, <3>1 DEF TipOn
    <3> QED BY <1>1, <2>1, <3>2 DEF TipSettled, TipOn
  <2>2. CASE Tips!Height(x) >= h
    <3>1. h \in 0..Tips!Height(x)
      BY <1>1, <2>2
    <3>2. A(x, h) = A(y, h)
      BY <1>6, <3>1, TipOnChain
    <3> QED BY <1>5, <2>2, <3>2 DEF TipSettled
  <2> QED BY <1>1, <2>1, <2>2
<1>7. CASE TipOn(y, x)
  <2>1. h \in 0..Tips!Height(y) /\ Tips!Height(x) >= h
    BY <1>1, <1>7 DEF TipOn
  <2>2. A(x, h) = A(y, h)
    BY <1>7, <2>1, TipOnChain
  <2> QED BY <1>5, <2>1, <2>2 DEF TipSettled
<1>8. CASE TipOvertaken(x, y)
  <2>1. PICK d \in Nat : /\ d < Tips!Height(x) /\ d < Tips!Height(y) /\ A(x, d) = A(y, d)
                         /\ TipDifficulty[A(x, d + 1)] < TipDifficulty[A(y, d + 1)]
    BY <1>8 DEF TipOvertaken
  <2>2. CASE d + 1 < h
    <3>1. d \in 0..(h - 1) /\ d + 1 \in 0..(h - 1) /\ d < h
      BY <1>1, <2>2
    <3>2. TipOvertaken(x, b)
      BY <1>2, <2>1, <3>1 DEF TipOvertaken
    <3> QED BY <3>2 DEF TipSettled
  <2>3. CASE d + 1 = h
    <3>1. d \in 0..(h - 1) /\ d < h /\ d + 1 \in 0..Tips!Height(x) /\ d + 1 >= 1
      BY <1>1, <2>1, <2>3
    <3>2. TipDifficulty[A(x, d + 1)] \in Nat
      BY <3>1, TipAncestorIs, TipAssumption
    <3>3. TipDifficulty[A(x, d + 1)] < TipDifficulty[A(b, d + 1)]
      BY <1>1, <1>3, <1>4, <2>1, <2>3, <3>2
    <3>4. A(x, d) = A(b, d)
      BY <1>2, <2>1, <3>1
    <3>5. TipOvertaken(x, b)
      BY <2>1, <3>1, <3>3, <3>4 DEF TipOvertaken
    <3> QED BY <3>5 DEF TipSettled
  <2>4. CASE d + 1 > h
    <3>1. /\ h \in 0..d /\ d \in 0..Tips!Height(x) /\ d \in 0..Tips!Height(y)
          /\ Tips!Height(x) >= h
      BY <1>1, <2>1, <2>4
    <3>2. A(A(x, d), h) = A(x, h) /\ A(A(y, d), h) = A(y, h)
      BY <3>1, TipAncestorOfAncestor
    <3> QED BY <1>5, <2>1, <3>1, <3>2 DEF TipSettled
  <2> QED BY <1>1, <2>2, <2>3, <2>4
<1> QED BY <1>6, <1>7, <1>8 DEF TipSettled

\* The chain is cut.
LEMMA TipSettledDown ==
  ASSUME NEW x \in TipAll, NEW y \in TipAll, NEW k \in 0..Tips!Height(y),
         NEW bad, TipSettled(x, y, bad)
  PROVE  \/ TipOn(x, Tips!Ancestor(y, k)) \/ TipOn(Tips!Ancestor(y, k), x)
         \/ TipOvertaken(x, Tips!Ancestor(y, k))
<1> DEFINE A(w, i) == Tips!Ancestor(w, i)
           z == A(y, k)
           Goal == TipOn(x, z) \/ TipOn(z, x) \/ TipOvertaken(x, z)
<1>1. /\ Tips!Height(x) \in Nat /\ Tips!Height(y) \in Nat /\ k \in Nat
      /\ z \in TipAll /\ Tips!Height(z) = k /\ TipOn(z, y)
      /\ \A i \in 0..k : A(z, i) = A(y, i)
  BY TipHeightType, TipAncestorOn, TipAncestorOfAncestor
<1> SUFFICES Goal
  OBVIOUS
<1> HIDE DEF z
<1>2. Tips!Height(x) \in Nat /\ k \in Nat
  BY <1>1
<1>3. ASSUME Tips!Height(x) >= k, A(x, k) = z PROVE Goal
  BY <1>1, <1>3 DEF TipOn
<1>4. CASE TipOn(x, y)
  <2>1. CASE Tips!Height(x) <= k
    <3>1. Tips!Height(x) \in 0..k
      BY <1>1, <2>1
    <3> QED BY <1>1, <1>4, <2>1, <3>1 DEF TipOn
  <2>2. CASE Tips!Height(x) > k
    <3>1. k \in 0..Tips!Height(x) /\ k \in 0..k
      BY <1>1, <2>2
    <3>2. A(x, k) = A(y, k)
      BY <1>4, <3>1, TipOnChain
    <3>3. A(x, k) = z
      BY <3>2 DEF z
    <3> QED BY <1>2, <1>3, <2>2, <3>3
  <2> QED BY <1>2, <2>1, <2>2
<1>5. CASE TipOn(y, x)
  BY <1>1, <1>5, TipOnTrans
<1>6. CASE TipOvertaken(x, y)
  <2>1. PICK d \in Nat : /\ d < Tips!Height(x) /\ d < Tips!Height(y) /\ A(x, d) = A(y, d)
                         /\ TipDifficulty[A(x, d + 1)] < TipDifficulty[A(y, d + 1)]
    BY <1>6 DEF TipOvertaken
  <2>2. CASE d + 1 <= k
    <3>1. d \in 0..k /\ d + 1 \in 0..k /\ d < k
      BY <1>1, <2>2
    <3>2. TipOvertaken(x, z)
      BY <1>1, <2>1, <3>1 DEF TipOvertaken
    <3> QED BY <3>2
  <2>3. CASE d + 1 > k
    <3>1. k \in 0..d /\ d \in 0..Tips!Height(x) /\ d \in 0..Tips!Height(y)
          /\ Tips!Height(x) >= k
      BY <1>1, <2>1, <2>3
    <3>2. A(A(x, d), k) = A(x, k) /\ A(A(y, d), k) = A(y, k)
      BY <3>1, TipAncestorOfAncestor
    <3>3. A(x, k) = z
      BY <2>1, <3>2 DEF z
    <3> QED BY <1>3, <3>1, <3>3
  <2> QED BY <1>2, <2>2, <2>3
<1> QED BY <1>4, <1>5, <1>6 DEF TipSettled

\* What is settled is not harder than the chain's block on the same parent.
LEMMA TipSettledTwin ==
  ASSUME NEW b \in TipBlocks, NEW y \in TipAll, NEW bad, TipSettled(b, y, bad),
         Tips!Height(b) <= Tips!Height(y),
         Tips!Parent(b) = Tips!Ancestor(y, Tips!Height(b) - 1)
  PROVE  TipDifficulty[b] <= TipDifficulty[Tips!Ancestor(y, Tips!Height(b))]
<1> DEFINE A(z, k) == Tips!Ancestor(z, k)
           h == Tips!Height(b)
<1>1. /\ h \in Nat \ {0} /\ b \in TipAll /\ Tips!Height(y) \in Nat
      /\ h <= Tips!Height(y) /\ A(b, h) = b /\ TipDifficulty[b] \in Nat
  BY TipParentIs, TipHeightType, TipAncestorAtTop, TipAssumption DEF TipAll
<1>2. CASE A(y, h) = b
  BY <1>1, <1>2
<1>3. CASE TipOn(y, b)
  <2>1. h \in 0..Tips!Height(y) /\ Tips!Height(y) = h
    BY <1>1, <1>3 DEF TipOn
  <2>2. A(y, h) = A(b, h)
    BY <1>1, <1>3, <2>1, TipOnChain
  <2> QED BY <1>1, <1>2, <2>2
<1>4. CASE TipOvertaken(b, y)
  <2>1. PICK d \in Nat : /\ d < h /\ d < Tips!Height(y) /\ A(b, d) = A(y, d)
                         /\ TipDifficulty[A(b, d + 1)] < TipDifficulty[A(y, d + 1)]
    BY <1>4 DEF TipOvertaken
  <2>2. CASE d + 1 = h
    <3>1. /\ TipDifficulty[b] < TipDifficulty[A(y, h)] /\ h \in 0..Tips!Height(y) /\ h >= 1
      BY <1>1, <2>1, <2>2
    <3>2. TipDifficulty[A(y, h)] \in Nat
      BY <3>1, TipAncestorIs, TipAssumption
    <3> QED BY <1>1, <3>1, <3>2
  <2>3. CASE d + 1 < h
    <3>1. d + 1 \in 0..(h - 1) /\ h - 1 \in 0..Tips!Height(y) /\ d + 1 \in 0..Tips!Height(b)
          /\ d + 1 >= 1
      BY <1>1, <2>1, <2>3
    <3>2. A(Tips!Parent(b), d + 1) = A(b, d + 1)
      BY <3>1, TipAncestorOfParent
    <3>3. A(A(y, h - 1), d + 1) = A(y, d + 1)
      BY <3>1, TipAncestorOfAncestor
    <3>4. TipDifficulty[A(b, d + 1)] \in Nat
      BY <1>1, <3>1, TipAncestorIs, TipAssumption
    <3> QED BY <2>1, <3>2, <3>3, <3>4
  <2> QED BY <1>1, <2>1, <2>2, <2>3
<1> QED BY <1>2, <1>3, <1>4 DEF TipSettled, TipOn

-----------------------------------------------------------------------------
(* TipConsensus: the chain of a node. *)

TipTypes ==
  /\ tipPlan \in TipPlans
  /\ tipTip \in [TipNodes -> TipAll] /\ tipStored \in [TipNodes -> SUBSET TipAll]
  /\ tipSpoilt \in [TipNodes -> BOOLEAN] /\ tipCut \in [TipNodes -> BOOLEAN]
  /\ tipKnown \in [TipNodes -> SUBSET TipBlocks]
  /\ tipInbox \in [TipNodes -> SUBSET (TipBlocks \X TipNodes)]
  /\ tipLoop \in [TipNodes -> {"idle", "asking", "mining"}]
  /\ tipLocal \in [TipNodes -> TipAll \cup {NoTip}]
  /\ tipTodo \in [TipNodes -> SUBSET TipNodes]
  /\ tipFound \in [TipNodes -> [TipNodes -> TipAll \cup {NoTip}]]

\* A tip is stored with its ancestors, and the node does not go back to what it
\* has stored.
TipChains == \A n \in TipNodes :
  /\ \A h \in 0..Tips!Height(tipTip[n]) : Tips!Ancestor(tipTip[n], h) \in tipStored[n]
  /\ \A x \in tipStored[n] : TipSettled(x, tipTip[n], tipSpoilt[n])

TipChainTypes ==
  /\ tipTip \in [TipNodes -> TipAll] /\ tipStored \in [TipNodes -> SUBSET TipAll]
  /\ tipSpoilt \in [TipNodes -> BOOLEAN] /\ tipCut \in [TipNodes -> BOOLEAN]

\* A block on the tip, or blocks on the tip at once; one beside the chain.
TipUp(n, b) ==
  /\ ~tipSpoilt[n] /\ TipOn(tipTip[n], b) /\ tipTip[n] # b
  /\ Tips!MoveTo(n, b) /\ UNCHANGED tipSpoilt

TipBeside(n, b) ==
  /\ Tips!Height(b) <= Tips!Height(tipTip[n])
  /\ Tips!Parent(b) = Tips!Ancestor(tipTip[n], Tips!Height(b) - 1)
  /\ b \notin tipStored[n] /\ Tips!TotalWork(b) > Tips!TotalWork(tipTip[n])
  /\ Tips!MoveTo(n, b) /\ tipSpoilt' = [tipSpoilt EXCEPT ![n] = FALSE]

TipDown(n, k) ==
  /\ k < Tips!Height(tipTip[n])
  /\ tipTip' = [tipTip EXCEPT ![n] = Tips!Ancestor(tipTip[n], k)]
  /\ tipStored' = [tipStored EXCEPT ![n] =
       @ \ {Tips!Ancestor(tipTip[n], i) : i \in (k + 1)..Tips!Height(tipTip[n])}]
  /\ tipSpoilt' = [tipSpoilt EXCEPT ![n] = TRUE]
  /\ tipCut' = [tipCut EXCEPT ![n] = TRUE]

\* The chain of y passes through x, and goes on.
TipPasses(y, x) ==
  Tips!Height(x) < Tips!Height(y) /\ x = Tips!Ancestor(y, Tips!Height(x))

LEMMA TipMoved ==
  ASSUME TipChainTypes, NEW n \in TipNodes, NEW b \in TipAll, Tips!MoveTo(n, b)
  PROVE  /\ tipTip' \in [TipNodes -> TipAll] /\ tipStored' \in [TipNodes -> SUBSET TipAll]
         /\ tipCut' = tipCut
         /\ tipTip'[n] = b
         /\ tipStored'[n] = tipStored[n] \cup
              {Tips!Ancestor(b, h) : h \in 1..Tips!Height(b)}
         /\ \A m \in TipNodes \ {n} :
              tipTip'[m] = tipTip[m] /\ tipStored'[m] = tipStored[m]
<1> DEFINE S == {Tips!Ancestor(b, h) : h \in 1..Tips!Height(b)}
<1>1. S \subseteq TipAll
  <2>1. \A h \in 1..Tips!Height(b) : h \in 0..Tips!Height(b)
    BY TipHeightType
  <2> QED BY <2>1, TipAncestorIs
<1>2. /\ tipTip' = [tipTip EXCEPT ![n] = b] /\ tipCut' = tipCut
      /\ tipStored' = [tipStored EXCEPT ![n] = @ \cup S]
  BY DEF Tips!MoveTo
<1> HIDE DEF S
<1>3. /\ tipTip' \in [TipNodes -> TipAll] /\ tipStored' \in [TipNodes -> SUBSET TipAll]
      /\ tipCut' = tipCut
      /\ tipTip'[n] = b
      /\ tipStored'[n] = tipStored[n] \cup S
      /\ \A m \in TipNodes \ {n} :
           tipTip'[m] = tipTip[m] /\ tipStored'[m] = tipStored[m]
  BY <1>1, <1>2 DEF TipChainTypes
<1> QED BY <1>3 DEF S

\* The chain after its tip has moved to a block that settles all it had.
LEMMA TipMovedChains ==
  ASSUME TipChainTypes, TipChains, NEW n \in TipNodes, NEW b \in TipBlocks,
         Tips!MoveTo(n, b), Tips!Ancestor(b, 0) \in tipStored[n],
         \A x \in tipStored[n] : TipSettled(x, b, tipSpoilt'[n]),
         \A m \in TipNodes \ {n} : tipSpoilt'[m] = tipSpoilt[m]
  PROVE  TipChains'
<1>1. /\ b \in TipAll /\ Tips!Height(b) \in Nat
      /\ tipTip'[n] = b
      /\ tipStored'[n] = tipStored[n] \cup
           {Tips!Ancestor(b, h) : h \in 1..Tips!Height(b)}
      /\ \A m \in TipNodes \ {n} :
           tipTip'[m] = tipTip[m] /\ tipStored'[m] = tipStored[m]
  BY TipMoved, TipHeightType DEF TipAll
<1>2. \A h \in 0..Tips!Height(b) : Tips!Ancestor(b, h) \in tipStored'[n]
  <2>1. ASSUME NEW h \in 0..Tips!Height(b)
        PROVE  Tips!Ancestor(b, h) \in tipStored'[n]
    <3>1. h = 0 \/ h \in 1..Tips!Height(b)
      BY <1>1
    <3> QED BY <1>1, <3>1
  <2> QED BY <2>1
<1>3. ASSUME NEW x \in tipStored'[n] PROVE TipSettled(x, b, tipSpoilt'[n])
  <2>1. CASE x \in tipStored[n]
    BY <2>1
  <2>2. ASSUME NEW h \in 1..Tips!Height(b), x = Tips!Ancestor(b, h)
        PROVE  TipSettled(x, b, tipSpoilt'[n])
    <3>1. h \in 0..Tips!Height(b)
      BY <1>1
    <3>2. TipOn(x, b)
      BY <1>1, <2>2, <3>1, TipAncestorOn
    <3> QED BY <3>2 DEF TipSettled
  <2> QED BY <1>1, <2>1, <2>2
<1>4. ASSUME NEW m \in TipNodes
      PROVE  /\ \A h \in 0..Tips!Height(tipTip'[m]) :
                  Tips!Ancestor(tipTip'[m], h) \in tipStored'[m]
             /\ \A x \in tipStored'[m] : TipSettled(x, tipTip'[m], tipSpoilt'[m])
  <2>1. CASE m = n
    BY <1>1, <1>2, <1>3, <2>1
  <2>2. CASE m # n
    <3>1. /\ tipTip'[m] = tipTip[m] /\ tipStored'[m] = tipStored[m]
          /\ tipSpoilt'[m] = tipSpoilt[m]
      BY <1>1, <2>2
    <3> QED BY <3>1 DEF TipChains
  <2> QED BY <2>1, <2>2
<1> QED BY <1>4 DEF TipChains

LEMMA TipGenesisStored ==
  ASSUME TipChainTypes, TipChains, NEW n \in TipNodes, NEW x \in TipAll
  PROVE  Tips!Ancestor(x, 0) \in tipStored[n]
<1>1. tipTip[n] \in TipAll
  BY DEF TipChainTypes
<1>2. 0 \in 0..Tips!Height(tipTip[n])
  BY <1>1, TipHeightType
<1>3. Tips!Ancestor(tipTip[n], 0) \in tipStored[n]
  BY <1>2 DEF TipChains
<1> QED BY <1>3 DEF Tips!Ancestor

\* How a chain that grows upwards or sidewards has changed.
LEMMA TipGoesUp ==
  ASSUME TipChainTypes, TipChains, NEW n \in TipNodes, NEW b \in TipBlocks, TipUp(n, b)
  PROVE  /\ TipChainTypes' /\ TipChains' /\ tipCut' = tipCut
         /\ tipTip'[n] = b /\ Tips!TotalWork(tipTip[n]) < Tips!TotalWork(b)
         /\ \A m \in TipNodes \ {n} : tipTip'[m] = tipTip[m]
         /\ \A x \in TipAll : TipPasses(b, x) =>
              TipPasses(tipTip[n], x) \/ TipOn(tipTip[n], x)
<1> DEFINE t == tipTip[n]
<1>1. /\ t \in TipAll /\ b \in TipAll /\ TipOn(t, b) /\ t # b /\ ~tipSpoilt[n]
      /\ tipSpoilt' = tipSpoilt /\ Tips!MoveTo(n, b)
      /\ tipStored[n] \subseteq TipAll
  BY DEF TipUp, TipChainTypes, TipAll
<1>2. /\ Tips!Height(t) \in Nat /\ Tips!Height(b) \in Nat
      /\ Tips!Height(t) <= Tips!Height(b) /\ t = Tips!Ancestor(b, Tips!Height(t))
  BY <1>1, TipHeightType DEF TipOn
<1>3. Tips!Height(t) # Tips!Height(b)
  BY <1>1, <1>2, TipAncestorAtTop
<1>4. Tips!TotalWork(t) < Tips!TotalWork(b)
  <2>1. Tips!Height(t) \in 0..Tips!Height(b)
    BY <1>2
  <2> QED BY <1>1, <1>2, <1>3, <2>1, TipWorkRises
<1>5. TipChainTypes'
  BY <1>1, TipMoved DEF TipChainTypes
<1>6. TipChains'
  <2>1. ASSUME NEW x \in tipStored[n] PROVE TipSettled(x, b, tipSpoilt'[n])
    <3>1. TipSettled(x, t, tipSpoilt[n])
      BY DEF TipChains
    <3>2. x \in TipAll /\ tipSpoilt[n] \in BOOLEAN /\ tipSpoilt'[n] \in BOOLEAN
      BY <1>1 DEF TipChainTypes
    <3>3. tipSpoilt[n] = FALSE
      BY <1>1, <3>2
    <3>4. TipSettled(x, t, FALSE)
      BY <3>1, <3>3
    <3> HIDE DEF t
    <3> QED BY <1>1, <3>2, <3>4, TipSettledUp
  <2> QED BY <1>1, <2>1, TipMovedChains, TipGenesisStored
<1>7. ASSUME NEW x \in TipAll, TipPasses(b, x)
      PROVE  TipPasses(t, x) \/ TipOn(t, x)
  <2>1. /\ Tips!Height(x) \in Nat /\ Tips!Height(x) < Tips!Height(b)
        /\ x = Tips!Ancestor(b, Tips!Height(x))
    BY <1>7, TipHeightType DEF TipPasses
  <2>2. CASE Tips!Height(x) < Tips!Height(t)
    <3>1. Tips!Height(x) \in 0..Tips!Height(t)
      BY <1>2, <2>1, <2>2
    <3>2. Tips!Ancestor(t, Tips!Height(x)) = x
      BY <1>1, <2>1, <3>1, TipOnChain
    <3> QED BY <2>2, <3>2 DEF TipPasses
  <2>3. CASE Tips!Height(t) <= Tips!Height(x)
    <3>1. Tips!Height(t) \in 0..Tips!Height(x) /\ TipOn(x, b)
      BY <1>2, <2>1, <2>3 DEF TipOn
    <3>2. Tips!Ancestor(x, Tips!Height(t)) = t
      BY <1>1, <1>2, <3>1, TipOnChain
    <3> QED BY <2>3, <3>2 DEF TipOn
  <2> QED BY <1>2, <2>1, <2>2, <2>3
<1> QED BY <1>1, <1>4, <1>5, <1>6, <1>7, TipMoved

LEMMA TipGoesBeside ==
  ASSUME TipChainTypes, TipChains, NEW n \in TipNodes, NEW b \in TipBlocks, TipBeside(n, b)
  PROVE  /\ TipChainTypes' /\ TipChains' /\ tipCut' = tipCut
         /\ tipTip'[n] = b /\ Tips!TotalWork(tipTip[n]) < Tips!TotalWork(b)
         /\ \A m \in TipNodes \ {n} : tipTip'[m] = tipTip[m]
         /\ \A x \in TipAll : TipPasses(b, x) => TipPasses(tipTip[n], x)
         /\ TipDifficulty[b] >
              TipDifficulty[Tips!Ancestor(tipTip[n], Tips!Height(b))]
<1> DEFINE t == tipTip[n]
           h == Tips!Height(b)
           c == Tips!Ancestor(t, h)
<1>1. /\ t \in TipAll /\ b \in TipAll /\ h <= Tips!Height(t)
      /\ Tips!Parent(b) = Tips!Ancestor(t, h - 1)
      /\ Tips!TotalWork(b) > Tips!TotalWork(t) /\ Tips!MoveTo(n, b)
      /\ tipSpoilt' = [tipSpoilt EXCEPT ![n] = FALSE]
      /\ tipStored[n] \subseteq TipAll
  BY DEF TipBeside, TipChainTypes, TipAll
<1>2. /\ Tips!Height(t) \in Nat /\ h \in Nat \ {0} /\ h \in 0..Tips!Height(t)
      /\ h >= 1 /\ h \in 1..Tips!Height(t)
      /\ Tips!TotalWork(b) \in Int /\ Tips!TotalWork(t) \in Int
  BY <1>1, TipHeightType, TipParentIs, TipWorkType
<1>3. c \in TipBlocks /\ Tips!Parent(c) = Tips!Parent(b)
  BY <1>1, <1>2, TipAncestorIs, TipParentOfAncestor
<1>4. Tips!TotalWork(b) > Tips!TotalWork(c)
  <2>1. Tips!TotalWork(c) <= Tips!TotalWork(t)
    BY <1>1, <1>2, TipWorkRises
  <2>2. Tips!TotalWork(c) \in Int
    BY <1>3, TipWorkType DEF TipAll
  <2> QED BY <1>1, <1>2, <2>1, <2>2
<1>5. TipDifficulty[b] > TipDifficulty[c]
  BY <1>3, <1>4, TipSiblings
<1>6. TipChainTypes'
  BY <1>1, TipMoved DEF TipChainTypes
<1>7. TipChains'
  <2>1. ASSUME NEW x \in tipStored[n] PROVE TipSettled(x, b, tipSpoilt'[n])
    <3>1. TipSettled(x, t, tipSpoilt[n]) /\ x \in TipAll
      BY <1>1 DEF TipChains
    <3> QED BY <1>1, <1>5, <3>1, TipSettledBeside
  <2>2. \A m \in TipNodes \ {n} : tipSpoilt'[m] = tipSpoilt[m]
    BY <1>1 DEF TipChainTypes
  <2> QED BY <1>1, <2>1, <2>2, TipMovedChains, TipGenesisStored
<1>8. ASSUME NEW x \in TipAll, TipPasses(b, x)
      PROVE  TipPasses(t, x)
  <2>1. /\ Tips!Height(x) \in Nat /\ Tips!Height(x) < h
        /\ x = Tips!Ancestor(b, Tips!Height(x))
    BY <1>8, TipHeightType DEF TipPasses
  <2>2. Tips!Height(x) \in 0..(h - 1) /\ h - 1 \in 0..Tips!Height(t)
        /\ Tips!Height(x) < Tips!Height(t)
    BY <1>2, <2>1
  <2>3. x = Tips!Ancestor(Tips!Parent(b), Tips!Height(x))
    BY <2>1, <2>2, TipAncestorOfParent
  <2>4. Tips!Ancestor(Tips!Ancestor(t, h - 1), Tips!Height(x)) =
          Tips!Ancestor(t, Tips!Height(x))
    BY <1>1, <2>2, TipAncestorOfAncestor
  <2> QED BY <1>1, <2>2, <2>3, <2>4 DEF TipPasses
<1> QED BY <1>1, <1>5, <1>6, <1>7, <1>8, TipMoved

LEMMA TipGoesDown ==
  ASSUME TipChainTypes, TipChains, NEW n \in TipNodes, NEW k \in Nat, TipDown(n, k)
  PROVE  /\ TipChainTypes' /\ TipChains' /\ tipCut'[n] = TRUE
         /\ \A m \in TipNodes \ {n} :
              tipTip'[m] = tipTip[m] /\ tipCut'[m] = tipCut[m]
<1> DEFINE t == tipTip[n]
           z == Tips!Ancestor(t, k)
           S == {Tips!Ancestor(t, i) : i \in (k + 1)..Tips!Height(t)}
<1>1. /\ t \in TipAll /\ Tips!Height(t) \in Nat /\ k < Tips!Height(t)
      /\ k \in 0..Tips!Height(t)
      /\ tipTip' = [tipTip EXCEPT ![n] = z]
      /\ tipStored' = [tipStored EXCEPT ![n] = @ \ S]
      /\ tipSpoilt' = [tipSpoilt EXCEPT ![n] = TRUE]
      /\ tipCut' = [tipCut EXCEPT ![n] = TRUE]
  <2>1. t \in TipAll
    BY DEF TipChainTypes
  <2> QED BY <2>1, TipHeightType DEF TipDown
<1>2. /\ z \in TipAll /\ Tips!Height(z) = k
      /\ \A i \in 0..k : Tips!Ancestor(z, i) = Tips!Ancestor(t, i)
  BY <1>1, TipAncestorIs, TipAncestorOfAncestor
<1>3. \A i \in 0..k : Tips!Ancestor(z, i) \in tipStored[n] \ S
  <2>1. ASSUME NEW i \in 0..k, NEW j \in (k + 1)..Tips!Height(t),
               Tips!Ancestor(t, i) = Tips!Ancestor(t, j)
        PROVE  FALSE
    <3>1. i \in 0..Tips!Height(t) /\ j \in 0..Tips!Height(t) /\ i # j
      BY <1>1
    <3>2. Tips!Height(Tips!Ancestor(t, i)) = i /\ Tips!Height(Tips!Ancestor(t, j)) = j
      BY <1>1, <3>1, TipAncestorIs
    <3> QED BY <2>1, <3>1, <3>2
  <2>2. ASSUME NEW i \in 0..k PROVE Tips!Ancestor(t, i) \in tipStored[n]
    <3>1. i \in 0..Tips!Height(t)
      BY <1>1
    <3> QED BY <3>1 DEF TipChains
  <2> QED BY <1>2, <2>1, <2>2
<1>4. \A x \in tipStored[n] : TipSettled(x, z, TRUE)
  <2>1. ASSUME NEW x \in tipStored[n] PROVE TipSettled(x, z, TRUE)
    <3>1. TipSettled(x, t, tipSpoilt[n]) /\ x \in TipAll
      BY DEF TipChains, TipChainTypes
    <3>2. TipOn(x, z) \/ TipOn(z, x) \/ TipOvertaken(x, z)
      BY <1>1, <3>1, TipSettledDown
    <3> QED BY <3>2 DEF TipSettled
  <2> QED BY <2>1
<1> HIDE DEF S, z
<1>5. /\ TipChainTypes'
      /\ tipTip'[n] = z /\ tipStored'[n] = tipStored[n] \ S
      /\ tipSpoilt'[n] = TRUE /\ tipCut'[n] = TRUE
      /\ \A m \in TipNodes \ {n} :
           /\ tipTip'[m] = tipTip[m] /\ tipStored'[m] = tipStored[m]
           /\ tipSpoilt'[m] = tipSpoilt[m] /\ tipCut'[m] = tipCut[m]
  BY <1>1, <1>2 DEF TipChainTypes
<1>6. ASSUME NEW m \in TipNodes
      PROVE  /\ \A h \in 0..Tips!Height(tipTip'[m]) :
                  Tips!Ancestor(tipTip'[m], h) \in tipStored'[m]
             /\ \A x \in tipStored'[m] : TipSettled(x, tipTip'[m], tipSpoilt'[m])
  <2>1. CASE m = n
    BY <1>2, <1>3, <1>4, <1>5, <2>1
  <2>2. CASE m # n
    <3>1. /\ tipTip'[m] = tipTip[m] /\ tipStored'[m] = tipStored[m]
          /\ tipSpoilt'[m] = tipSpoilt[m]
      BY <1>5, <2>2
    <3> QED BY <3>1 DEF TipChains
  <2> QED BY <2>1, <2>2
<1> QED BY <1>5, <1>6 DEF TipChains

-----------------------------------------------------------------------------
(* TipConsensus: what becomes of a chain. *)

TipStays == UNCHANGED <<tipTip, tipStored, tipSpoilt, tipCut>>

\* A block extends the tip, takes over from the blocks beside it, or waits.
LEMMA TipProcessed ==
  ASSUME TipChainTypes, NEW n \in TipNodes, NEW b \in TipBlocks,
         Tips!ProcessBlock(n, b)
  PROVE  /\ TipStays \/ TipUp(n, b) \/ TipBeside(n, b)
         /\ tipBehind' = tipBehind \/ Tips!AskForSync(n)
<1>1. /\ tipTip[n] \in TipAll /\ b \in TipAll /\ tipSpoilt[n] \in BOOLEAN
      /\ TipOn(Tips!Parent(b), b)
      /\ Tips!Height(Tips!Parent(b)) < Tips!Height(b)
      /\ Tips!Height(Tips!Parent(b)) \in Nat /\ Tips!Height(b) \in Nat
  BY TipParentOn, TipParentIs, TipHeightType DEF TipChainTypes
<1>2. CASE Tips!DirectExtension(n, b)
  <2>1. TipStays \/ (~tipSpoilt[n] /\ Tips!MoveTo(n, b) /\ UNCHANGED tipSpoilt)
    BY <1>2 DEF Tips!DirectExtension, Tips!Extend, Tips!Keep, Tips!chainVars, TipStays
  <2>2. Tips!Parent(b) = tipTip[n] /\ tipBehind' = tipBehind
    BY <1>2 DEF Tips!DirectExtension
  <2>3. TipOn(tipTip[n], b) /\ tipTip[n] # b
    BY <1>1, <2>2
  <2> QED BY <2>1, <2>2, <2>3 DEF TipUp
<1>3. CASE Tips!SameHeightFork(n, b)
  <2>1. Tips!Height(b) <= Tips!Height(tipTip[n]) /\ tipBehind' = tipBehind
    BY <1>3 DEF Tips!SameHeightFork
  <2>2. TipStays \/ (Tips!Selects(n, b) /\ Tips!Offer(n, b))
    BY <1>3 DEF Tips!SameHeightFork, Tips!Keep, Tips!chainVars, TipStays
  <2>3. CASE Tips!Selects(n, b) /\ Tips!Offer(n, b)
    <3>1. Tips!Parent(b) = Tips!Ancestor(tipTip[n], Tips!Height(b) - 1)
      BY <2>3 DEF Tips!Selects
    <3>2. CASE b \in tipStored[n] \/ Tips!TotalWork(b) <= Tips!TotalWork(tipTip[n])
      <4>1. TipStays
        BY <2>3, <3>2 DEF Tips!Offer, Tips!Keep, Tips!chainVars, TipStays
      <4> QED BY <2>1, <4>1
    <3>3. CASE ~(b \in tipStored[n] \/ Tips!TotalWork(b) <= Tips!TotalWork(tipTip[n]))
      <4>1. Tips!MoveTo(n, b) /\ tipSpoilt' = [tipSpoilt EXCEPT ![n] = FALSE]
        BY <2>3, <3>3 DEF Tips!Offer
      <4>2. Tips!TotalWork(b) > Tips!TotalWork(tipTip[n])
        BY <1>1, <3>3, TipWorkType
      <4>3. TipBeside(n, b)
        BY <2>1, <3>1, <3>3, <4>1, <4>2 DEF TipBeside
      <4> QED BY <2>1, <4>3
    <3> QED BY <3>2, <3>3
  <2> QED BY <2>1, <2>2, <2>3
<1>4. CASE \/ Tips!AlreadyInChain(n, b) \/ Tips!MissingParent(n, b)
           \/ Tips!OnSideBranch(n, b)
  BY <1>4 DEF Tips!AlreadyInChain, Tips!MissingParent, Tips!OnSideBranch,
       Tips!Keep, Tips!chainVars, TipStays
<1> QED BY <1>2, <1>3, <1>4 DEF Tips!ProcessBlock

\* A node that has processed a block whose parent its tip passes is on a chain
\* with no less work than the block's.
LEMMA TipWeighed ==
  ASSUME TipChainTypes, TipChains, NEW n \in TipNodes, NEW b \in TipBlocks,
         Tips!ProcessBlock(n, b), TipPasses(tipTip'[n], Tips!Parent(b))
  PROVE  Tips!TotalWork(tipTip'[n]) >= Tips!TotalWork(b)
<1> DEFINE t == tipTip[n]
           h == Tips!Height(b)
           p == Tips!Parent(b)
           a == Tips!Ancestor(t, h)
<1>1. /\ t \in TipAll /\ b \in TipAll /\ Tips!TotalWork(b) \in Int
      /\ Tips!TotalWork(t) \in Int
      /\ Tips!Height(t) \in Nat /\ h \in Nat \ {0} /\ Tips!Height(p) = h - 1
  BY TipWorkType, TipHeightType, TipParentIs DEF TipChainTypes, TipAll
<1>2. CASE TipUp(n, b) \/ TipBeside(n, b)
  <2>1. tipTip'[n] = b
    BY <1>2, TipGoesUp, TipGoesBeside
  <2> QED BY <1>1, <2>1
<1>3. CASE TipStays
  <2>1. /\ tipTip'[n] = t /\ p = Tips!Ancestor(t, h - 1) /\ h <= Tips!Height(t)
        /\ h - 1 \in 0..Tips!Height(t) /\ h \in 0..Tips!Height(t)
        /\ h >= 1 /\ h \in 1..Tips!Height(t)
    BY <1>1, <1>3 DEF TipPasses, TipStays
  <2>2. p \in tipStored[n]
    BY <2>1 DEF TipChains
  <2>3. /\ a \in TipBlocks /\ Tips!Parent(a) = p /\ Tips!Height(a) = h
        /\ Tips!TotalWork(a) <= Tips!TotalWork(t) /\ Tips!TotalWork(a) \in Int
    BY <1>1, <2>1, TipAncestorIs, TipParentOfAncestor, TipWorkRises, TipWorkType
  <2>4. CASE TipDifficulty[b] <= TipDifficulty[a]
    <3>1. Tips!TotalWork(b) <= Tips!TotalWork(a)
      BY <2>3, <2>4, TipSiblings
    <3> QED BY <1>1, <2>1, <2>3, <3>1
  <2>5. CASE Tips!TotalWork(b) <= Tips!TotalWork(t)
    BY <1>1, <2>1, <2>5
  <2>6. CASE b \in tipStored[n]
    <3>1. TipSettled(b, t, tipSpoilt[n])
      BY <2>6 DEF TipChains
    <3>2. TipDifficulty[b] <= TipDifficulty[a]
      BY <1>1, <2>1, <3>1, TipSettledTwin
    <3> QED BY <2>4, <3>2
  <2>7. \/ TipDifficulty[b] <= TipDifficulty[a]
        \/ Tips!TotalWork(b) <= Tips!TotalWork(t)
        \/ b \in tipStored[n]
    <3>1. CASE Tips!AlreadyInChain(n, b)
      <4>1. \E k \in 0..Tips!Height(t) : b = Tips!Ancestor(t, k)
        BY <3>1 DEF Tips!AlreadyInChain, Tips!Canonical
      <4> QED BY <4>1 DEF TipChains
    <3>2. CASE Tips!DirectExtension(n, b)
      BY <1>1, <2>1, <3>2 DEF Tips!DirectExtension
    <3>3. CASE Tips!MissingParent(n, b)
      BY <2>2, <3>3 DEF Tips!MissingParent
    <3>4. CASE Tips!OnSideBranch(n, b)
      BY <1>1, <2>1, <3>4 DEF Tips!OnSideBranch
    <3>5. CASE Tips!SameHeightFork(n, b)
      <4>1. CASE Tips!Selects(n, b)
        <5>1. Tips!Offer(n, b)
          BY <3>5, <4>1 DEF Tips!SameHeightFork
        <5>2. CASE ~(b \in tipStored[n] \/ Tips!TotalWork(b) <= Tips!TotalWork(t))
          <6>1. tipTip' = [tipTip EXCEPT ![n] = b]
            BY <5>1, <5>2 DEF Tips!Offer, Tips!MoveTo
          <6>2. tipTip'[n] = b
            BY <6>1 DEF TipChainTypes
          <6> QED BY <1>1, <2>1, <6>2
        <5> QED BY <5>2
      <4>2. CASE ~Tips!Selects(n, b)
        <5>1. ~Tips!IsBetterBlockCandidate(b, a)
          BY <2>1, <4>2 DEF Tips!Selects
        <5>2. ~(TipDifficulty[b] > TipDifficulty[a])
          BY <5>1 DEF Tips!IsBetterBlockCandidate
        <5>3. TipDifficulty[b] \in Nat /\ TipDifficulty[a] \in Nat
          BY <2>3, TipSiblings
        <5> QED BY <5>2, <5>3
      <4> QED BY <4>1, <4>2
    <3> QED BY <3>1, <3>2, <3>3, <3>4, <3>5 DEF Tips!ProcessBlock
  <2> QED BY <2>4, <2>5, <2>6, <2>7
<1> QED BY <1>2, <1>3, TipProcessed

\* Two chains part somewhere, at genesis or above.
LEMMA TipPart ==
  ASSUME NEW b \in TipAll, NEW c \in TipAll
  PROVE  /\ Tips!CommonHeight(b, c) \in 0..Tips!Height(b)
         /\ Tips!CommonHeight(b, c) <= Tips!Height(c)
         /\ Tips!Ancestor(b, Tips!CommonHeight(b, c)) =
              Tips!Ancestor(c, Tips!CommonHeight(b, c))
         /\ Tips!CommonHeight(b, c) < Tips!Height(b) /\
            Tips!CommonHeight(b, c) < Tips!Height(c) =>
              Tips!Ancestor(b, Tips!CommonHeight(b, c) + 1) #
                Tips!Ancestor(c, Tips!CommonHeight(b, c) + 1)
<1> DEFINE A(x, h) == Tips!Ancestor(x, h)
           B == Tips!Height(b)
           C == Tips!Height(c)
           P(h) == /\ h <= C /\ A(b, h) = A(c, h)
                   /\ h < B /\ h < C => A(b, h + 1) # A(c, h + 1)
           W == {m \in Nat : m <= B /\ B - m <= C /\ A(b, B - m) = A(c, B - m)}
<1>1. B \in Nat /\ C \in Nat /\ A(b, 0) = A(c, 0)
  BY TipHeightType DEF Tips!Ancestor
<1> HIDE DEF A, B, C
<1>2. B \in W /\ W \subseteq Nat
  BY <1>1
<1>3. PICK m \in W : \A k \in W : m <= k
  BY <1>2, NatLeast
<1>4. B - m \in 0..B /\ P(B - m)
  <2>1. /\ m \in Nat /\ m <= B /\ B - m <= C /\ A(b, B - m) = A(c, B - m)
        /\ B - m \in 0..B
    BY <1>1
  <2>2. ASSUME B - m < B, B - m < C, A(b, (B - m) + 1) = A(c, (B - m) + 1)
        PROVE  FALSE
    <3>1. m # 0 /\ m - 1 \in Nat /\ B - (m - 1) = (B - m) + 1
      BY <1>1, <2>1, <2>2
    <3>2. m - 1 \in W
      BY <1>1, <2>1, <2>2, <3>1
    <3> QED BY <1>3, <2>1, <3>2
  <2> QED BY <2>1, <2>2
<1>5. Tips!CommonHeight(b, c) = CHOOSE h \in 0..B : P(h)
  BY DEF Tips!CommonHeight, A, B, C
<1> HIDE DEF P
<1>6. Tips!CommonHeight(b, c) \in 0..B /\ P(Tips!CommonHeight(b, c))
  BY <1>4, <1>5
<1> QED BY <1>6 DEF P, A, B, C

\* A sync adds the blocks of the peer's chain, or it cuts.
LEMMA TipSynced ==
  ASSUME TipChainTypes, NEW n \in TipNodes, tipPlan.nodes \subseteq TipNodes,
         Tips!Sync(n)
  PROVE  \E p \in tipPlan.nodes :
           /\ tipTip[p] \in TipBlocks
           /\ Tips!Height(tipTip[p]) > Tips!Height(tipTip[n])
           /\ \/ TipOn(tipTip[n], tipTip[p]) /\ tipSpoilt[n] /\ TipStays
              \/ TipUp(n, tipTip[p])
              \/ /\ ~TipOn(tipTip[n], tipTip[p])
                 /\ \E k \in Nat : TipDown(n, k)
<1>1. PICK p \in tipPlan.nodes :
        LET h == Tips!CommonHeight(tipTip[n], tipTip[p]) IN
        /\ Tips!Height(tipTip[p]) > Tips!Height(tipTip[n])
        /\ IF h = Tips!Height(tipTip[n])
             THEN Tips!Extend(n, tipTip[p])
             ELSE /\ tipTip' = [tipTip EXCEPT ![n] = Tips!Ancestor(tipTip[n], h)]
                  /\ tipStored' = [tipStored EXCEPT ![n] =
                       @ \ {Tips!Ancestor(tipTip[n], i) :
                              i \in (h + 1)..Tips!Height(tipTip[n])}]
                  /\ tipSpoilt' = [tipSpoilt EXCEPT ![n] = TRUE]
                  /\ tipCut' = [tipCut EXCEPT ![n] = TRUE]
  BY DEF Tips!Sync
<1> DEFINE t == tipTip[n]
           u == tipTip[p]
           h == Tips!CommonHeight(t, u)
<1>2. /\ t \in TipAll /\ u \in TipAll /\ Tips!Height(u) > Tips!Height(t)
      /\ Tips!Height(t) \in Nat /\ Tips!Height(u) \in Nat /\ u \in TipBlocks
  <2>1. t \in TipAll /\ u \in TipAll /\ Tips!Height(u) > Tips!Height(t)
    BY <1>1 DEF TipChainTypes
  <2>2. Tips!Height(t) \in Nat /\ Tips!Height(u) \in Nat
    BY <2>1, TipHeightType
  <2>3. Tips!Height(u) # 0
    BY <2>1, <2>2
  <2> QED BY <2>1, <2>2, <2>3, TipHeightType
<1>3. /\ h \in 0..Tips!Height(t) /\ h <= Tips!Height(u)
      /\ Tips!Ancestor(t, h) = Tips!Ancestor(u, h)
      /\ h < Tips!Height(t) /\ h < Tips!Height(u) =>
           Tips!Ancestor(t, h + 1) # Tips!Ancestor(u, h + 1)
  BY <1>2, TipPart
<1>4. CASE h = Tips!Height(t)
  <2>1. TipOn(t, u)
    BY <1>2, <1>3, <1>4, TipAncestorAtTop DEF TipOn
  <2>2. t # u
    BY <1>2
  <2>3. Tips!Extend(n, u)
    BY <1>1, <1>4
  <2>4. \/ tipSpoilt[n] /\ TipStays
        \/ ~tipSpoilt[n] /\ Tips!MoveTo(n, u) /\ UNCHANGED tipSpoilt
    BY <2>3 DEF Tips!Extend, Tips!Keep, Tips!chainVars, TipStays
  <2> QED BY <1>2, <2>1, <2>2, <2>4 DEF TipUp
<1>5. CASE h # Tips!Height(t)
  <2>1. h < Tips!Height(t) /\ h < Tips!Height(u) /\ h \in Nat
        /\ h + 1 \in 0..Tips!Height(t)
    BY <1>2, <1>3, <1>5
  <2>2. ~TipOn(t, u)
    <3> SUFFICES ASSUME TipOn(t, u) PROVE FALSE
      OBVIOUS
    <3>1. Tips!Ancestor(t, h + 1) = Tips!Ancestor(u, h + 1)
      BY <1>2, <2>1, TipOnChain
    <3> QED BY <1>3, <2>1, <3>1
  <2>3. TipDown(n, h)
    BY <1>1, <1>5, <2>1 DEF TipDown
  <2> QED BY <1>2, <2>1, <2>2, <2>3
<1> QED BY <1>4, <1>5

\* A mined block lies on the tip.
LEMMA TipMined ==
  ASSUME TipChainTypes, NEW n \in TipNodes, NEW b \in TipBlocks,
         ~tipSpoilt[n], Tips!Parent(b) = tipTip[n], Tips!Extend(n, b)
  PROVE  TipUp(n, b)
<1>1. TipOn(tipTip[n], b) /\ tipTip[n] # b
  <2>1. /\ TipOn(Tips!Parent(b), b)
        /\ Tips!Height(Tips!Parent(b)) < Tips!Height(b)
        /\ Tips!Height(b) \in Nat
    BY TipParentOn, TipParentIs
  <2> QED BY <2>1
<1>2. ~tipSpoilt[n] /\ Tips!MoveTo(n, b) /\ UNCHANGED tipSpoilt
  BY DEF Tips!Extend
<1> QED BY <1>1, <1>2 DEF TipUp

\* The strongest candidate is a candidate, and none is harder.
LEMMA TipStrongest ==
  ASSUME NEW n \in TipNodes, NEW S \in SUBSET TipBlocks, S # {}, NEW p,
         \A b \in S : Tips!Parent(b) = p, Tips!Candidates(n) = S
  PROVE  /\ Tips!Strongest(n) \in S
         /\ \A c \in S : TipDifficulty[c] <= TipDifficulty[Tips!Strongest(n)]
<1> DEFINE Beats(b, c) == Tips!IsBetterBlockCandidate(b, c)
           Stronger(b) == {c \in S : Beats(c, b)}
           N(b) == Cardinality(Stronger(b))
           W == {N(b) : b \in S}
<1>1. /\ \A b, c \in S : b # c => Beats(b, c) \/ Beats(c, b)
      /\ \A b, c, d \in S : Beats(b, c) /\ Beats(c, d) => Beats(b, d)
      /\ \A b \in S : ~Beats(b, b)
      /\ \A b, c \in S : Beats(b, c) => TipDifficulty[c] <= TipDifficulty[b]
  <2>1. /\ \A b \in S : TipDifficulty[b] \in Nat /\ TipRank[b] \in Nat
        /\ \A b, c \in S : b # c /\ TipDifficulty[b] = TipDifficulty[c] =>
             TipRank[b] # TipRank[c]
    <3>1. ASSUME NEW b \in S PROVE TipDifficulty[b] \in Nat /\ TipRank[b] \in Nat
      BY TipAssumption
    <3>2. ASSUME NEW b \in S, NEW c \in S, b # c, TipDifficulty[b] = TipDifficulty[c]
          PROVE  TipRank[b] # TipRank[c]
      <4>1. b \in TipBlocks /\ c \in TipBlocks /\ Tips!Parent(b) = Tips!Parent(c)
        OBVIOUS
      <4> QED BY <3>2, <4>1, TipAssumption
    <3> QED BY <3>1, <3>2
  <2>2. \A b, c : Beats(b, c) <=>
          \/ TipDifficulty[b] > TipDifficulty[c]
          \/ /\ TipDifficulty[b] = TipDifficulty[c]
             /\ TipRank[b] < TipRank[c]
    BY DEF Tips!IsBetterBlockCandidate
  <2> HIDE DEF Beats
  <2> QED BY <2>1, <2>2
<1>2. Tips!Strongest(n) = CHOOSE b \in S : \A c \in S \ {b} : Beats(b, c)
  BY DEF Tips!Strongest
<1> HIDE DEF Beats
<1>3. /\ IsFiniteSet(S)
      /\ \A b \in S : IsFiniteSet(Stronger(b)) /\ N(b) \in Nat
  <2>1. IsFiniteSet(S)
    BY TipAssumption, FS_Subset
  <2>2. ASSUME NEW b \in S PROVE IsFiniteSet(Stronger(b)) /\ N(b) \in Nat
    <3>1. Stronger(b) \subseteq S
      OBVIOUS
    <3>2. IsFiniteSet(Stronger(b))
      BY <2>1, <3>1, FS_Subset
    <3> QED BY <3>2, FS_CardinalityType
  <2> QED BY <2>1, <2>2
<1>4. W \subseteq Nat /\ W # {}
  BY <1>3
<1>5. PICK k \in W : \A j \in W : k <= j
  <2>1. PICK b \in S : TRUE
    OBVIOUS
  <2> QED BY <1>4, NatLeast
<1>6. PICK b \in S : k = N(b)
  BY DEF W
<1>7. ASSUME NEW c \in S \ {b} PROVE Beats(b, c)
  <2> SUFFICES ASSUME ~Beats(b, c) PROVE FALSE
    OBVIOUS
  <2>1. Beats(c, b)
    BY <1>1, <1>7
  <2>2. Stronger(c) \subseteq Stronger(b) /\ c \in Stronger(b) /\ c \notin Stronger(c)
    BY <1>1, <1>7, <2>1
  <2>3. N(c) < N(b)
    <3>1. Stronger(c) # Stronger(b)
      BY <2>2
    <3> HIDE DEF Stronger
    <3>2. /\ Cardinality(Stronger(c)) <= Cardinality(Stronger(b))
          /\ Cardinality(Stronger(c)) # Cardinality(Stronger(b))
      BY <1>3, <2>2, <3>1, FS_Subset
    <3> QED BY <1>3, <1>7, <3>2
  <2>4. N(c) \in W
    BY <1>7
  <2>5. k <= N(c) /\ k = N(b) /\ N(c) \in Nat /\ N(b) \in Nat
    BY <1>3, <1>5, <1>6, <1>7, <2>4
  <2> HIDE DEF N
  <2> QED BY <2>3, <2>5
<1> HIDE DEF N, W, Stronger
<1>8. Tips!Strongest(n) \in S /\ \A c \in S \ {Tips!Strongest(n)} :
        Beats(Tips!Strongest(n), c)
  BY <1>2, <1>7
<1>9. \A c \in S : TipDifficulty[c] \in Nat
  BY TipAssumption
<1> QED BY <1>1, <1>8, <1>9

-----------------------------------------------------------------------------
(* TipConsensus: a round of mining. *)

\* What a miner knows of the chains that it compared with its own.
TipRound(n) ==
  /\ tipTodo[n] # {} => tipLoop[n] = "asking"
  /\ tipLoop[n] = "idle" => tipLocal[n] = NoTip
  /\ tipLoop[n] # "idle" =>
       /\ tipLocal[n] \in TipAll
       /\ ~tipCut[n] => Tips!TotalWork(tipTip[n]) >= Tips!TotalWork(tipLocal[n])
  /\ tipLoop[n] = "asking" => tipLocal[n] # "G"
  /\ \A p \in TipNodes : tipFound[n][p] # NoTip =>
       /\ tipLoop[n] # "idle"
       /\ tipLocal[n] \in TipBlocks /\ tipFound[n][p] \in TipBlocks
       /\ Tips!Height(tipFound[n][p]) = Tips!Height(tipLocal[n])
       /\ /\ tipLoop[n] = "mining" /\ ~tipCut[n]
          /\ Tips!Parent(tipFound[n][p]) = Tips!Parent(tipLocal[n])
          /\ TipPasses(tipTip[n], Tips!Parent(tipFound[n][p]))
          => Tips!TotalWork(tipTip[n]) >= Tips!TotalWork(tipFound[n][p])

TipRounds == \A n \in TipNodes : TipRound(n)

TipKnows == UNCHANGED <<tipLoop, tipLocal, tipTodo, tipFound>>

\* What may become of the chain of n in a step.
TipMoves(n) ==
  \/ TipStays
  \/ \E b \in TipBlocks : TipUp(n, b) \/ TipBeside(n, b)
  \/ \E k \in Nat : TipDown(n, k)

LEMMA TipPlanTypes ==
  ASSUME TipTypes
  PROVE  /\ tipPlan.nodes \subseteq TipNodes
         /\ \A n \in TipNodes : tipPlan.mines[n] \subseteq TipBlocks
BY TipAssumption DEF TipTypes

LEMMA TipOthersRound ==
  ASSUME NEW m, TipRound(m), tipTip'[m] = tipTip[m], tipCut'[m] = tipCut[m],
         tipLoop'[m] = tipLoop[m], tipLocal'[m] = tipLocal[m],
         tipTodo'[m] = tipTodo[m], tipFound'[m] = tipFound[m]
  PROVE  TipRound(m)'
BY DEF TipRound

\* The tip of a miner goes to more work, and passes no parent that it did not
\* pass, but for its own.
LEMMA TipRoundRises ==
  ASSUME NEW n \in TipNodes, TipRound(n), tipTip[n] \in TipAll, tipTip'[n] \in TipAll,
         Tips!TotalWork(tipTip[n]) < Tips!TotalWork(tipTip'[n]),
         \A x \in TipAll : TipPasses(tipTip'[n], x) =>
           TipPasses(tipTip[n], x) \/ TipOn(tipTip[n], x),
         tipCut'[n] = tipCut[n], TipKnows
  PROVE  TipRound(n)'
<1> DEFINE t == tipTip[n]
           u == tipTip'[n]
           l == tipLocal[n]
<1>1. /\ Tips!TotalWork(t) \in Int /\ Tips!TotalWork(u) \in Int
      /\ l \in TipAll => Tips!TotalWork(l) \in Int
  BY TipWorkType
<1>2. tipLoop[n] # "idle" /\ ~tipCut[n] => l \in TipAll /\ Tips!TotalWork(u) >= Tips!TotalWork(l)
  BY <1>1 DEF TipRound
<1>3. ASSUME NEW p \in TipNodes, tipFound[n][p] # NoTip, tipLoop[n] = "mining", ~tipCut[n],
             Tips!Parent(tipFound[n][p]) = Tips!Parent(l),
             TipPasses(u, Tips!Parent(tipFound[n][p]))
      PROVE  Tips!TotalWork(u) >= Tips!TotalWork(tipFound[n][p])
  <2> DEFINE b == tipFound[n][p]
             x == Tips!Parent(b)
  <2>1. /\ b \in TipBlocks /\ l \in TipBlocks /\ x \in TipAll
        /\ Tips!TotalWork(b) \in Int /\ Tips!TotalWork(x) \in Int
    BY <1>3, TipParentIs, TipWorkType DEF TipRound, TipAll
  <2>2. CASE TipPasses(t, x)
    <3>1. Tips!TotalWork(t) >= Tips!TotalWork(b)
      BY <1>3, <2>2 DEF TipRound
    <3> QED BY <1>1, <2>1, <3>1
  <2>3. CASE TipOn(t, x)
    <3>1. Tips!TotalWork(t) <= Tips!TotalWork(x)
      <4>1. Tips!Height(t) \in 0..Tips!Height(x)
        BY <2>1, <2>3, TipHeightType DEF TipOn
      <4> QED BY <2>1, <2>3, <4>1, TipWorkRises DEF TipOn
    <3>2. Tips!TotalWork(x) < Tips!TotalWork(l) /\ Tips!TotalWork(l) \in Int
      <4>1. Tips!TotalWork(l) = Tips!TotalWork(x) + Tips!CalculateBlockWork(l)
        BY <1>3, <2>1, TipWorkAdds
      <4>2. Tips!CalculateBlockWork(l) \in Nat \ {0}
        BY <2>1, TipBlockWork
      <4> QED BY <2>1, <4>1, <4>2
    <3>3. Tips!TotalWork(t) >= Tips!TotalWork(l)
      BY <1>3 DEF TipRound
    <3> QED BY <1>1, <2>1, <3>1, <3>2, <3>3
  <2> QED BY <1>3, <2>1, <2>2, <2>3
<1> HIDE DEF t, u, l
<1>4. /\ tipLoop'[n] = tipLoop[n] /\ tipLocal'[n] = tipLocal[n]
      /\ tipTodo'[n] = tipTodo[n] /\ tipFound'[n] = tipFound[n]
  BY DEF TipKnows
<1> QED BY <1>2, <1>3, <1>4 DEF TipRound, t, u, l

\* Whatever becomes of the chain while the miner's knowledge stays.
LEMMA TipMovesRound ==
  ASSUME TipTypes, TipChains, TipRounds, NEW n \in TipNodes, TipMoves(n)
  PROVE  /\ TipChainTypes' /\ TipChains'
         /\ \A m \in TipNodes \ {n} : tipTip'[m] = tipTip[m] /\ tipCut'[m] = tipCut[m]
         /\ TipKnows => TipRounds'
<1>1. TipChainTypes /\ tipTip[n] \in TipAll
  BY DEF TipTypes, TipChainTypes
<1>2. CASE TipStays
  <2>1. TipChainTypes'
    BY <1>1, <1>2 DEF TipStays, TipChainTypes
  <2>2. TipChains'
    BY <1>2 DEF TipStays, TipChains
  <2>3. TipKnows => TipRounds'
    BY <1>2 DEF TipStays, TipRounds, TipRound, TipKnows
  <2> QED BY <1>2, <2>1, <2>2, <2>3 DEF TipStays
<1>3. ASSUME NEW b \in TipBlocks, TipUp(n, b) \/ TipBeside(n, b)
      PROVE  /\ TipChainTypes' /\ TipChains'
             /\ \A m \in TipNodes \ {n} : tipTip'[m] = tipTip[m] /\ tipCut'[m] = tipCut[m]
             /\ TipKnows => TipRounds'
  <2>1. /\ TipChainTypes' /\ TipChains' /\ tipCut' = tipCut
        /\ tipTip'[n] = b /\ Tips!TotalWork(tipTip[n]) < Tips!TotalWork(b)
        /\ \A m \in TipNodes \ {n} : tipTip'[m] = tipTip[m]
        /\ \A x \in TipAll : TipPasses(b, x) =>
             TipPasses(tipTip[n], x) \/ TipOn(tipTip[n], x)
    BY <1>1, <1>3, TipGoesUp, TipGoesBeside
  <2>2. ASSUME TipKnows PROVE TipRounds'
    <3>1. TipRound(n)'
      BY <1>1, <2>1, <2>2, TipRoundRises DEF TipRounds, TipAll
    <3>2. ASSUME NEW m \in TipNodes \ {n} PROVE TipRound(m)'
      BY <2>1, <2>2, TipOthersRound DEF TipRounds, TipKnows
    <3> QED BY <3>1, <3>2 DEF TipRounds
  <2> QED BY <2>1, <2>2
<1>4. ASSUME NEW k \in Nat, TipDown(n, k)
      PROVE  /\ TipChainTypes' /\ TipChains'
             /\ \A m \in TipNodes \ {n} : tipTip'[m] = tipTip[m] /\ tipCut'[m] = tipCut[m]
             /\ TipKnows => TipRounds'
  <2>1. /\ TipChainTypes' /\ TipChains' /\ tipCut'[n] = TRUE
        /\ \A m \in TipNodes \ {n} :
             tipTip'[m] = tipTip[m] /\ tipCut'[m] = tipCut[m]
    BY <1>1, <1>4, TipGoesDown
  <2>2. ASSUME TipKnows PROVE TipRounds'
    <3>1. TipRound(n)'
      BY <2>1, <2>2 DEF TipRounds, TipRound, TipKnows
    <3>2. ASSUME NEW m \in TipNodes \ {n} PROVE TipRound(m)'
      BY <2>1, <2>2, TipOthersRound DEF TipRounds, TipKnows
    <3> QED BY <3>1, <3>2 DEF TipRounds
  <2> QED BY <2>1, <2>2
<1> QED BY <1>2, <1>3, <1>4 DEF TipMoves

\* A block that is processed, and a sync, move the chain so.
LEMMA TipProcessMoves ==
  ASSUME TipTypes, NEW n \in TipNodes, NEW b \in TipBlocks, Tips!ProcessBlock(n, b)
  PROVE  TipMoves(n) /\ tipBehind' \in {tipBehind, [tipBehind EXCEPT ![n] = TRUE]}
<1>1. TipChainTypes
  BY DEF TipTypes, TipChainTypes
<1>2. tipBehind' = tipBehind \/ tipBehind' = [tipBehind EXCEPT ![n] = TRUE]
  BY <1>1, TipProcessed DEF Tips!AskForSync
<1> QED BY <1>1, <1>2, TipProcessed DEF TipMoves

LEMMA TipSyncMoves ==
  ASSUME TipTypes, NEW n \in TipNodes, Tips!Sync(n)
  PROVE  TipMoves(n)
<1>1. TipChainTypes /\ tipPlan.nodes \subseteq TipNodes
  BY TipPlanTypes DEF TipTypes, TipChainTypes
<1> QED BY <1>1, TipSynced DEF TipMoves

-----------------------------------------------------------------------------
(* TipConsensus: what a miner builds on. *)

TipSafe == TipTypes /\ TipChains /\ TipRounds

LEMMA TipBroadcastTypes ==
  ASSUME TipTypes, NEW n \in TipNodes, NEW b \in TipBlocks, Tips!Broadcast(n, b)
  PROVE  /\ tipKnown' \in [TipNodes -> SUBSET TipBlocks]
         /\ tipInbox' \in [TipNodes -> SUBSET (TipBlocks \X TipNodes)]
<1>1. tipKnown' \in [TipNodes -> SUBSET TipBlocks]
  BY DEF TipTypes, Tips!Broadcast
<1>2. ASSUME NEW m \in TipNodes
      PROVE  (IF m \in tipPlan.nodes \ {n} THEN tipInbox[m] \cup {<<b, n>>}
                ELSE tipInbox[m]) \in SUBSET (TipBlocks \X TipNodes)
  BY DEF TipTypes
<1> QED BY <1>1, <1>2 DEF Tips!Broadcast

LEMMA TipReceiveTypes ==
  ASSUME TipTypes, NEW n \in TipNodes, Tips!Receive(n)
  PROVE  /\ tipKnown' \in [TipNodes -> SUBSET TipBlocks]
         /\ tipInbox' \in [TipNodes -> SUBSET (TipBlocks \X TipNodes)]
         /\ TipMoves(n) /\ TipKnows /\ tipPlan' = tipPlan
<1>1. PICK a \in tipInbox[n] :
        /\ tipKnown' = [tipKnown EXCEPT ![n] = @ \cup {a[1]}]
        /\ tipInbox' = [m \in TipNodes |->
             IF m = n THEN tipInbox[n] \ {a}
             ELSE IF a[1] \notin tipKnown[n] /\ m \in tipPlan.nodes \ {a[2]}
               THEN tipInbox[m] \cup {<<a[1], n>>}
             ELSE tipInbox[m]]
        /\ Tips!ProcessBlock(n, a[1])
        /\ TipKnows /\ tipPlan' = tipPlan
  BY DEF Tips!Receive, Tips!askVars, TipKnows
<1>2. a[1] \in TipBlocks /\ a[2] \in TipNodes
  BY DEF TipTypes
<1>3. tipKnown' \in [TipNodes -> SUBSET TipBlocks]
  BY <1>1, <1>2 DEF TipTypes
<1>4. ASSUME NEW m \in TipNodes
      PROVE  (IF m = n THEN tipInbox[n] \ {a}
              ELSE IF a[1] \notin tipKnown[n] /\ m \in tipPlan.nodes \ {a[2]}
                THEN tipInbox[m] \cup {<<a[1], n>>}
              ELSE tipInbox[m]) \in SUBSET (TipBlocks \X TipNodes)
  BY <1>2 DEF TipTypes
<1> QED BY <1>1, <1>2, <1>3, <1>4, TipProcessMoves

LEMMA TipReceiveStep ==
  ASSUME TipSafe, NEW n \in TipNodes, Tips!Receive(n)
  PROVE  TipSafe'
<1>1. /\ tipKnown' \in [TipNodes -> SUBSET TipBlocks]
      /\ tipInbox' \in [TipNodes -> SUBSET (TipBlocks \X TipNodes)]
      /\ TipMoves(n) /\ TipKnows /\ tipPlan' = tipPlan
  BY TipReceiveTypes DEF TipSafe
<1>2. TipChainTypes' /\ TipChains' /\ TipRounds'
  BY <1>1, TipMovesRound DEF TipSafe
<1>3. TipTypes'
  BY <1>1, <1>2 DEF TipSafe, TipTypes, TipChainTypes, TipKnows
<1> QED BY <1>2, <1>3 DEF TipSafe

LEMMA TipSyncStep ==
  ASSUME TipSafe, NEW n \in TipNodes, Tips!Sync(n)
  PROVE  TipSafe'
<1>1. /\ tipPlan' = tipPlan /\ tipKnown' = tipKnown /\ tipInbox' = tipInbox
      /\ TipKnows
  BY DEF Tips!Sync, Tips!askVars, TipKnows
<1>2. TipChainTypes' /\ TipChains' /\ TipRounds'
  BY <1>1, TipSyncMoves, TipMovesRound DEF TipSafe
<1>3. TipTypes'
  BY <1>1, <1>2 DEF TipSafe, TipTypes, TipChainTypes, TipKnows
<1> QED BY <1>2, <1>3 DEF TipSafe

\* Steps that touch neither a chain nor a round.
LEMMA TipIdleStep ==
  ASSUME TipSafe, NEW n \in TipNodes, Tips!Lose(n) \/ Tips!NoSync(n)
  PROVE  TipSafe'
<1>1. /\ tipPlan' = tipPlan /\ tipKnown' = tipKnown /\ TipStays /\ TipKnows
      /\ tipInbox' = tipInbox \/ \E a \in tipInbox[n] :
                                   tipInbox' = [tipInbox EXCEPT ![n] = @ \ {a}]
  BY DEF Tips!Lose, Tips!NoSync, Tips!askVars, Tips!chainVars, TipKnows, TipStays
<1>2. TipChainTypes' /\ TipChains' /\ TipRounds'
  BY <1>1, TipMovesRound DEF TipSafe, TipMoves
<1>3. tipInbox' \in [TipNodes -> SUBSET (TipBlocks \X TipNodes)]
  BY <1>1 DEF TipSafe, TipTypes
<1>4. TipTypes'
  BY <1>1, <1>2, <1>3 DEF TipSafe, TipTypes, TipChainTypes, TipKnows
<1> QED BY <1>2, <1>4 DEF TipSafe

LEMMA TipBeginStep ==
  ASSUME TipSafe, NEW n \in TipNodes, Tips!BeginToAsk(n)
  PROVE  TipSafe'
<1>1. /\ tipLoop[n] = "idle"
      /\ tipLocal' = [tipLocal EXCEPT ![n] = tipTip[n]]
      /\ \/ tipTodo' = [tipTodo EXCEPT ![n] = {}]
         \/ /\ tipTodo' = [tipTodo EXCEPT ![n] = tipPlan.nodes \ {n}]
            /\ tipTip[n] # "G"
      /\ \/ tipLoop' = [tipLoop EXCEPT ![n] = "mining"]
         \/ tipLoop' = [tipLoop EXCEPT ![n] = "asking"] /\ tipTip[n] # "G"
      /\ tipTip[n] # "G" => tipLoop' = [tipLoop EXCEPT ![n] = "asking"]
      /\ tipCut' = [tipCut EXCEPT ![n] = FALSE]
      /\ UNCHANGED <<tipPlan, tipTip, tipStored, tipSpoilt, tipKnown, tipInbox, tipFound>>
  BY DEF Tips!BeginToAsk
<1>2. tipTip[n] \in TipAll /\ tipPlan.nodes \subseteq TipNodes
  BY TipPlanTypes DEF TipSafe, TipTypes
<1>3. TipTypes'
  <2>1. /\ tipLocal' \in [TipNodes -> TipAll \cup {NoTip}]
        /\ tipTodo' \in [TipNodes -> SUBSET TipNodes]
        /\ tipLoop' \in [TipNodes -> {"idle", "asking", "mining"}]
        /\ tipCut' \in [TipNodes -> BOOLEAN]
    BY <1>1, <1>2 DEF TipSafe, TipTypes
  <2> QED BY <1>1, <2>1 DEF TipSafe, TipTypes
<1>4. TipChains'
  BY <1>1 DEF TipSafe, TipChains
<1>5. TipRound(n)'
  <2>1. /\ tipLocal'[n] = tipTip[n] /\ tipLoop'[n] # "idle" /\ tipTip'[n] = tipTip[n]
        /\ tipTodo'[n] # {} => tipLoop'[n] = "asking"
        /\ tipLoop'[n] = "asking" => tipTip[n] # "G"
    BY <1>1, <1>2 DEF TipSafe, TipTypes
  <2>2. \A p \in TipNodes : tipFound'[n][p] = NoTip
    BY <1>1 DEF TipSafe, TipRounds, TipRound
  <2>3. Tips!TotalWork(tipTip[n]) >= Tips!TotalWork(tipTip[n])
    BY <1>2, TipWorkType
  <2> QED BY <1>2, <2>1, <2>2, <2>3 DEF TipRound
<1>6. ASSUME NEW m \in TipNodes \ {n} PROVE TipRound(m)'
  <2>1. /\ tipTip'[m] = tipTip[m] /\ tipCut'[m] = tipCut[m]
        /\ tipLoop'[m] = tipLoop[m] /\ tipLocal'[m] = tipLocal[m]
        /\ tipTodo'[m] = tipTodo[m] /\ tipFound'[m] = tipFound[m]
    BY <1>1 DEF TipSafe, TipTypes
  <2> QED BY <2>1, TipOthersRound DEF TipSafe, TipRounds
<1> QED BY <1>3, <1>4, <1>5, <1>6 DEF TipSafe, TipRounds

LEMMA TipAskStep ==
  ASSUME TipSafe, NEW n \in TipNodes, Tips!Ask(n) \/ Tips!NoAnswer(n)
  PROVE  TipSafe'
<1>1. PICK p \in tipTodo[n] :
      /\ tipTodo' = [tipTodo EXCEPT ![n] = @ \ {p}]
      /\ \/ tipFound' = tipFound
         \/ /\ Tips!Height(tipTip[p]) >= Tips!Height(tipLocal[n])
            /\ tipFound' = [tipFound EXCEPT ![n][p] =
                              Tips!Ancestor(tipTip[p], Tips!Height(tipLocal[n]))]
      /\ tipLoop' = tipLoop /\ tipLocal' = tipLocal
      /\ UNCHANGED <<tipPlan, tipTip, tipStored, tipSpoilt, tipCut, tipKnown, tipInbox>>
  BY DEF Tips!Ask, Tips!NoAnswer, Tips!chainVars
<1> DEFINE l == tipLocal[n]
           b == Tips!Ancestor(tipTip[p], Tips!Height(l))
<1>2. /\ p \in TipNodes /\ tipTip[p] \in TipAll /\ tipLoop[n] = "asking"
      /\ l \in TipBlocks /\ l \in TipAll /\ Tips!Height(l) \in Nat \ {0}
      /\ Tips!Height(tipTip[p]) \in Nat
  <2>1. p \in TipNodes /\ tipTip[p] \in TipAll /\ tipLoop[n] = "asking"
    BY DEF TipSafe, TipTypes, TipRounds, TipRound
  <2>2. l \in TipAll /\ l # "G"
    BY <2>1 DEF TipSafe, TipRounds, TipRound
  <2> QED BY <2>1, <2>2, TipHeightType, TipParentIs DEF TipAll
<1>3. Tips!Height(tipTip[p]) >= Tips!Height(l) =>
        b \in TipBlocks /\ Tips!Height(b) = Tips!Height(l)
  <2>1. ASSUME Tips!Height(tipTip[p]) >= Tips!Height(l)
        PROVE  b \in TipBlocks /\ Tips!Height(b) = Tips!Height(l)
    <3>1. Tips!Height(l) \in 0..Tips!Height(tipTip[p]) /\ Tips!Height(l) >= 1
      BY <1>2, <2>1
    <3> QED BY <1>2, <3>1, TipAncestorIs
  <2> QED BY <2>1
<1> HIDE DEF b
<1>4. /\ tipFound' \in [TipNodes -> [TipNodes -> TipAll \cup {NoTip}]]
      /\ tipTodo' \in [TipNodes -> SUBSET TipNodes]
      /\ \A q \in TipNodes : tipFound'[n][q] # tipFound[n][q] =>
           tipFound'[n][q] \in TipBlocks /\ Tips!Height(tipFound'[n][q]) = Tips!Height(l)
      /\ \A m \in TipNodes \ {n} : tipFound'[m] = tipFound[m] /\ tipTodo'[m] = tipTodo[m]
  <2>1. CASE tipFound' = tipFound
    BY <1>1, <1>2, <2>1 DEF TipSafe, TipTypes
  <2>2. CASE /\ Tips!Height(tipTip[p]) >= Tips!Height(l)
             /\ tipFound' = [tipFound EXCEPT ![n][p] = b]
    <3>1. b \in TipBlocks /\ Tips!Height(b) = Tips!Height(l)
      BY <1>3, <2>2
    <3>2. /\ tipFound \in [TipNodes -> [TipNodes -> TipAll \cup {NoTip}]]
          /\ tipFound[n] \in [TipNodes -> TipAll \cup {NoTip}]
      BY DEF TipSafe, TipTypes
    <3>3. [tipFound[n] EXCEPT ![p] = b] \in [TipNodes -> TipAll \cup {NoTip}]
      BY <3>1, <3>2 DEF TipAll
    <3>4. /\ tipFound' = [tipFound EXCEPT ![n] = [tipFound[n] EXCEPT ![p] = b]]
          /\ tipFound' \in [TipNodes -> [TipNodes -> TipAll \cup {NoTip}]]
      BY <2>2, <3>2, <3>3
    <3>5. /\ tipTodo' \in [TipNodes -> SUBSET TipNodes]
          /\ \A m \in TipNodes \ {n} : tipTodo'[m] = tipTodo[m]
      BY <1>1 DEF TipSafe, TipTypes
    <3>6. /\ tipFound'[n] = [tipFound[n] EXCEPT ![p] = b]
          /\ \A m \in TipNodes \ {n} : tipFound'[m] = tipFound[m]
      BY <3>2, <3>4
    <3>7. \A q \in TipNodes : tipFound'[n][q] # tipFound[n][q] => tipFound'[n][q] = b
      BY <1>2, <3>2, <3>6
    <3> QED BY <3>1, <3>4, <3>5, <3>6, <3>7
  <2> QED BY <1>1, <2>1, <2>2 DEF b
<1>5. TipTypes'
  BY <1>1, <1>4 DEF TipSafe, TipTypes
<1>6. TipChains'
  BY <1>1 DEF TipSafe, TipChains
<1>7. TipRound(n)'
  <2>1. TipRound(n)
    BY DEF TipSafe, TipRounds
  <2>2. tipLoop'[n] = "asking" /\ tipLocal'[n] = l /\ tipTip' = tipTip /\ tipCut' = tipCut
    BY <1>1, <1>2
  <2>3. ASSUME NEW q \in TipNodes, tipFound'[n][q] # NoTip
        PROVE  tipFound'[n][q] \in TipBlocks /\ Tips!Height(tipFound'[n][q]) = Tips!Height(l)
    BY <1>4, <2>1, <2>3 DEF TipRound
  <2> QED BY <1>2, <2>1, <2>2, <2>3 DEF TipRound
<1>8. ASSUME NEW m \in TipNodes \ {n} PROVE TipRound(m)'
  BY <1>1, <1>4, TipOthersRound DEF TipSafe, TipRounds
<1> QED BY <1>5, <1>6, <1>7, <1>8 DEF TipSafe, TipRounds

\* What a miner compares: blocks on one parent, its own among them.
LEMMA TipCompared ==
  ASSUME TipSafe, NEW n \in TipNodes, tipLoop[n] = "asking"
  PROVE  /\ tipLocal[n] \in TipBlocks /\ Tips!Strongest(n) \in TipBlocks
         /\ Tips!Strongest(n) \in Tips!Candidates(n)
         /\ Tips!Parent(Tips!Strongest(n)) = Tips!Parent(tipLocal[n])
         /\ \A b \in TipBlocks : b \in Tips!Candidates(n) =>
              /\ TipDifficulty[b] <= TipDifficulty[Tips!Strongest(n)]
              /\ Tips!TotalWork(b) <= Tips!TotalWork(Tips!Strongest(n))
         /\ \A p \in TipNodes :
              /\ tipFound[n][p] # NoTip
              /\ Tips!Parent(tipFound[n][p]) = Tips!Parent(tipLocal[n])
              => tipFound[n][p] \in Tips!Candidates(n)
<1> DEFINE S == Tips!Candidates(n)
           s == Tips!Strongest(n)
<1>1. TipRound(n)
  BY DEF TipSafe, TipRounds
<1>2. tipLocal[n] \in TipBlocks
  BY <1>1 DEF TipRound, TipAll
<1>3. /\ S \in SUBSET TipBlocks /\ S # {} /\ tipLocal[n] \in S
      /\ \A b \in S : Tips!Parent(b) = Tips!Parent(tipLocal[n])
      /\ \A p \in TipNodes :
           /\ tipFound[n][p] # NoTip
           /\ Tips!Parent(tipFound[n][p]) = Tips!Parent(tipLocal[n])
           => tipFound[n][p] \in S
  BY <1>1, <1>2 DEF TipRound, Tips!Candidates
<1> HIDE DEF S
<1>4. s \in S /\ \A b \in S : TipDifficulty[b] <= TipDifficulty[s]
  BY <1>3, TipStrongest DEF S
<1> HIDE DEF s
<1>5. ASSUME NEW b \in S
      PROVE  Tips!TotalWork(b) <= Tips!TotalWork(s)
  <2>1. /\ b \in TipBlocks /\ s \in TipBlocks /\ Tips!Parent(s) = Tips!Parent(b)
        /\ Tips!TotalWork(b) \in Int /\ Tips!TotalWork(s) \in Int
    BY <1>3, <1>4, TipWorkType DEF TipAll
  <2>2. TipDifficulty[s] \in Nat /\ TipDifficulty[b] \in Nat
        /\ TipDifficulty[b] <= TipDifficulty[s]
    BY <1>4, <2>1, TipSiblings
  <2>3. Tips!TotalWork(s) >= Tips!TotalWork(b)
    BY <2>1, <2>2, TipSiblings
  <2> QED BY <2>1, <2>3
<1> QED BY <1>2, <1>3, <1>4, <1>5 DEF S, s

LEMMA TipCompareStep ==
  ASSUME TipSafe, NEW n \in TipNodes, Tips!Compare(n)
  PROVE  TipSafe'
<1> DEFINE l == tipLocal[n]
           s == Tips!Strongest(n)
<1>1. /\ tipLoop[n] = "asking" /\ tipTodo[n] = {}
      /\ \/ s = l /\ TipStays
         \/ s # l /\ Tips!ProcessBlock(n, s)
      /\ Tips!Broadcast(n, s) \/ (tipKnown' = tipKnown /\ tipInbox' = tipInbox)
      /\ tipLoop' = [tipLoop EXCEPT ![n] = "mining"]
      /\ UNCHANGED <<tipPlan, tipLocal, tipTodo, tipFound>>
  BY DEF Tips!Compare, Tips!Keep, Tips!chainVars, Tips!askVars, TipStays
<1>2. /\ l \in TipBlocks /\ s \in TipBlocks /\ Tips!Parent(s) = Tips!Parent(l)
      /\ l \in TipAll /\ s \in TipAll
      /\ \A p \in TipNodes :
           tipFound[n][p] # NoTip /\ Tips!Parent(tipFound[n][p]) = Tips!Parent(l)
           => Tips!TotalWork(tipFound[n][p]) <= Tips!TotalWork(s)
  <2>1. \A p \in TipNodes :
          tipFound[n][p] # NoTip => tipFound[n][p] \in TipBlocks
    BY DEF TipSafe, TipRounds, TipRound
  <2>2. \A p \in TipNodes :
           tipFound[n][p] # NoTip /\ Tips!Parent(tipFound[n][p]) = Tips!Parent(l)
           => Tips!TotalWork(tipFound[n][p]) <= Tips!TotalWork(s)
    BY <1>1, <2>1, TipCompared
  <2> QED BY <1>1, <2>2, TipCompared DEF TipAll
<1>3. TipMoves(n)
  <2>1. CASE s = l /\ TipStays
    BY <2>1 DEF TipMoves
  <2>2. CASE Tips!ProcessBlock(n, s)
    BY <1>2, <2>2, TipProcessMoves DEF TipSafe
  <2> QED BY <1>1, <2>1, <2>2
<1>4. /\ TipChainTypes' /\ TipChains'
      /\ \A m \in TipNodes \ {n} : tipTip'[m] = tipTip[m] /\ tipCut'[m] = tipCut[m]
  BY <1>3, TipMovesRound DEF TipSafe
<1>5. /\ tipKnown' \in [TipNodes -> SUBSET TipBlocks]
      /\ tipInbox' \in [TipNodes -> SUBSET (TipBlocks \X TipNodes)]
  <2>1. CASE Tips!Broadcast(n, s)
    BY <1>2, <2>1, TipBroadcastTypes DEF TipSafe
  <2>2. CASE tipKnown' = tipKnown /\ tipInbox' = tipInbox
    BY <2>2 DEF TipSafe, TipTypes
  <2> QED BY <1>1, <2>1, <2>2
<1>6. TipTypes'
  <2>1. tipLoop' \in [TipNodes -> {"idle", "asking", "mining"}]
    BY <1>1 DEF TipSafe, TipTypes
  <2> QED BY <1>1, <1>4, <1>5, <2>1 DEF TipSafe, TipTypes, TipChainTypes
<1>7. /\ tipTip[n] \in TipAll /\ tipTip'[n] \in TipAll
      /\ Tips!TotalWork(tipTip[n]) \in Int /\ Tips!TotalWork(tipTip'[n]) \in Int
      /\ Tips!TotalWork(l) \in Int /\ Tips!TotalWork(s) \in Int
  <2>1. tipTip[n] \in TipAll /\ tipTip'[n] \in TipAll
    BY <1>6 DEF TipSafe, TipTypes
  <2> QED BY <1>2, <2>1, TipWorkType
<1>8. tipCut'[n] = tipCut[n] /\ Tips!TotalWork(tipTip'[n]) >= Tips!TotalWork(tipTip[n])
  <2>1. CASE TipStays
    BY <1>7, <2>1 DEF TipStays
  <2>2. CASE Tips!ProcessBlock(n, s)
    <3>1. TipChainTypes
      BY DEF TipSafe, TipTypes, TipChainTypes
    <3>2. TipStays \/ TipUp(n, s) \/ TipBeside(n, s)
      BY <1>2, <2>2, <3>1, TipProcessed
    <3>3. CASE TipUp(n, s) \/ TipBeside(n, s)
      <4>1. /\ tipCut' = tipCut /\ tipTip'[n] = s
            /\ Tips!TotalWork(tipTip[n]) < Tips!TotalWork(s)
        BY <1>2, <3>1, <3>3, TipGoesUp, TipGoesBeside DEF TipSafe
      <4> QED BY <1>7, <4>1
    <3> QED BY <2>1, <3>2, <3>3
  <2> QED BY <1>1, <2>1, <2>2
<1>9. ~tipCut'[n] => Tips!TotalWork(tipTip'[n]) >= Tips!TotalWork(l)
  <2>1. ~tipCut[n] => Tips!TotalWork(tipTip[n]) >= Tips!TotalWork(l)
    BY <1>1 DEF TipSafe, TipRounds, TipRound
  <2> QED BY <1>7, <1>8, <2>1
<1>10. ~tipCut'[n] /\ TipPasses(tipTip'[n], Tips!Parent(l)) =>
         Tips!TotalWork(tipTip'[n]) >= Tips!TotalWork(s)
  <2>1. CASE s = l /\ TipStays
    BY <1>9, <2>1
  <2>2. ASSUME Tips!ProcessBlock(n, s), TipPasses(tipTip'[n], Tips!Parent(l))
        PROVE  Tips!TotalWork(tipTip'[n]) >= Tips!TotalWork(s)
    <3>1. TipChainTypes
      BY DEF TipSafe, TipTypes, TipChainTypes
    <3>2. TipPasses(tipTip'[n], Tips!Parent(s))
      BY <1>2, <2>2
    <3> QED BY <1>2, <2>2, <3>1, <3>2, TipWeighed DEF TipSafe
  <2> QED BY <1>1, <2>1, <2>2
<1>11. TipRound(n)'
  <2>1. TipRound(n)
    BY DEF TipSafe, TipRounds
  <2>2. /\ tipLoop'[n] = "mining" /\ tipTodo'[n] = {} /\ tipLocal'[n] = l
        /\ tipFound'[n] = tipFound[n]
    BY <1>1 DEF TipSafe, TipTypes
  <2>3. ASSUME NEW p \in TipNodes, tipFound[n][p] # NoTip, ~tipCut'[n],
               Tips!Parent(tipFound[n][p]) = Tips!Parent(l),
               TipPasses(tipTip'[n], Tips!Parent(tipFound[n][p]))
        PROVE  Tips!TotalWork(tipTip'[n]) >= Tips!TotalWork(tipFound[n][p])
    <3>1. tipFound[n][p] \in TipAll
      BY <2>1, <2>3 DEF TipRound, TipAll
    <3>2. Tips!TotalWork(tipFound[n][p]) \in Int
      BY <3>1, TipWorkType
    <3>3. Tips!TotalWork(tipTip'[n]) >= Tips!TotalWork(s)
      BY <1>10, <2>3
    <3> HIDE DEF l, s
    <3> QED BY <1>2, <1>7, <2>3, <3>2, <3>3
  <2> HIDE DEF l, s
  <2> QED BY <1>1, <1>2, <1>9, <2>1, <2>2, <2>3 DEF TipRound
<1>12. ASSUME NEW m \in TipNodes \ {n} PROVE TipRound(m)'
  <2>1. /\ tipLoop'[m] = tipLoop[m] /\ tipLocal'[m] = tipLocal[m]
        /\ tipTodo'[m] = tipTodo[m] /\ tipFound'[m] = tipFound[m]
    BY <1>1 DEF TipSafe, TipTypes
  <2> QED BY <1>4, <2>1, TipOthersRound DEF TipSafe, TipRounds
<1> QED BY <1>4, <1>6, <1>11, <1>12 DEF TipSafe, TipRounds

\* The end of a round.
LEMMA TipMineTypes ==
  ASSUME TipTypes, NEW n \in TipNodes, NEW b \in TipBlocks,
         Tips!Extend(n, b), ~tipSpoilt[n], Tips!Parent(b) = tipTip[n]
  PROVE  TipMoves(n)
<1>1. TipChainTypes
  BY DEF TipTypes, TipChainTypes
<1> QED BY <1>1, TipMined DEF TipMoves

LEMMA TipEndStep ==
  ASSUME TipSafe, NEW n \in TipNodes, Tips!Mine(n) \/ Tips!FindNothing(n)
  PROVE  TipSafe'
<1>1. /\ TipMoves(n) /\ tipLoop[n] = "mining"
      /\ tipLoop' = [tipLoop EXCEPT ![n] = "idle"]
      /\ tipLocal' = [tipLocal EXCEPT ![n] = NoTip]
      /\ tipFound' = [tipFound EXCEPT ![n] = [p \in TipNodes |-> NoTip]]
      /\ tipPlan' = tipPlan /\ tipTodo' = tipTodo
      /\ tipKnown' \in [TipNodes -> SUBSET TipBlocks]
      /\ tipInbox' \in [TipNodes -> SUBSET (TipBlocks \X TipNodes)]
  <2>1. CASE Tips!Mine(n)
    <3>1. PICK b \in Tips!ToMine(n) :
            /\ tipLoop[n] = "mining" /\ ~tipSpoilt[n]
            /\ Tips!Parent(b) = tipTip[n]
            /\ Tips!Extend(n, b) /\ Tips!Broadcast(n, b) /\ Tips!EndRound(n)
      BY <2>1 DEF Tips!Mine
    <3>2. b \in TipBlocks
      BY <3>1, TipPlanTypes DEF Tips!ToMine, TipSafe
    <3>3. TipMoves(n)
      BY <3>1, <3>2, TipMineTypes DEF TipSafe
    <3>4. /\ tipKnown' \in [TipNodes -> SUBSET TipBlocks]
          /\ tipInbox' \in [TipNodes -> SUBSET (TipBlocks \X TipNodes)]
      BY <3>1, <3>2, TipBroadcastTypes DEF TipSafe
    <3> QED BY <3>1, <3>3, <3>4 DEF Tips!EndRound, Tips!Nothing
  <2>2. CASE Tips!FindNothing(n)
    BY <2>2 DEF Tips!FindNothing, Tips!EndRound, Tips!Nothing, Tips!chainVars,
         TipMoves, TipStays, TipSafe, TipTypes
  <2> QED BY <2>1, <2>2
<1>2. /\ TipChainTypes' /\ TipChains'
      /\ \A m \in TipNodes \ {n} : tipTip'[m] = tipTip[m] /\ tipCut'[m] = tipCut[m]
  BY <1>1, TipMovesRound DEF TipSafe
<1>3. TipTypes'
  <2>1. /\ tipLoop' \in [TipNodes -> {"idle", "asking", "mining"}]
        /\ tipLocal' \in [TipNodes -> TipAll \cup {NoTip}]
        /\ tipTodo' \in [TipNodes -> SUBSET TipNodes]
    BY <1>1 DEF TipSafe, TipTypes
  <2>2. tipFound' \in [TipNodes -> [TipNodes -> TipAll \cup {NoTip}]]
    BY <1>1 DEF TipSafe, TipTypes
  <2> QED BY <1>1, <1>2, <2>1, <2>2 DEF TipSafe, TipTypes, TipChainTypes
<1>4. TipRound(n)'
  <2>1. /\ tipLoop'[n] = "idle" /\ tipLocal'[n] = NoTip
        /\ \A p \in TipNodes : tipFound'[n][p] = NoTip
    BY <1>1 DEF TipSafe, TipTypes
  <2>2. tipTodo'[n] = {}
    BY <1>1 DEF TipSafe, TipRounds, TipRound
  <2> QED BY <2>1, <2>2 DEF TipRound
<1>5. ASSUME NEW m \in TipNodes \ {n} PROVE TipRound(m)'
  <2>1. /\ tipLoop'[m] = tipLoop[m] /\ tipLocal'[m] = tipLocal[m]
        /\ tipTodo'[m] = tipTodo[m] /\ tipFound'[m] = tipFound[m]
    BY <1>1 DEF TipSafe, TipTypes
  <2> QED BY <1>2, <2>1, TipOthersRound DEF TipSafe, TipRounds
<1> QED BY <1>2, <1>3, <1>4, <1>5 DEF TipSafe, TipRounds

\* A miner that compared mines on no less work than it compared with.
LEMMA TipSafeMines ==
  ASSUME TipSafe
  PROVE  Tips!MinesOnMostWork
<1> SUFFICES ASSUME NEW n \in TipNodes, NEW p \in TipNodes,
                    tipLoop[n] = "mining", tipFound[n][p] # NoTip, tipTip[n] # "G",
                    ~tipCut[n],
                    Tips!Parent(tipFound[n][p]) = Tips!Parent(tipLocal[n]),
                    Tips!Parent(tipFound[n][p]) = Tips!Parent(tipTip[n])
             PROVE  Tips!TotalWork(tipTip[n]) >= Tips!TotalWork(tipFound[n][p])
  BY DEF Tips!MinesOnMostWork
<1>1. tipTip[n] \in TipBlocks
  BY DEF TipSafe, TipTypes, TipAll
<1>2. TipPasses(tipTip[n], Tips!Parent(tipTip[n]))
  BY <1>1, TipParentOn DEF TipPasses, TipOn
<1>3. /\ Tips!Parent(tipTip[n]) \in TipAll
      /\ Tips!Height(Tips!Parent(tipTip[n])) < Tips!Height(tipTip[n])
  BY <1>1, TipParentOn, TipParentIs
<1>4. TipPasses(tipTip[n], Tips!Parent(tipFound[n][p]))
  BY <1>2
<1> QED BY <1>4 DEF TipSafe, TipRounds, TipRound

-----------------------------------------------------------------------------
(* TipConsensus: every block that a node meets has been announced. *)

TipSeen == UNION {tipKnown[n] : n \in TipNodes}

\* Blocks come after their parents, and whatever a node has of a block, somebody
\* announced it.
TipHeard ==
  /\ \A b \in TipSeen : Tips!Parent(b) \in TipSeen \cup {"G"}
  /\ \A n \in TipNodes :
       /\ tipTip[n] \in TipSeen \cup {"G"}
       /\ \A a \in tipInbox[n] : a[1] \in TipSeen
       /\ tipLocal[n] \in TipSeen \cup {"G", NoTip}
       /\ \A p \in TipNodes : tipFound[n][p] \in TipSeen \cup {"G", NoTip}

LEMMA TipSeenTypes ==
  ASSUME TipTypes
  PROVE  TipSeen \subseteq TipBlocks /\ TipSeen \cup {"G"} \subseteq TipAll
BY DEF TipTypes, TipSeen, TipAll

LEMMA TipSeenSame ==
  ASSUME tipKnown' = tipKnown
  PROVE  TipSeen' = TipSeen
BY DEF TipSeen

\* What a node comes to know.
LEMMA TipSeenMore ==
  ASSUME TipTypes, NEW n \in TipNodes, NEW b,
         tipKnown' = [tipKnown EXCEPT ![n] = @ \cup {b}]
  PROVE  TipSeen' = TipSeen \cup {b}
<1>1. /\ \A m \in TipNodes \ {n} : tipKnown'[m] = tipKnown[m]
      /\ tipKnown'[n] = tipKnown[n] \cup {b}
  BY DEF TipTypes
<1> QED BY <1>1 DEF TipSeen

\* The ancestors of what has been announced have been announced.
LEMMA TipAncestorSeen ==
  ASSUME TipTypes, TipHeard, NEW x \in TipSeen \cup {"G"}, NEW h \in 0..Tips!Height(x)
  PROVE  Tips!Ancestor(x, h) \in TipSeen \cup {"G"}
<1> DEFINE H == Tips!Height(x)
           A(k) == Tips!Ancestor(x, k)
           n == H - h
           D == {m \in 0..n : A(H - m) \in TipSeen \cup {"G"}}
<1>1. /\ x \in TipAll /\ H \in Nat /\ h \in Nat /\ n \in Nat /\ H - n = h
      /\ A(H) = x
  BY TipSeenTypes, TipHeightType, TipAncestorAtTop
<1>2. ASSUME NEW k \in 1..H, A(k) \in TipSeen \cup {"G"}
      PROVE  A(k - 1) \in TipSeen \cup {"G"}
  <2>1. k \in 0..H /\ k >= 1
    BY <1>1
  <2>2. A(k) \in TipBlocks /\ Tips!Parent(A(k)) = A(k - 1)
    BY <1>1, <2>1, TipAncestorIs, TipParentOfAncestor
  <2>3. A(k) \in TipSeen
    BY <1>2, <2>2, TipAssumption
  <2> QED BY <2>2, <2>3 DEF TipHeard
<1> HIDE DEF A, H, n
<1>3. 0 \in D
  BY <1>1
<1>4. ASSUME NEW m \in 0..n, m < n, m \in D PROVE m + 1 \in D
  <2>1. /\ H - m \in 1..H /\ (H - m) - 1 = H - (m + 1) /\ m + 1 \in 0..n
    BY <1>1, <1>4
  <2>2. A((H - m) - 1) \in TipSeen \cup {"G"}
    BY <1>2, <1>4, <2>1
  <2> QED BY <2>1, <2>2
<1>5. n \in D
  <2>1. \A m \in 0..n : m \in D
    <3> HIDE DEF D
    <3> QED BY <1>1, <1>3, <1>4, UpTo
  <2> QED BY <1>1, <2>1
<1> QED BY <1>1, <1>5 DEF A, H, n

\* Where the chain of a node goes that processes what has been announced, or
\* syncs.
LEMMA TipHeardProcess ==
  ASSUME TipTypes, TipHeard, NEW n \in TipNodes, NEW b \in TipSeen,
         Tips!ProcessBlock(n, b)
  PROVE  \A m \in TipNodes : tipTip'[m] \in TipSeen \cup {"G"}
<1>1. TipChainTypes /\ b \in TipBlocks /\ b \in TipAll
  BY TipSeenTypes DEF TipTypes, TipChainTypes, TipAll
<1>2. TipStays \/ Tips!MoveTo(n, b)
  BY <1>1, TipProcessed DEF TipUp, TipBeside
<1>3. tipTip' \in {tipTip, [tipTip EXCEPT ![n] = b]}
  BY <1>2 DEF TipStays, Tips!MoveTo
<1> QED BY <1>1, <1>3 DEF TipHeard, TipChainTypes

LEMMA TipHeardSync ==
  ASSUME TipTypes, TipHeard, NEW n \in TipNodes, Tips!Sync(n)
  PROVE  \A m \in TipNodes : tipTip'[m] \in TipSeen \cup {"G"}
<1>1. TipChainTypes /\ tipPlan.nodes \subseteq TipNodes
  BY TipPlanTypes DEF TipTypes, TipChainTypes
<1>2. PICK p \in tipPlan.nodes :
           \/ TipStays
           \/ TipUp(n, tipTip[p])
           \/ \E k \in Nat : TipDown(n, k)
  BY <1>1, TipSynced
<1>3. tipTip[n] \in TipSeen \cup {"G"} /\ tipTip[p] \in TipSeen \cup {"G"}
      /\ tipTip[n] \in TipAll
  BY <1>1, <1>2 DEF TipHeard, TipChainTypes
<1>4. CASE TipStays
  BY <1>4 DEF TipStays, TipHeard
<1>5. CASE TipUp(n, tipTip[p])
  <2>1. tipTip' = [tipTip EXCEPT ![n] = tipTip[p]]
    BY <1>5 DEF TipUp, Tips!MoveTo
  <2> QED BY <1>1, <1>3, <2>1 DEF TipHeard, TipChainTypes
<1>6. ASSUME NEW k \in Nat, TipDown(n, k)
      PROVE  \A m \in TipNodes : tipTip'[m] \in TipSeen \cup {"G"}
  <2>1. tipTip' = [tipTip EXCEPT ![n] = Tips!Ancestor(tipTip[n], k)]
    BY <1>6 DEF TipDown
  <2>2. k \in 0..Tips!Height(tipTip[n])
    BY <1>3, <1>6, TipHeightType DEF TipDown
  <2>3. Tips!Ancestor(tipTip[n], k) \in TipSeen \cup {"G"}
    BY <1>3, <2>2, TipAncestorSeen
  <2> QED BY <1>1, <2>1, <2>3 DEF TipHeard, TipChainTypes
<1> QED BY <1>2, <1>4, <1>5, <1>6

\* Announcements of what was announced.
LEMMA TipHeardBroadcast ==
  ASSUME TipTypes, TipHeard, NEW n \in TipNodes, NEW b, Tips!Broadcast(n, b)
  PROVE  /\ TipSeen' = TipSeen \cup {b}
         /\ \A m \in TipNodes : \A a \in tipInbox'[m] : a[1] \in TipSeen'
<1>1. TipSeen' = TipSeen \cup {b}
  BY TipSeenMore DEF Tips!Broadcast
<1>2. ASSUME NEW m \in TipNodes, NEW a \in tipInbox'[m] PROVE a[1] \in TipSeen \cup {b}
  <2>1. a \in tipInbox[m] \/ a = <<b, n>>
    BY <1>2 DEF Tips!Broadcast
  <2> QED BY <2>1 DEF TipHeard
<1> QED BY <1>1, <1>2

LEMMA TipHeardReceive ==
  ASSUME TipSafe, TipHeard, NEW n \in TipNodes, Tips!Receive(n)
  PROVE  TipSeen' = TipSeen /\ TipHeard'
<1>1. PICK a \in tipInbox[n] :
        /\ tipKnown' = [tipKnown EXCEPT ![n] = @ \cup {a[1]}]
        /\ tipInbox' = [m \in TipNodes |->
             IF m = n THEN tipInbox[n] \ {a}
             ELSE IF a[1] \notin tipKnown[n] /\ m \in tipPlan.nodes \ {a[2]}
               THEN tipInbox[m] \cup {<<a[1], n>>}
             ELSE tipInbox[m]]
        /\ Tips!ProcessBlock(n, a[1])
        /\ tipLocal' = tipLocal /\ tipFound' = tipFound
  BY DEF Tips!Receive, Tips!askVars
<1>2. a[1] \in TipSeen
  BY DEF TipHeard
<1>3. TipSeen' = TipSeen
  <2>1. TipTypes /\ tipKnown' = [tipKnown EXCEPT ![n] = @ \cup {a[1]}]
    BY <1>1 DEF TipSafe
  <2>2. TipSeen' = TipSeen \cup {a[1]}
    BY <2>1, TipSeenMore
  <2> QED BY <1>2, <2>2
<1>4. \A m \in TipNodes : tipTip'[m] \in TipSeen \cup {"G"}
  BY <1>1, <1>2, TipHeardProcess DEF TipSafe
<1>5. ASSUME NEW m \in TipNodes, NEW e \in tipInbox'[m] PROVE e[1] \in TipSeen
  <2>1. e \in tipInbox[m] \/ e = <<a[1], n>>
    BY <1>1, <1>5
  <2> QED BY <1>2, <2>1 DEF TipHeard
<1> QED BY <1>1, <1>3, <1>4, <1>5 DEF TipHeard

LEMMA TipHeardKeeps ==
  ASSUME TipSafe, TipHeard, NEW n \in TipNodes,
         \/ Tips!Lose(n) \/ Tips!NoSync(n) \/ Tips!Sync(n) \/ Tips!BeginToAsk(n)
         \/ Tips!Ask(n) \/ Tips!NoAnswer(n) \/ Tips!FindNothing(n)
  PROVE  TipSeen' = TipSeen /\ TipHeard'
<1>1. /\ tipKnown' = tipKnown
      /\ tipInbox' = tipInbox \/ \E a \in tipInbox[n] :
                                   tipInbox' = [tipInbox EXCEPT ![n] = @ \ {a}]
      /\ Tips!Sync(n) \/ tipTip' = tipTip
  BY DEF Tips!Lose, Tips!NoSync, Tips!Sync, Tips!BeginToAsk, Tips!Ask, Tips!NoAnswer,
         Tips!FindNothing, Tips!chainVars, Tips!askVars
<1>2. TipSeen' = TipSeen
  BY <1>1, TipSeenSame
<1>3. \A m \in TipNodes : tipTip'[m] \in TipSeen \cup {"G"}
  BY <1>1, TipHeardSync DEF TipSafe, TipHeard
<1>4. \A m \in TipNodes : \A a \in tipInbox'[m] : a[1] \in TipSeen
  <2>1. \A m \in TipNodes : tipInbox'[m] \subseteq tipInbox[m]
    BY <1>1 DEF TipSafe, TipTypes
  <2> QED BY <2>1 DEF TipHeard
<1>5. \A m \in TipNodes : /\ tipLocal'[m] \in TipSeen \cup {"G", NoTip}
        /\ \A p \in TipNodes : tipFound'[m][p] \in TipSeen \cup {"G", NoTip}
  <2>1. CASE Tips!Lose(n) \/ Tips!NoSync(n) \/ Tips!Sync(n)
    <3>1. tipLocal' = tipLocal /\ tipFound' = tipFound
      BY <2>1 DEF Tips!Lose, Tips!NoSync, Tips!Sync, Tips!askVars
    <3> QED BY <3>1 DEF TipHeard
  <2>2. CASE Tips!BeginToAsk(n)
    <3>1. tipLocal' = [tipLocal EXCEPT ![n] = tipTip[n]] /\ tipFound' = tipFound
      BY <2>2 DEF Tips!BeginToAsk
    <3> QED BY <3>1 DEF TipHeard, TipSafe, TipTypes
  <2>3. CASE Tips!Ask(n) \/ Tips!NoAnswer(n)
    <3>1. PICK p \in tipTodo[n] :
            /\ tipLocal' = tipLocal
            /\ \/ tipFound' = tipFound
               \/ /\ Tips!Height(tipTip[p]) >= Tips!Height(tipLocal[n])
                  /\ tipFound' = [tipFound EXCEPT ![n][p] =
                       Tips!Ancestor(tipTip[p], Tips!Height(tipLocal[n]))]
      BY <2>3 DEF Tips!Ask, Tips!NoAnswer
    <3> DEFINE b == Tips!Ancestor(tipTip[p], Tips!Height(tipLocal[n]))
    <3>2. /\ p \in TipNodes /\ tipLocal[n] \in TipAll
          /\ tipTip[p] \in TipSeen \cup {"G"} /\ tipTip[p] \in TipAll
      BY DEF TipSafe, TipTypes, TipRounds, TipRound, TipHeard
    <3>3. Tips!Height(tipTip[p]) >= Tips!Height(tipLocal[n]) => b \in TipSeen \cup {"G"}
      <4>1. ASSUME Tips!Height(tipTip[p]) >= Tips!Height(tipLocal[n])
            PROVE  Tips!Height(tipLocal[n]) \in 0..Tips!Height(tipTip[p])
        BY <3>2, <4>1, TipHeightType
      <4> QED BY <3>2, <4>1, TipAncestorSeen DEF TipSafe
    <3> HIDE DEF b
    <3>4. \A m, q \in TipNodes : tipFound'[m][q] \in {tipFound[m][q], b}
      BY <3>1 DEF TipSafe, TipTypes, b
    <3>5. \A m, q \in TipNodes : tipFound'[m][q] \in TipSeen \cup {"G", NoTip}
      <4>1. CASE tipFound' = tipFound
        BY <4>1 DEF TipHeard
      <4>2. CASE Tips!Height(tipTip[p]) >= Tips!Height(tipLocal[n])
        BY <3>3, <3>4, <4>2 DEF TipHeard
      <4> QED BY <3>1, <4>1, <4>2
    <3> QED BY <3>1, <3>5 DEF TipHeard
  <2>4. CASE Tips!FindNothing(n)
    <3>1. /\ tipLocal' = [tipLocal EXCEPT ![n] = NoTip]
          /\ tipFound' = [tipFound EXCEPT ![n] = [p \in TipNodes |-> NoTip]]
      BY <2>4 DEF Tips!FindNothing, Tips!EndRound, Tips!Nothing
    <3>2. /\ \A m \in TipNodes : tipLocal'[m] \in {tipLocal[m], NoTip}
          /\ \A m, p \in TipNodes : tipFound'[m][p] \in {tipFound[m][p], NoTip}
      BY <3>1 DEF TipSafe, TipTypes
    <3> QED BY <3>2 DEF TipHeard
  <2> QED BY <2>1, <2>2, <2>3, <2>4
<1> QED BY <1>2, <1>3, <1>4, <1>5 DEF TipHeard

LEMMA TipHeardCompare ==
  ASSUME TipSafe, TipHeard, NEW n \in TipNodes, Tips!Compare(n)
  PROVE  Tips!Strongest(n) \in TipSeen /\ TipSeen' = TipSeen /\ TipHeard'
<1> DEFINE s == Tips!Strongest(n)
<1>1. /\ tipLoop[n] = "asking"
      /\ \/ tipTip' = tipTip
         \/ Tips!ProcessBlock(n, s)
      /\ Tips!Broadcast(n, s) \/ (tipKnown' = tipKnown /\ tipInbox' = tipInbox)
      /\ tipLocal' = tipLocal /\ tipFound' = tipFound
  BY DEF Tips!Compare, Tips!Keep, Tips!chainVars, Tips!askVars
<1>2. s \in TipSeen
  <2>1. s \in TipBlocks /\ s \in Tips!Candidates(n) /\ s # "G" /\ s # NoTip
    BY <1>1, TipCompared, TipAssumption
  <2>2. s \in TipSeen \cup {"G", NoTip}
    BY <2>1 DEF Tips!Candidates, TipHeard
  <2> QED BY <2>1, <2>2
<1>3. TipSeen' = TipSeen /\ \A m \in TipNodes : \A a \in tipInbox'[m] : a[1] \in TipSeen
  <2>1. CASE Tips!Broadcast(n, s)
    BY <1>2, <2>1, TipHeardBroadcast DEF TipSafe
  <2>2. CASE tipKnown' = tipKnown /\ tipInbox' = tipInbox
    BY <2>2, TipSeenSame DEF TipHeard
  <2> QED BY <1>1, <2>1, <2>2
<1>4. \A m \in TipNodes : tipTip'[m] \in TipSeen \cup {"G"}
  <2>1. CASE tipTip' = tipTip
    BY <2>1 DEF TipHeard
  <2>2. CASE Tips!ProcessBlock(n, s)
    BY <1>2, <2>2, TipHeardProcess DEF TipSafe
  <2> QED BY <1>1, <2>1, <2>2
<1> QED BY <1>1, <1>2, <1>3, <1>4 DEF TipHeard

LEMMA TipHeardMine ==
  ASSUME TipSafe, TipHeard, NEW n \in TipNodes, Tips!Mine(n)
  PROVE  /\ TipHeard'
         /\ \E b \in TipBlocks \ TipSeen :
              /\ ~tipSpoilt[n] /\ Tips!Parent(b) = tipTip[n]
              /\ "burst" \notin tipPlan.faults =>
                   \A m \in TipNodes : \A a \in tipInbox[m] :
                     Tips!Height(a[1]) >= Tips!Height(b)
              /\ TipUp(n, b) /\ Tips!Broadcast(n, b) /\ TipSeen' = TipSeen \cup {b}
<1>1. PICK b \in Tips!ToMine(n) :
        /\ ~tipSpoilt[n] /\ Tips!Parent(b) = tipTip[n]
        /\ "burst" \notin tipPlan.faults =>
             \A m \in TipNodes : \A a \in tipInbox[m] :
               Tips!Height(a[1]) >= Tips!Height(b)
        /\ Tips!Extend(n, b) /\ Tips!Broadcast(n, b) /\ Tips!EndRound(n)
  BY DEF Tips!Mine
<1>2. b \in TipBlocks \ TipSeen
  BY TipPlanTypes DEF Tips!ToMine, TipSeen, TipSafe
<1>3. /\ TipSeen' = TipSeen \cup {b}
      /\ \A m \in TipNodes : \A a \in tipInbox'[m] : a[1] \in TipSeen'
  BY <1>1, TipHeardBroadcast DEF TipSafe
<1>4. TipChainTypes
  BY DEF TipSafe, TipTypes, TipChainTypes
<1>5. TipUp(n, b)
  BY <1>1, <1>2, <1>4, TipMined
<1>6. tipTip' = [tipTip EXCEPT ![n] = b]
  BY <1>5 DEF TipUp, Tips!MoveTo
<1>7. \A m \in TipNodes : tipTip'[m] \in TipSeen' \cup {"G"}
  BY <1>3, <1>4, <1>6 DEF TipHeard, TipChainTypes
<1>8. /\ \A m \in TipNodes : tipLocal'[m] \in TipSeen' \cup {"G", NoTip}
      /\ \A m, p \in TipNodes : tipFound'[m][p] \in TipSeen' \cup {"G", NoTip}
  <2>1. /\ tipLocal' = [tipLocal EXCEPT ![n] = NoTip]
        /\ tipFound' = [tipFound EXCEPT ![n] = [p \in TipNodes |-> NoTip]]
    BY <1>1 DEF Tips!EndRound, Tips!Nothing
  <2>2. /\ \A m \in TipNodes : tipLocal'[m] \in {tipLocal[m], NoTip}
        /\ \A m, p \in TipNodes : tipFound'[m][p] \in {tipFound[m][p], NoTip}
    BY <2>1 DEF TipSafe, TipTypes
  <2> QED BY <1>3, <2>2 DEF TipHeard
<1>9. \A c \in TipSeen' : Tips!Parent(c) \in TipSeen' \cup {"G"}
  <2>1. Tips!Parent(b) \in TipSeen \cup {"G"}
    BY <1>1 DEF TipHeard
  <2> QED BY <1>3, <2>1 DEF TipHeard
<1>10. TipHeard'
  BY <1>3, <1>7, <1>8, <1>9 DEF TipHeard
<1> QED BY <1>1, <1>2, <1>3, <1>5, <1>10

-----------------------------------------------------------------------------
(* TipConsensus: the nodes are on one trunk, at most one block apart. *)

\* No two blocks on one parent that were announced count as the same work.
TipCalm ==
  /\ tipPlan.faults = {}
  /\ \A b, c \in TipSeen : b # c /\ Tips!Parent(b) = Tips!Parent(c) =>
       Tips!CalculateBlockWork(b) # Tips!CalculateBlockWork(c)

\* The chain of T has the most work at each of its heights, and every block
\* announced lies on it.
TipTrunk(T) ==
  /\ T \in TipSeen \cup {"G"}
  /\ \A b \in TipSeen :
       /\ Tips!Height(b) <= Tips!Height(T) + 1
       /\ Tips!Parent(b) = Tips!Ancestor(T, Tips!Height(b) - 1)
       /\ Tips!Height(b) <= Tips!Height(T) =>
            Tips!TotalWork(b) <= Tips!TotalWork(Tips!Ancestor(T, Tips!Height(b)))

\* n is on T or on a block on T, and has weighed every block on T, but those of
\* which it has the announcement.
TipOnTrunk(n, T) ==
  /\ ~tipSpoilt[n]
  /\ tipTip[n] # T =>
       tipTip[n] \in TipSeen /\ Tips!Height(tipTip[n]) = Tips!Height(T) + 1
  /\ \A b \in TipSeen : Tips!Height(b) = Tips!Height(T) + 1 =>
       \/ tipTip[n] # T /\ Tips!TotalWork(b) <= Tips!TotalWork(tipTip[n])
       \/ \E a \in tipInbox[n] : a[1] = b

TipTogether ==
  TipCalm => \E T \in TipAll : TipTrunk(T) /\ \A n \in tipPlan.nodes : TipOnTrunk(n, T)

\* A block on the trunk.
LEMMA TipOfTrunk ==
  ASSUME TipTypes, NEW T, TipTrunk(T), NEW b \in TipSeen
  PROVE  /\ T \in TipAll /\ Tips!Height(T) \in Nat /\ Tips!TotalWork(T) \in Int
         /\ b \in TipBlocks /\ b \in TipAll /\ Tips!Height(b) \in Nat \ {0}
         /\ Tips!TotalWork(b) \in Int
         /\ Tips!Height(b) <= Tips!Height(T) + 1
         /\ Tips!Height(b) = Tips!Height(T) + 1 =>
              /\ Tips!Parent(b) = T /\ TipOn(T, b) /\ b # T
              /\ Tips!TotalWork(T) < Tips!TotalWork(b)
         /\ Tips!Height(b) <= Tips!Height(T) => Tips!TotalWork(b) <= Tips!TotalWork(T)
<1>1. /\ T \in TipAll /\ Tips!Height(T) \in Nat /\ Tips!TotalWork(T) \in Int
      /\ b \in TipBlocks /\ b \in TipAll /\ Tips!Height(b) \in Nat \ {0}
      /\ Tips!TotalWork(b) \in Int
  <2>1. T \in TipAll /\ b \in TipBlocks /\ b \in TipAll
    BY TipSeenTypes DEF TipTrunk, TipAll
  <2> QED BY <2>1, TipHeightType, TipParentIs, TipWorkType
<1>2. Tips!Height(b) <= Tips!Height(T) + 1
  BY DEF TipTrunk
<1>3. ASSUME Tips!Height(b) = Tips!Height(T) + 1
      PROVE  /\ Tips!Parent(b) = T /\ TipOn(T, b) /\ b # T
             /\ Tips!TotalWork(T) < Tips!TotalWork(b)
  <2>1. Tips!Height(b) - 1 = Tips!Height(T)
    BY <1>1, <1>3
  <2>2. Tips!Parent(b) = T
    BY <1>1, <2>1, TipAncestorAtTop DEF TipTrunk
  <2>3. /\ Tips!TotalWork(b) = Tips!TotalWork(T) + Tips!CalculateBlockWork(b)
        /\ Tips!CalculateBlockWork(b) \in Nat \ {0}
    BY <1>1, <2>2, TipWorkAdds, TipBlockWork
  <2> QED BY <1>1, <1>3, <2>2, <2>3, TipParentOn
<1>4. ASSUME Tips!Height(b) <= Tips!Height(T)
      PROVE  Tips!TotalWork(b) <= Tips!TotalWork(T)
  <2> DEFINE a == Tips!Ancestor(T, Tips!Height(b))
  <2>1. Tips!Height(b) \in 0..Tips!Height(T)
    BY <1>1, <1>4
  <2>2. a \in TipAll /\ Tips!TotalWork(a) <= Tips!TotalWork(T)
    BY <1>1, <2>1, TipAncestorIs, TipWorkRises
  <2>3. Tips!TotalWork(a) \in Int /\ Tips!TotalWork(b) <= Tips!TotalWork(a)
    BY <1>4, <2>2, TipWorkType DEF TipTrunk
  <2> HIDE DEF a
  <2> QED BY <1>1, <2>2, <2>3
<1> QED BY <1>1, <1>2, <1>3, <1>4

\* Blocks announced on one parent differ in work.
LEMMA TipCalmSiblings ==
  ASSUME TipTypes, TipCalm, NEW b \in TipSeen, NEW c \in TipSeen,
         Tips!Parent(b) = Tips!Parent(c), Tips!TotalWork(b) = Tips!TotalWork(c)
  PROVE  b = c
<1>1. b \in TipBlocks /\ c \in TipBlocks
  BY TipSeenTypes
<1>2. /\ Tips!TotalWork(b) = Tips!TotalWork(Tips!Parent(b)) + Tips!CalculateBlockWork(b)
      /\ Tips!TotalWork(c) = Tips!TotalWork(Tips!Parent(b)) + Tips!CalculateBlockWork(c)
      /\ Tips!TotalWork(Tips!Parent(b)) \in Int
      /\ Tips!CalculateBlockWork(b) \in Nat \ {0}
      /\ Tips!CalculateBlockWork(c) \in Nat \ {0}
  BY <1>1, TipWorkAdds, TipBlockWork
<1>3. Tips!CalculateBlockWork(b) = Tips!CalculateBlockWork(c)
  <2>1. \A k, v, w \in Int : k + v = k + w => v = w
    OBVIOUS
  <2>2. Tips!CalculateBlockWork(b) \in Int /\ Tips!CalculateBlockWork(c) \in Int
    BY <1>2
  <2>3. Tips!TotalWork(Tips!Parent(b)) \in Int
    BY <1>2
  <2>4. Tips!TotalWork(Tips!Parent(b)) + Tips!CalculateBlockWork(b) =
          Tips!TotalWork(Tips!Parent(b)) + Tips!CalculateBlockWork(c)
    BY <1>2, Zenon
  <2> QED BY <2>1, <2>2, <2>3, <2>4, Zenon
<1> QED BY <1>3 DEF TipCalm

\* Nodes that are on the trunk and have heard everything have one tip.
LEMMA TipTogetherAgree ==
  ASSUME TipTypes, TipTogether
  PROVE  Tips!TipsAgree
<1> SUFFICES ASSUME TipCalm, \A n \in TipNodes : tipInbox[n] = {},
                    NEW n \in tipPlan.nodes, NEW m \in tipPlan.nodes
             PROVE  tipTip[n] = tipTip[m]
  BY DEF Tips!TipsAgree, TipCalm, TipSeen
<1>1. PICK T \in TipAll : TipTrunk(T) /\ \A k \in tipPlan.nodes : TipOnTrunk(k, T)
  BY DEF TipTogether
<1>2. \A k \in tipPlan.nodes : tipInbox[k] = {}
  BY TipPlanTypes
<1>3. ASSUME NEW i \in tipPlan.nodes, NEW j \in tipPlan.nodes, tipTip[i] # T
      PROVE  /\ tipTip[i] \in TipSeen /\ tipTip[j] # T
             /\ Tips!Height(tipTip[i]) = Tips!Height(T) + 1
             /\ Tips!TotalWork(tipTip[i]) <= Tips!TotalWork(tipTip[j])
  BY <1>1, <1>2, <1>3 DEF TipOnTrunk
<1>4. CASE tipTip[n] = T /\ tipTip[m] = T
  BY <1>4
<1>5. CASE tipTip[n] # T /\ tipTip[m] # T
  <2>1. /\ tipTip[n] \in TipSeen /\ tipTip[m] \in TipSeen
        /\ Tips!TotalWork(tipTip[n]) <= Tips!TotalWork(tipTip[m])
        /\ Tips!TotalWork(tipTip[m]) <= Tips!TotalWork(tipTip[n])
        /\ Tips!Height(tipTip[n]) = Tips!Height(T) + 1
        /\ Tips!Height(tipTip[m]) = Tips!Height(T) + 1
    BY <1>3, <1>5
  <2>2. /\ Tips!TotalWork(tipTip[n]) = Tips!TotalWork(tipTip[m])
        /\ Tips!Parent(tipTip[n]) = Tips!Parent(tipTip[m])
    BY <1>1, <2>1, TipOfTrunk
  <2> QED BY <2>1, <2>2, TipCalmSiblings
<1> QED BY <1>3, <1>4, <1>5

\* Where a node on the trunk goes: to a block on T, of more work than its own.
TipAdvances(n, T) ==
  /\ ~tipSpoilt'[n]
  /\ \/ tipTip'[n] = tipTip[n]
     \/ /\ tipTip'[n] \in TipSeen /\ Tips!Height(tipTip'[n]) = Tips!Height(T) + 1
        /\ tipTip[n] = T \/ Tips!TotalWork(tipTip[n]) < Tips!TotalWork(tipTip'[n])
  /\ \A m \in TipNodes \ {n} :
       tipTip'[m] = tipTip[m] /\ tipSpoilt'[m] = tipSpoilt[m]

LEMMA TipAdvance ==
  ASSUME TipSafe, NEW T, TipTrunk(T), NEW n \in TipNodes, TipOnTrunk(n, T),
         NEW b \in TipSeen, TipStays \/ TipUp(n, b) \/ TipBeside(n, b)
  PROVE  TipAdvances(n, T)
<1> DEFINE t == tipTip[n]
           H == Tips!Height(T)
<1>1. /\ T \in TipAll /\ H \in Nat /\ Tips!TotalWork(T) \in Int
      /\ b \in TipBlocks /\ b \in TipAll /\ Tips!Height(b) \in Nat \ {0}
      /\ Tips!TotalWork(b) \in Int /\ Tips!Height(b) <= H + 1
      /\ Tips!Height(b) <= H => Tips!TotalWork(b) <= Tips!TotalWork(T)
  BY TipOfTrunk DEF TipSafe
<1>2. /\ t \in TipAll /\ Tips!Height(t) \in Nat /\ Tips!TotalWork(t) \in Int
      /\ TipChainTypes /\ tipSpoilt[n] = FALSE
  <2>1. t \in TipAll /\ TipChainTypes /\ tipSpoilt[n] \in BOOLEAN /\ ~tipSpoilt[n]
    BY DEF TipSafe, TipTypes, TipChainTypes, TipOnTrunk
  <2> QED BY <2>1, TipHeightType, TipWorkType
<1>3. t # T => t \in TipSeen /\ Tips!Height(t) = H + 1 /\ Tips!TotalWork(T) < Tips!TotalWork(t)
  BY TipOfTrunk DEF TipSafe, TipOnTrunk
<1>4. CASE TipStays
  BY <1>4 DEF TipStays, TipOnTrunk, TipAdvances
<1>5. CASE TipUp(n, b)
  <2>1. TipOn(t, b) /\ t # b /\ tipSpoilt' = tipSpoilt
    BY <1>5 DEF TipUp
  <2>2. /\ tipTip'[n] = b /\ \A m \in TipNodes \ {n} : tipTip'[m] = tipTip[m]
    BY <1>1, <1>2, <1>5, TipGoesUp DEF TipSafe
  <2>3. Tips!Height(t) < Tips!Height(b)
    <3>1. /\ Tips!Height(t) <= Tips!Height(b)
          /\ t = Tips!Ancestor(b, Tips!Height(t))
      BY <2>1 DEF TipOn
    <3>2. Tips!Height(t) # Tips!Height(b)
      BY <1>1, <2>1, <3>1, TipAncestorAtTop
    <3> QED BY <1>1, <1>2, <3>1, <3>2
  <2>4. t = T
    BY <1>1, <1>2, <1>3, <2>3
  <2>5. Tips!Height(b) = H + 1
    BY <1>1, <1>2, <2>3, <2>4
  <2> QED BY <1>2, <2>1, <2>2, <2>4, <2>5 DEF TipAdvances
<1>6. CASE TipBeside(n, b)
  <2>1. /\ Tips!Height(b) <= Tips!Height(t)
        /\ tipSpoilt' = [tipSpoilt EXCEPT ![n] = FALSE]
    BY <1>6 DEF TipBeside
  <2>2. /\ tipTip'[n] = b /\ \A m \in TipNodes \ {n} : tipTip'[m] = tipTip[m]
        /\ Tips!TotalWork(t) < Tips!TotalWork(b)
    BY <1>1, <1>2, <1>6, TipGoesBeside DEF TipSafe
  <2>3. /\ tipSpoilt'[n] = FALSE
        /\ \A m \in TipNodes \ {n} : tipSpoilt'[m] = tipSpoilt[m]
    BY <1>2, <2>1 DEF TipChainTypes
  <2>4. Tips!Height(b) = H + 1
    <3>1. Tips!TotalWork(T) <= Tips!TotalWork(t)
      BY <1>1, <1>2, <1>3
    <3> QED BY <1>1, <1>2, <2>2, <3>1
  <2> QED BY <2>2, <2>3, <2>4 DEF TipAdvances
<1> QED BY <1>4, <1>5, <1>6

\* A node that has processed a block on T is on a block on T of no less work.
LEMMA TipAdopts ==
  ASSUME TipSafe, NEW T, TipTrunk(T), NEW n \in TipNodes, TipOnTrunk(n, T),
         NEW b \in TipSeen, Tips!Height(b) = Tips!Height(T) + 1, Tips!ProcessBlock(n, b)
  PROVE  tipTip'[n] # T /\ Tips!TotalWork(b) <= Tips!TotalWork(tipTip'[n])
<1> DEFINE t == tipTip[n]
           u == tipTip'[n]
           H == Tips!Height(T)
<1>1. /\ T \in TipAll /\ H \in Nat
      /\ b \in TipBlocks /\ b \in TipAll /\ Tips!TotalWork(b) \in Int
      /\ Tips!Height(b) = H + 1 /\ Tips!Parent(b) = T /\ b # T
  BY TipOfTrunk DEF TipSafe
<1>2. /\ t \in TipAll /\ TipChainTypes /\ TipChains /\ ~tipSpoilt[n]
  BY DEF TipSafe, TipTypes, TipChainTypes, TipOnTrunk
<1>3. t # T => t \in TipSeen /\ Tips!Height(t) = H + 1
  BY DEF TipOnTrunk
<1>4. CASE t = T
  <2>1. T \in tipStored[n]
    <3>1. H \in 0..H /\ Tips!Ancestor(T, H) = T
      BY <1>1, TipAncestorAtTop
    <3> QED BY <1>2, <1>4, <3>1 DEF TipChains
  <2>2. ~(Tips!Height(b) <= H)
    BY <1>1
  <2>3. b \notin Tips!Canonical(n)
    <3> SUFFICES ASSUME NEW h \in 0..H, b = Tips!Ancestor(T, h) PROVE FALSE
      BY <1>4 DEF Tips!Canonical
    <3>1. Tips!Height(b) = h
      BY <1>1, TipAncestorIs
    <3> QED BY <1>1, <3>1
  <2>4. Tips!DirectExtension(n, b)
    BY <1>1, <1>4, <2>1, <2>2, <2>3
       DEF Tips!ProcessBlock, Tips!AlreadyInChain, Tips!MissingParent,
           Tips!SameHeightFork, Tips!OnSideBranch
  <2>5. tipTip' = [tipTip EXCEPT ![n] = b]
    BY <1>2, <2>4 DEF Tips!DirectExtension, Tips!Extend, Tips!MoveTo
  <2>6. u = b
    BY <1>2, <2>5 DEF TipChainTypes
  <2> QED BY <1>1, <2>6
<1>5. CASE t # T
  <2>1. TipStays \/ TipUp(n, b) \/ TipBeside(n, b)
    BY <1>1, <1>2, TipProcessed
  <2>2. TipAdvances(n, T)
    BY <2>1, TipAdvance
  <2>3. u \in TipSeen /\ Tips!Height(u) = H + 1
    BY <1>3, <1>5, <2>2 DEF TipAdvances
  <2>4. /\ Tips!Parent(u) = T /\ TipOn(T, u) /\ u # T /\ u \in TipAll
        /\ Tips!TotalWork(u) \in Int /\ Tips!Height(u) \in Nat
    BY <2>3, TipOfTrunk DEF TipSafe
  <2>5. TipPasses(u, T)
    BY <1>1, <2>3, <2>4 DEF TipPasses, TipOn
  <2>6. Tips!TotalWork(u) >= Tips!TotalWork(b)
    BY <1>1, <1>2, <2>5, TipWeighed
  <2>7. Tips!TotalWork(b) <= Tips!TotalWork(u)
    BY <1>1, <2>4, <2>6
  <2> QED BY <2>4, <2>7
<1> QED BY <1>4, <1>5

\* The other nodes, and the announcements that stay under way.
LEMMA TipTrunkKept ==
  ASSUME TipSafe, NEW T, TipTrunk(T), \A k \in tipPlan.nodes : TipOnTrunk(k, T),
         NEW n \in tipPlan.nodes, TipAdvances(n, T),
         TipSeen' = TipSeen, tipPlan' = tipPlan,
         \A m \in tipPlan.nodes : \A a \in tipInbox[m] :
           \/ a \in tipInbox'[m]
           \/ /\ m = n
              /\ Tips!Height(a[1]) = Tips!Height(T) + 1 =>
                   /\ tipTip'[n] # T
                   /\ Tips!TotalWork(a[1]) <= Tips!TotalWork(tipTip'[n])
  PROVE  TipTrunk(T)' /\ \A k \in tipPlan'.nodes : TipOnTrunk(k, T)'
<1>1. TipTrunk(T)'
  BY DEF TipTrunk
<1> DEFINE H == Tips!Height(T)
<1>2. ASSUME NEW k \in tipPlan.nodes PROVE TipOnTrunk(k, T)'
  <2>0. k \in TipNodes /\ n \in TipNodes /\ TipOnTrunk(k, T) /\ H \in Nat
    BY TipHeightType, TipSeenTypes, TipPlanTypes DEF TipSafe, TipTrunk
  <2>1. /\ ~tipSpoilt'[k]
        /\ \/ tipTip'[k] = tipTip[k]
           \/ /\ tipTip'[k] \in TipSeen /\ Tips!Height(tipTip'[k]) = H + 1
              /\ tipTip[k] = T \/ Tips!TotalWork(tipTip[k]) < Tips!TotalWork(tipTip'[k])
    BY <2>0 DEF TipAdvances, TipOnTrunk
  <2>2. tipTip'[k] # T => tipTip'[k] \in TipSeen /\ Tips!Height(tipTip'[k]) = H + 1
    BY <2>0, <2>1 DEF TipOnTrunk
  <2>3. ASSUME NEW b \in TipSeen, Tips!Height(b) = H + 1
        PROVE  \/ tipTip'[k] # T /\ Tips!TotalWork(b) <= Tips!TotalWork(tipTip'[k])
               \/ \E a \in tipInbox'[k] : a[1] = b
    <3>1. CASE \E a \in tipInbox[k] : a[1] = b
      <4>1. PICK a \in tipInbox[k] : a[1] = b
        BY <3>1
      <4>2. CASE a \in tipInbox'[k]
        BY <4>1, <4>2
      <4>3. CASE k = n /\ tipTip'[n] # T /\ Tips!TotalWork(a[1]) <= Tips!TotalWork(tipTip'[n])
        BY <4>1, <4>3
      <4> QED BY <2>3, <4>1, <4>2, <4>3
    <3>2. CASE tipTip[k] # T /\ Tips!TotalWork(b) <= Tips!TotalWork(tipTip[k])
      <4>1. CASE tipTip'[k] = tipTip[k]
        BY <3>2, <4>1
      <4>2. CASE /\ tipTip'[k] \in TipSeen /\ Tips!Height(tipTip'[k]) = H + 1
                 /\ Tips!TotalWork(tipTip[k]) < Tips!TotalWork(tipTip'[k])
        <5>1. tipTip[k] \in TipSeen
          BY <2>0, <3>2 DEF TipOnTrunk
        <5>2. tipTip'[k] # T
          BY <2>0, <4>2
        <5>3. /\ Tips!TotalWork(b) \in Int /\ Tips!TotalWork(tipTip[k]) \in Int
              /\ Tips!TotalWork(tipTip'[k]) \in Int
          BY <4>2, <5>1, TipOfTrunk DEF TipSafe
        <5>4. Tips!TotalWork(b) <= Tips!TotalWork(tipTip'[k])
          BY <3>2, <4>2, <5>3
        <5> QED BY <5>2, <5>4
      <4> QED BY <2>1, <3>2, <4>1, <4>2
    <3> QED BY <2>0, <2>3, <3>1, <3>2 DEF TipOnTrunk
  <2> QED BY <2>1, <2>2, <2>3 DEF TipOnTrunk
<1> QED BY <1>1, <1>2

LEMMA TipCalmBefore ==
  ASSUME TipCalm', tipPlan' = tipPlan, TipSeen \subseteq TipSeen'
  PROVE  TipCalm
BY DEF TipCalm

\* Nothing but what is asked changes.
LEMMA TipTogetherRest ==
  ASSUME TipSafe, TipHeard, TipTogether, NEW n \in tipPlan.nodes,
         \/ Tips!Lose(n) \/ Tips!NoSync(n) \/ Tips!BeginToAsk(n)
         \/ Tips!Ask(n) \/ Tips!NoAnswer(n) \/ Tips!FindNothing(n)
  PROVE  TipTogether'
<1> SUFFICES ASSUME TipCalm'
             PROVE  \E T \in TipAll :
                      TipTrunk(T)' /\ \A k \in tipPlan'.nodes : TipOnTrunk(k, T)'
  BY DEF TipTogether
<1>1. /\ tipPlan' = tipPlan /\ tipKnown' = tipKnown
      /\ tipTip' = tipTip /\ tipSpoilt' = tipSpoilt
      /\ tipPlan.faults = {} => tipInbox' = tipInbox
  BY DEF Tips!Lose, Tips!NoSync, Tips!BeginToAsk, Tips!Ask, Tips!NoAnswer,
         Tips!FindNothing, Tips!EndRound, Tips!chainVars, Tips!askVars
<1>2. TipSeen' = TipSeen
  BY <1>1, TipSeenSame
<1>3. TipCalm
  BY <1>1, <1>2, TipCalmBefore
<1>4. tipInbox' = tipInbox
  BY <1>1, <1>3 DEF TipCalm
<1>5. PICK T \in TipAll : TipTrunk(T) /\ \A k \in tipPlan.nodes : TipOnTrunk(k, T)
  BY <1>3 DEF TipTogether
<1> QED BY <1>1, <1>2, <1>4, <1>5 DEF TipTrunk, TipOnTrunk

\* The first to hear of a block passes it on, and goes to it or stays where it
\* has as much work.
LEMMA TipTogetherReceive ==
  ASSUME TipSafe, TipHeard, TipTogether, NEW n \in tipPlan.nodes, Tips!Receive(n)
  PROVE  TipTogether'
<1> SUFFICES ASSUME TipCalm'
             PROVE  \E T \in TipAll :
                      TipTrunk(T)' /\ \A k \in tipPlan'.nodes : TipOnTrunk(k, T)'
  BY DEF TipTogether
<1>1. n \in TipNodes /\ tipPlan.nodes \subseteq TipNodes /\ TipChainTypes
  BY TipPlanTypes DEF TipSafe, TipTypes, TipChainTypes
<1>2. PICK a \in tipInbox[n] :
        /\ tipInbox' = [m \in TipNodes |->
             IF m = n THEN tipInbox[n] \ {a}
             ELSE IF a[1] \notin tipKnown[n] /\ m \in tipPlan.nodes \ {a[2]}
               THEN tipInbox[m] \cup {<<a[1], n>>}
             ELSE tipInbox[m]]
        /\ Tips!ProcessBlock(n, a[1])
        /\ tipPlan' = tipPlan
  BY DEF Tips!Receive
<1> DEFINE b == a[1]
<1>3. TipSeen' = TipSeen /\ b \in TipSeen /\ b \in TipBlocks
  BY <1>1, TipHeardReceive, TipSeenTypes DEF TipHeard, TipSafe
<1>4. TipCalm
  BY <1>2, <1>3, TipCalmBefore
<1>5. PICK T \in TipAll : TipTrunk(T) /\ \A k \in tipPlan.nodes : TipOnTrunk(k, T)
  BY <1>4 DEF TipTogether
<1>6. TipAdvances(n, T)
  <2>1. TipStays \/ TipUp(n, b) \/ TipBeside(n, b)
    BY <1>1, <1>2, <1>3, TipProcessed
  <2> QED BY <1>1, <1>3, <1>5, <2>1, TipAdvance
<1>7. Tips!Height(b) = Tips!Height(T) + 1 =>
        tipTip'[n] # T /\ Tips!TotalWork(b) <= Tips!TotalWork(tipTip'[n])
  BY <1>1, <1>2, <1>3, <1>5, TipAdopts
<1>8. ASSUME NEW m \in tipPlan.nodes, NEW e \in tipInbox[m]
      PROVE  e \in tipInbox'[m] \/ (m = n /\ e = a)
  BY <1>1, <1>2
<1>9. \A m \in tipPlan.nodes : \A e \in tipInbox[m] :
        \/ e \in tipInbox'[m]
        \/ /\ m = n
           /\ Tips!Height(e[1]) = Tips!Height(T) + 1 =>
                /\ tipTip'[n] # T
                /\ Tips!TotalWork(e[1]) <= Tips!TotalWork(tipTip'[n])
  BY <1>7, <1>8
<1>10. TipTrunk(T)' /\ \A k \in tipPlan'.nodes : TipOnTrunk(k, T)'
  BY <1>2, <1>3, <1>5, <1>6, <1>9, TipTrunkKept
<1> QED BY <1>10

LEMMA TipTogetherCompare ==
  ASSUME TipSafe, TipHeard, TipTogether, NEW n \in tipPlan.nodes, Tips!Compare(n)
  PROVE  TipTogether'
<1> SUFFICES ASSUME TipCalm'
             PROVE  \E T \in TipAll :
                      TipTrunk(T)' /\ \A k \in tipPlan'.nodes : TipOnTrunk(k, T)'
  BY DEF TipTogether
<1> DEFINE s == Tips!Strongest(n)
<1>1. n \in TipNodes /\ tipPlan.nodes \subseteq TipNodes /\ TipChainTypes
  BY TipPlanTypes DEF TipSafe, TipTypes, TipChainTypes
<1>2. /\ TipStays \/ Tips!ProcessBlock(n, s)
      /\ Tips!Broadcast(n, s) \/ tipInbox' = tipInbox
      /\ tipPlan' = tipPlan
  BY DEF Tips!Compare, Tips!Keep, Tips!chainVars, TipStays
<1>3. TipSeen' = TipSeen /\ s \in TipSeen /\ s \in TipBlocks
  BY <1>1, TipHeardCompare, TipSeenTypes DEF TipSafe
<1>4. TipCalm
  BY <1>2, <1>3, TipCalmBefore
<1>5. PICK T \in TipAll : TipTrunk(T) /\ \A k \in tipPlan.nodes : TipOnTrunk(k, T)
  BY <1>4 DEF TipTogether
<1>6. TipAdvances(n, T)
  <2>1. TipStays \/ TipUp(n, s) \/ TipBeside(n, s)
    BY <1>1, <1>2, <1>3, TipProcessed
  <2> QED BY <1>1, <1>3, <1>5, <2>1, TipAdvance
<1>7. ASSUME NEW m \in tipPlan.nodes, NEW e \in tipInbox[m]
      PROVE  e \in tipInbox'[m]
  <2>1. CASE Tips!Broadcast(n, s)
    BY <1>1, <1>7, <2>1 DEF Tips!Broadcast
  <2> QED BY <1>2, <1>7, <2>1
<1>8. TipTrunk(T)' /\ \A k \in tipPlan'.nodes : TipOnTrunk(k, T)'
  BY <1>2, <1>3, <1>5, <1>6, <1>7, TipTrunkKept
<1> QED BY <1>8

\* A higher peer is one block above T, and on T.
LEMMA TipTogetherSync ==
  ASSUME TipSafe, TipHeard, TipTogether, NEW n \in tipPlan.nodes, Tips!Sync(n)
  PROVE  TipTogether'
<1> SUFFICES ASSUME TipCalm'
             PROVE  \E T \in TipAll :
                      TipTrunk(T)' /\ \A k \in tipPlan'.nodes : TipOnTrunk(k, T)'
  BY DEF TipTogether
<1>1. n \in TipNodes /\ tipPlan.nodes \subseteq TipNodes /\ TipChainTypes
  BY TipPlanTypes DEF TipSafe, TipTypes, TipChainTypes
<1>2. tipKnown' = tipKnown /\ tipInbox' = tipInbox /\ tipPlan' = tipPlan
  BY DEF Tips!Sync
<1>3. TipSeen' = TipSeen
  BY <1>2, TipSeenSame
<1>4. TipCalm
  BY <1>2, <1>3, TipCalmBefore
<1>5. PICK T \in TipAll : TipTrunk(T) /\ \A k \in tipPlan.nodes : TipOnTrunk(k, T)
  BY <1>4 DEF TipTogether
<1>6. PICK p \in tipPlan.nodes :
        /\ Tips!Height(tipTip[p]) > Tips!Height(tipTip[n])
        /\ \/ TipOn(tipTip[n], tipTip[p]) /\ tipSpoilt[n] /\ TipStays
           \/ TipUp(n, tipTip[p])
           \/ /\ ~TipOn(tipTip[n], tipTip[p])
              /\ \E k \in Nat : TipDown(n, k)
  BY <1>1, TipSynced
<1>7. tipTip[p] \in TipSeen /\ TipOn(tipTip[n], tipTip[p]) /\ ~tipSpoilt[n]
  <2>1. TipOnTrunk(n, T) /\ TipOnTrunk(p, T)
    BY <1>5
  <2>2. /\ Tips!Height(T) \in Nat
        /\ tipTip[n] # T => Tips!Height(tipTip[n]) = Tips!Height(T) + 1
        /\ tipTip[p] # T => tipTip[p] \in TipSeen
                            /\ Tips!Height(tipTip[p]) = Tips!Height(T) + 1
        /\ ~tipSpoilt[n]
    BY <2>1, TipHeightType DEF TipOnTrunk
  <2>3. tipTip[n] = T /\ tipTip[p] # T
    BY <1>6, <2>2
  <2> QED BY <1>5, <2>2, <2>3, TipOfTrunk DEF TipSafe
<1>8. TipUp(n, tipTip[p])
  BY <1>6, <1>7
<1>9. TipAdvances(n, T)
  BY <1>1, <1>5, <1>7, <1>8, TipAdvance
<1>10. TipTrunk(T)' /\ \A k \in tipPlan'.nodes : TipOnTrunk(k, T)'
  BY <1>2, <1>3, <1>5, <1>9, TipTrunkKept
<1> QED BY <1>10

\* A block mined on T: everybody else is told of it.
LEMMA TipMinedOnTrunk ==
  ASSUME TipSafe, NEW T, TipTrunk(T), \A k \in tipPlan.nodes : TipOnTrunk(k, T),
         NEW n \in tipPlan.nodes, NEW b \in TipBlocks, tipTip[n] = T,
         Tips!Parent(b) = T, TipUp(n, b), Tips!Broadcast(n, b),
         TipSeen' = TipSeen \cup {b}, tipPlan' = tipPlan
  PROVE  TipTrunk(T)' /\ \A k \in tipPlan'.nodes : TipOnTrunk(k, T)'
<1> DEFINE H == Tips!Height(T)
<1>1. /\ n \in TipNodes /\ tipPlan.nodes \subseteq TipNodes
      /\ TipChainTypes /\ TipChains /\ TipTypes /\ T \in TipAll
  BY TipPlanTypes, TipSeenTypes DEF TipSafe, TipTypes, TipChainTypes, TipTrunk
<1>2. /\ H \in Nat /\ Tips!Height(b) = H + 1 /\ b \in TipAll /\ b # T
      /\ Tips!TotalWork(b) \in Int /\ Tips!Height(b) - 1 = H
      /\ Tips!Ancestor(T, H) = T
  <2>1. H \in Nat /\ Tips!Height(b) \in Nat \ {0} /\ H = Tips!Height(b) - 1 /\ b \in TipAll
    BY <1>1, TipHeightType, TipParentIs DEF TipAll
  <2> QED BY <1>1, <2>1, TipWorkType, TipAncestorAtTop
<1>3. TipTrunk(T)'
  <2>1. ~(Tips!Height(b) <= H) /\ Tips!Height(b) <= H + 1
    BY <1>2
  <2>2. Tips!Parent(b) = Tips!Ancestor(T, Tips!Height(b) - 1)
    BY <1>2
  <2> QED BY <2>1, <2>2 DEF TipTrunk
<1>4. /\ tipTip'[n] = b /\ tipSpoilt' = tipSpoilt
      /\ \A m \in TipNodes \ {n} : tipTip'[m] = tipTip[m]
  <2>1. tipTip'[n] = b /\ \A m \in TipNodes \ {n} : tipTip'[m] = tipTip[m]
    BY <1>1, TipGoesUp
  <2> QED BY <2>1 DEF TipUp
<1>5. \A m \in tipPlan.nodes : tipInbox[m] \subseteq tipInbox'[m]
  BY <1>1 DEF Tips!Broadcast
<1>6. \A m \in tipPlan.nodes \ {n} : <<b, n>> \in tipInbox'[m]
  BY <1>1 DEF Tips!Broadcast
<1>7. Tips!TotalWork(b) <= Tips!TotalWork(b)
  BY <1>2
<1>8. TipOnTrunk(n, T)'
  <2>1. \A c \in TipSeen : Tips!Height(c) = H + 1 => \E a \in tipInbox'[n] : a[1] = c
    BY <1>5 DEF TipOnTrunk
  <2> QED BY <1>2, <1>4, <1>7, <2>1 DEF TipOnTrunk
<1>9. ASSUME NEW k \in tipPlan.nodes \ {n} PROVE TipOnTrunk(k, T)'
  <2>1. tipTip'[k] = tipTip[k] /\ TipOnTrunk(k, T)
    BY <1>1, <1>4
  <2>2. \A c \in TipSeen : Tips!Height(c) = H + 1 =>
          \/ tipTip[k] # T /\ Tips!TotalWork(c) <= Tips!TotalWork(tipTip[k])
          \/ \E a \in tipInbox'[k] : a[1] = c
    BY <1>5, <2>1 DEF TipOnTrunk
  <2>3. \E a \in tipInbox'[k] : a[1] = b
    BY <1>6, <1>9
  <2> QED BY <1>4, <2>1, <2>2, <2>3 DEF TipOnTrunk
<1> QED BY <1>3, <1>8, <1>9

\* A block mined above a block on T, when no announcement is under way: that
\* block is the tip of all, and the trunk goes on from it.
LEMMA TipMinedAbove ==
  ASSUME TipSafe, TipHeard, TipCalm, NEW T, TipTrunk(T),
         \A k \in tipPlan.nodes : TipOnTrunk(k, T),
         NEW n \in tipPlan.nodes, NEW b \in TipBlocks, tipTip[n] # T,
         Tips!Parent(b) = tipTip[n], TipUp(n, b), Tips!Broadcast(n, b),
         \A m \in TipNodes : \A a \in tipInbox[m] : Tips!Height(a[1]) >= Tips!Height(b),
         TipSeen' = TipSeen \cup {b}, tipPlan' = tipPlan
  PROVE  \E t \in TipAll : TipTrunk(t)' /\ \A k \in tipPlan'.nodes : TipOnTrunk(k, t)'
<1> DEFINE H == Tips!Height(T)
<1>1. PICK t : t = tipTip[n]
  OBVIOUS
<1>2. /\ n \in TipNodes /\ tipPlan.nodes \subseteq TipNodes
      /\ TipChainTypes /\ TipChains /\ TipTypes /\ t \in TipSeen /\ t # T
      /\ Tips!Height(t) = H + 1
  BY <1>1, TipPlanTypes DEF TipSafe, TipTypes, TipChainTypes, TipOnTrunk
<1>3. /\ T \in TipAll /\ H \in Nat /\ t \in TipAll /\ TipOn(T, t) /\ Tips!Parent(t) = T
      /\ Tips!TotalWork(t) \in Int
  BY <1>2, TipOfTrunk
<1>4. /\ Tips!Parent(b) = t /\ Tips!Height(b) = Tips!Height(t) + 1
      /\ b \in TipAll /\ b # t /\ Tips!TotalWork(b) \in Int
      /\ Tips!Height(b) - 1 = Tips!Height(t) /\ Tips!Ancestor(t, Tips!Height(t)) = t
      /\ Tips!Height(t) \in Nat
  <2>1. /\ Tips!Parent(b) = t /\ b \in TipAll
        /\ Tips!Height(b) \in Nat \ {0} /\ Tips!Height(t) = Tips!Height(b) - 1
    BY <1>1, TipParentIs DEF TipAll
  <2> QED BY <1>2, <1>3, <2>1, TipWorkType, TipAncestorAtTop
<1>5. \A k \in tipPlan.nodes : \A a \in tipInbox[k] : Tips!Height(a[1]) # H + 1
  <2>1. ASSUME NEW k \in tipPlan.nodes, NEW a \in tipInbox[k]
        PROVE  Tips!Height(a[1]) # H + 1
    <3>1. a[1] \in TipSeen /\ Tips!Height(a[1]) >= Tips!Height(b)
      BY <1>2 DEF TipHeard
    <3>2. Tips!Height(a[1]) \in Nat
      BY <1>2, <3>1, TipOfTrunk
    <3> QED BY <1>2, <1>3, <1>4, <3>1, <3>2
  <2> QED BY <2>1
<1>6. \A k \in tipPlan.nodes : \A c \in TipSeen : Tips!Height(c) = H + 1 =>
        tipTip[k] # T /\ Tips!TotalWork(c) <= Tips!TotalWork(tipTip[k])
  BY <1>5 DEF TipOnTrunk
<1>7. ASSUME NEW k \in tipPlan.nodes PROVE tipTip[k] = t
  <2>1. tipTip[k] # T /\ Tips!TotalWork(t) <= Tips!TotalWork(tipTip[k])
    BY <1>2, <1>6
  <2>2. tipTip[k] \in TipSeen /\ Tips!Height(tipTip[k]) = H + 1
    BY <2>1 DEF TipOnTrunk
  <2>3. Tips!TotalWork(tipTip[k]) <= Tips!TotalWork(t)
    BY <1>1, <1>6, <2>2
  <2>4. Tips!TotalWork(tipTip[k]) \in Int /\ Tips!Parent(tipTip[k]) = T
    BY <1>2, <2>2, TipOfTrunk
  <2>5. Tips!TotalWork(tipTip[k]) = Tips!TotalWork(t)
    BY <1>3, <2>1, <2>3, <2>4
  <2> QED BY <1>2, <1>3, <2>2, <2>4, <2>5, TipCalmSiblings
<1>8. ASSUME NEW c \in TipSeen
      PROVE  /\ Tips!Height(c) <= Tips!Height(t)
             /\ Tips!Parent(c) = Tips!Ancestor(t, Tips!Height(c) - 1)
             /\ Tips!TotalWork(c) <= Tips!TotalWork(Tips!Ancestor(t, Tips!Height(c)))
  <2>1. /\ Tips!Height(c) \in Nat \ {0} /\ Tips!Height(c) <= H + 1
        /\ Tips!Parent(c) = Tips!Ancestor(T, Tips!Height(c) - 1)
    BY <1>2, TipOfTrunk DEF TipTrunk
  <2>2. \A h \in 0..H : Tips!Ancestor(T, h) = Tips!Ancestor(t, h)
    BY <1>3, TipOnChain
  <2>3. Tips!Height(c) - 1 \in 0..H
    BY <1>3, <2>1
  <2>4. Tips!TotalWork(c) <= Tips!TotalWork(Tips!Ancestor(t, Tips!Height(c)))
    <3>1. CASE Tips!Height(c) = H + 1
      <4>1. Tips!TotalWork(c) <= Tips!TotalWork(t)
        BY <1>1, <1>6, <3>1
      <4> QED BY <1>2, <1>4, <3>1, <4>1
    <3>2. CASE Tips!Height(c) # H + 1
      <4>1. Tips!Height(c) \in 0..H /\ Tips!Height(c) <= H
        BY <1>3, <2>1, <3>2
      <4> QED BY <2>2, <4>1 DEF TipTrunk
    <3> QED BY <3>1, <3>2
  <2> QED BY <1>2, <2>1, <2>2, <2>3, <2>4
<1>9. TipTrunk(t)'
  <2>1. /\ Tips!Height(b) <= Tips!Height(t) + 1 /\ ~(Tips!Height(b) <= Tips!Height(t))
        /\ Tips!Parent(b) = Tips!Ancestor(t, Tips!Height(b) - 1)
    BY <1>4
  <2>2. \A c \in TipSeen : Tips!Height(c) <= Tips!Height(t) + 1
                           /\ Tips!Height(c) # Tips!Height(t) + 1
    <3>1. ASSUME NEW c \in TipSeen
          PROVE  Tips!Height(c) <= Tips!Height(t) + 1 /\ Tips!Height(c) # Tips!Height(t) + 1
      <4>1. Tips!Height(c) \in Nat /\ Tips!Height(c) <= Tips!Height(t)
        BY <1>2, <1>8, TipOfTrunk
      <4> QED BY <1>4, <4>1
    <3> QED BY <3>1
  <2> QED BY <1>2, <1>8, <2>1, <2>2 DEF TipTrunk
<1>10. \A c \in TipSeen : Tips!Height(c) # Tips!Height(t) + 1
  <2>1. ASSUME NEW c \in TipSeen PROVE Tips!Height(c) # Tips!Height(t) + 1
    <3>1. Tips!Height(c) \in Nat /\ Tips!Height(c) <= Tips!Height(t)
      BY <1>2, <1>8, TipOfTrunk
    <3> QED BY <1>4, <3>1
  <2> QED BY <2>1
<1>11. /\ tipTip'[n] = b /\ tipSpoilt' = tipSpoilt
       /\ \A m \in TipNodes \ {n} : tipTip'[m] = tipTip[m]
  <2>1. tipTip'[n] = b /\ \A m \in TipNodes \ {n} : tipTip'[m] = tipTip[m]
    BY <1>2, TipGoesUp
  <2> QED BY <2>1 DEF TipUp
<1>12. \A m \in tipPlan.nodes \ {n} : <<b, n>> \in tipInbox'[m]
  BY <1>2 DEF Tips!Broadcast
<1>13. ASSUME NEW k \in tipPlan.nodes PROVE TipOnTrunk(k, t)'
  <2>1. ~tipSpoilt'[k]
    BY <1>11 DEF TipOnTrunk
  <2>2. CASE k = n
    <3>1. Tips!TotalWork(b) <= Tips!TotalWork(b)
      BY <1>4
    <3> QED BY <1>4, <1>10, <1>11, <2>1, <2>2, <3>1 DEF TipOnTrunk
  <2>3. CASE k # n
    <3>1. tipTip'[k] = t
      BY <1>2, <1>7, <1>11, <2>3
    <3>2. \E a \in tipInbox'[k] : a[1] = b
      BY <1>12, <2>3
    <3> QED BY <1>10, <2>1, <3>1, <3>2 DEF TipOnTrunk
  <2> QED BY <2>2, <2>3
<1>14. /\ t \in TipAll /\ TipTrunk(t)' /\ \A k \in tipPlan'.nodes : TipOnTrunk(k, t)'
  BY <1>3, <1>9, <1>13
<1> QED BY <1>14

LEMMA TipTogetherMine ==
  ASSUME TipSafe, TipHeard, TipTogether, NEW n \in tipPlan.nodes, Tips!Mine(n)
  PROVE  TipTogether'
<1> SUFFICES ASSUME TipCalm'
             PROVE  \E T \in TipAll :
                      TipTrunk(T)' /\ \A k \in tipPlan'.nodes : TipOnTrunk(k, T)'
  BY DEF TipTogether
<1>1. n \in TipNodes /\ tipPlan' = tipPlan
  BY TipPlanTypes DEF TipSafe, Tips!Mine, Tips!EndRound
<1>2. PICK b \in TipBlocks \ TipSeen :
        /\ ~tipSpoilt[n] /\ Tips!Parent(b) = tipTip[n]
        /\ "burst" \notin tipPlan.faults =>
             \A m \in TipNodes : \A a \in tipInbox[m] : Tips!Height(a[1]) >= Tips!Height(b)
        /\ TipUp(n, b) /\ Tips!Broadcast(n, b) /\ TipSeen' = TipSeen \cup {b}
  BY <1>1, TipHeardMine
<1>3. TipCalm
  BY <1>1, <1>2, TipCalmBefore
<1>4. PICK T \in TipAll : TipTrunk(T) /\ \A k \in tipPlan.nodes : TipOnTrunk(k, T)
  BY <1>3 DEF TipTogether
<1>5. CASE tipTip[n] = T
  <2>1. TipTrunk(T)' /\ \A k \in tipPlan'.nodes : TipOnTrunk(k, T)'
    BY <1>1, <1>2, <1>4, <1>5, TipMinedOnTrunk
  <2> QED BY <2>1
<1>6. CASE tipTip[n] # T
  <2>1. \A m \in TipNodes : \A a \in tipInbox[m] : Tips!Height(a[1]) >= Tips!Height(b)
    BY <1>2, <1>3 DEF TipCalm
  <2> QED BY <1>1, <1>2, <1>3, <1>4, <1>6, <2>1, TipMinedAbove
<1> QED BY <1>5, <1>6

-----------------------------------------------------------------------------
(* TipConsensus: the theorem. *)

TipInvariant == TipSafe /\ TipHeard /\ TipTogether

LEMMA TipInitial ==
  ASSUME Tips!Init
  PROVE  TipInvariant
<1>1. /\ tipPlan \in TipPlans
      /\ tipTip = [n \in TipNodes |-> "G"]
      /\ tipStored = [n \in TipNodes |-> {"G"}]
      /\ tipSpoilt = [n \in TipNodes |-> FALSE]
      /\ tipCut = [n \in TipNodes |-> FALSE]
      /\ tipKnown = [n \in TipNodes |-> {}]
      /\ tipInbox = [n \in TipNodes |-> {}]
      /\ tipLoop = [n \in TipNodes |-> "idle"]
      /\ tipLocal = [n \in TipNodes |-> NoTip]
      /\ tipTodo = [n \in TipNodes |-> {}]
      /\ tipFound = [n \in TipNodes |-> [p \in TipNodes |-> NoTip]]
  BY DEF Tips!Init, Tips!Nothing
<1>2. "G" \in TipAll /\ Tips!Height("G") = 0 /\ Tips!Ancestor("G", 0) = "G"
  BY TipHeightType DEF TipAll, Tips!Ancestor
<1>3. TipTypes
  <2>1. /\ tipTip \in [TipNodes -> TipAll] /\ tipStored \in [TipNodes -> SUBSET TipAll]
        /\ tipKnown \in [TipNodes -> SUBSET TipBlocks]
        /\ tipInbox \in [TipNodes -> SUBSET (TipBlocks \X TipNodes)]
        /\ tipTodo \in [TipNodes -> SUBSET TipNodes]
    BY <1>1, <1>2
  <2>2. /\ tipSpoilt \in [TipNodes -> BOOLEAN] /\ tipCut \in [TipNodes -> BOOLEAN]
        /\ tipLoop \in [TipNodes -> {"idle", "asking", "mining"}]
        /\ tipLocal \in [TipNodes -> TipAll \cup {NoTip}]
        /\ tipFound \in [TipNodes -> [TipNodes -> TipAll \cup {NoTip}]]
    BY <1>1
  <2> QED BY <1>1, <2>1, <2>2 DEF TipTypes
<1>4. TipChains
  <2>1. ASSUME NEW n \in TipNodes
        PROVE  /\ \A h \in 0..Tips!Height(tipTip[n]) :
                    Tips!Ancestor(tipTip[n], h) \in tipStored[n]
               /\ \A x \in tipStored[n] : TipSettled(x, tipTip[n], tipSpoilt[n])
    <3>1. tipTip[n] = "G" /\ tipStored[n] = {"G"}
      BY <1>1
    <3>2. \A h \in 0..0 : h = 0
      OBVIOUS
    <3>3. TipSettled("G", "G", tipSpoilt[n])
      BY <1>2, TipOnSelf DEF TipSettled
    <3> QED BY <1>2, <3>1, <3>2, <3>3
  <2> QED BY <2>1 DEF TipChains
<1>5. TipRounds
  BY <1>1 DEF TipRounds, TipRound
<1>6. TipSeen = {}
  BY <1>1 DEF TipSeen
<1>7. TipHeard
  BY <1>1, <1>6 DEF TipHeard
<1>8. TipTrunk("G") /\ \A n \in tipPlan.nodes : TipOnTrunk(n, "G")
  BY <1>1, <1>3, <1>6, TipPlanTypes DEF TipTrunk, TipOnTrunk
<1>9. TipTogether
  BY <1>2, <1>8 DEF TipTogether
<1> QED BY <1>3, <1>4, <1>5, <1>7, <1>9 DEF TipInvariant, TipSafe

LEMMA TipStep ==
  ASSUME TipInvariant, [Tips!Next]_Tips!vars
  PROVE  TipInvariant'
<1>1. TipSafe /\ TipHeard /\ TipTogether /\ tipPlan.nodes \subseteq TipNodes
  BY TipPlanTypes DEF TipInvariant, TipSafe
<1>2. CASE UNCHANGED Tips!vars
  <2>1. /\ tipPlan' = tipPlan /\ tipTip' = tipTip /\ tipStored' = tipStored
        /\ tipSpoilt' = tipSpoilt /\ tipCut' = tipCut /\ tipKnown' = tipKnown
        /\ tipInbox' = tipInbox /\ tipLoop' = tipLoop /\ tipLocal' = tipLocal
        /\ tipTodo' = tipTodo /\ tipFound' = tipFound
    BY <1>2 DEF Tips!vars, Tips!chainVars, Tips!askVars
  <2>2. TipSeen' = TipSeen
    BY <2>1, TipSeenSame
  <2>3. TipSafe'
    BY <1>1, <2>1 DEF TipSafe, TipTypes, TipChains, TipRounds, TipRound
  <2>4. TipHeard'
    BY <1>1, <2>1, <2>2 DEF TipHeard
  <2>5. TipTogether'
    BY <1>1, <2>1, <2>2 DEF TipTogether, TipCalm, TipTrunk, TipOnTrunk
  <2> QED BY <2>3, <2>4, <2>5 DEF TipInvariant
<1>3. ASSUME NEW n \in tipPlan.nodes,
             \/ Tips!Lose(n) \/ Tips!NoSync(n) \/ Tips!BeginToAsk(n)
             \/ Tips!Ask(n) \/ Tips!NoAnswer(n) \/ Tips!FindNothing(n)
      PROVE  TipInvariant'
  <2>1. n \in TipNodes
    BY <1>1
  <2>2. TipSafe'
    BY <1>1, <1>3, <2>1, TipIdleStep, TipBeginStep, TipAskStep, TipEndStep
  <2>3. TipHeard' /\ TipTogether'
    BY <1>1, <1>3, <2>1, TipHeardKeeps, TipTogetherRest
  <2> QED BY <2>2, <2>3 DEF TipInvariant
<1>4. ASSUME NEW n \in tipPlan.nodes, Tips!Receive(n)
      PROVE  TipInvariant'
  BY <1>1, <1>4, TipReceiveStep, TipHeardReceive, TipTogetherReceive DEF TipInvariant
<1>5. ASSUME NEW n \in tipPlan.nodes, Tips!Sync(n)
      PROVE  TipInvariant'
  BY <1>1, <1>5, TipSyncStep, TipHeardKeeps, TipTogetherSync DEF TipInvariant
<1>6. ASSUME NEW n \in tipPlan.nodes, Tips!Compare(n)
      PROVE  TipInvariant'
  BY <1>1, <1>6, TipCompareStep, TipHeardCompare, TipTogetherCompare DEF TipInvariant
<1>7. ASSUME NEW n \in tipPlan.nodes, Tips!Mine(n)
      PROVE  TipInvariant'
  BY <1>1, <1>7, TipEndStep, TipHeardMine, TipTogetherMine DEF TipInvariant
<1> QED BY <1>2, <1>3, <1>4, <1>5, <1>6, <1>7 DEF Tips!Next

\* When every announcement has arrived, nodes whose competing blocks differ in
\* work have one tip, and a miner that compared its tip with its peers' builds on
\* no less work: for any tree of blocks, any nodes and any plans of mining.  (The
\* p2p node's processBlock and relay, ResolveMiningTipConsensus, fast syncs and
\* the work rule of ReorgManager.)
THEOREM TipsStaySound == Tips!Spec => []TipsSound
<1>1. Tips!Init => TipInvariant
  BY TipInitial
<1>2. TipInvariant /\ [Tips!Next]_Tips!vars => TipInvariant'
  BY TipStep
<1>3. TipInvariant => TipsSound
  BY TipSafeMines, TipTogetherAgree DEF TipInvariant, TipSafe, TipsSound
<1> QED BY <1>1, <1>2, <1>3, PTL DEF Tips!Spec

=============================================================================
