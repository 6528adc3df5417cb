---------------------------- MODULE GossipProofs ----------------------------
(***************************************************************************)
(* How the nodes agree on their kings (KingGossip, in MCGossip), and what  *)
(* becomes of connections (PeerLinks), proved for every value of the       *)
(* constants.                                                              *)
(***************************************************************************)
EXTENDS MCGossip, SumLemmas, SequenceTheorems

-----------------------------------------------------------------------------
(* Lists. *)

\* There is a k-th place, and the places differ.
LEMMA PlaceExists ==
  ASSUME NEW N \in Nat, NEW P \in SUBSET (1..N), NEW k \in 1..Cardinality(P)
  PROVE  \E i \in P : Cardinality({j \in P : j <= i}) = k
<1> DEFINE upto(i) == {j \in P : j <= i}
           c(i) == Cardinality(upto(i))
           W == {i \in 1..N : k <= c(i)}
<1>0. IsFiniteSet(1..N)
  BY FS_Interval
<1>a. \A i \in P : i \in Int /\ 1 <= i /\ i <= N
  OBVIOUS
<1>1. IsFiniteSet(P)
  BY <1>0, FS_Subset
<1>2. Cardinality(P) \in Nat
  BY <1>1, FS_CardinalityType
<1>3. \A i : IsFiniteSet(upto(i)) /\ c(i) \in Nat
  <2> TAKE i
  <2>1. upto(i) \subseteq P
    OBVIOUS
  <2> HIDE DEF upto
  <2> QED BY <1>1, <2>1, FS_Subset, FS_CardinalityType
<1>4. N \in W
  <2>1. upto(N) = P
    BY <1>a
  <2>2. N # 0
    <3> SUFFICES ASSUME N = 0 PROVE FALSE
      OBVIOUS
    <3>1. P = {}
      OBVIOUS
    <3>2. Cardinality(P) = 0
      BY <3>1, FS_EmptySet
    <3> QED BY <3>2
  <2> HIDE DEF upto
  <2> QED BY <1>2, <2>1, <2>2
<1>5. W \in SUBSET Nat /\ W # {}
  BY <1>4
<1> HIDE DEF W
<1>6. PICK i \in W : \A j \in W : i <= j
  BY <1>5, NatLeast
<1>7. i \in 1..N /\ k <= c(i)
  BY <1>6 DEF W
<1>8. ~(k <= c(i - 1))
  <2> SUFFICES ASSUME k <= c(i - 1) PROVE FALSE
    OBVIOUS
  <2>1. CASE i = 1
    <3>1. \A j \in P : ~(j <= i - 1)
      BY <1>a, <2>1
    <3>2. upto(i - 1) = {}
      BY <3>1
    <3> HIDE DEF upto
    <3>3. c(i - 1) = 0
      BY <3>2, FS_EmptySet
    <3> QED BY <3>3
  <2>2. CASE i # 1
    <3>1. i - 1 \in W
      BY <1>7, <2>2 DEF W
    <3> QED BY <1>6, <1>7, <3>1
  <2> QED BY <2>1, <2>2
<1>9. i \in P
  <2> SUFFICES ASSUME i \notin P PROVE FALSE
    OBVIOUS
  <2>1. \A j \in P : j <= i <=> j <= i - 1
    BY <1>a, <1>7
  <2>2. upto(i) = upto(i - 1)
    BY <2>1
  <2> HIDE DEF upto
  <2> QED BY <1>7, <1>8, <2>2
<1>10. c(i) = c(i - 1) + 1
  <2>0. \A j \in P : j <= i <=> (j <= i - 1 \/ j = i)
    BY <1>a, <1>7
  <2>1. ~(i <= i - 1)
    BY <1>7
  <2>2. upto(i) = upto(i - 1) \cup {i} /\ i \notin upto(i - 1)
    BY <1>9, <2>0, <2>1
  <2> HIDE DEF upto
  <2> QED BY <1>3, <2>2, FS_AddElement
<1>11. c(i) = k
  <2>1. c(i) \in Nat /\ c(i - 1) \in Nat
    BY <1>3
  <2> HIDE DEF c
  <2> QED BY <2>1, <1>7, <1>8, <1>10
<1> QED BY <1>9, <1>11

LEMMA PlaceUnique ==
  ASSUME NEW N \in Nat, NEW P \in SUBSET (1..N), NEW i1 \in P, NEW i2 \in P,
         Cardinality({j \in P : j <= i1}) = Cardinality({j \in P : j <= i2})
  PROVE  i1 = i2
<1>1. ASSUME NEW a \in P, NEW b \in P, a < b,
             Cardinality({j \in P : j <= a}) = Cardinality({j \in P : j <= b})
      PROVE  FALSE
  <2> DEFINE A == {j \in P : j <= a}
             B == {j \in P : j <= b}
  <2>0. \A j \in P : j \in Int
    OBVIOUS
  <2>a. /\ \A j \in P : j <= a => j <= b
        /\ b <= b /\ ~(b <= a)
    BY <1>1, <2>0
  <2>1. A \subseteq B /\ b \in B /\ b \notin A
    BY <2>a
  <2>2. IsFiniteSet(B)
    <3>1. B \subseteq 1..N
      OBVIOUS
    <3>2. IsFiniteSet(1..N)
      BY FS_Interval
    <3> HIDE DEF B
    <3> QED BY <3>1, <3>2, FS_Subset
  <2>3. Cardinality(A) = Cardinality(B)
    BY <1>1
  <2> HIDE DEF A, B
  <2> QED BY <2>1, <2>2, <2>3, FS_Subset
<1> QED BY <1>1

\* What At picks is a list of what is at the places.
LEMMA AtList ==
  ASSUME NEW S, NEW l \in Seq(S), NEW P \in SUBSET DOMAIN l
  PROVE  /\ Kings!At(l, P) \in Seq(S)
         /\ Kings!KingsIn(Kings!At(l, P)) = {l[i] : i \in P}
<1> DEFINE n == Cardinality(P)
           Place(k) == CHOOSE i \in P : Cardinality({j \in P : j <= i}) = k
           e == [k \in 1..n |-> l[Place(k)]]
<1>1. Len(l) \in Nat /\ DOMAIN l = 1..Len(l) /\ l \in [1..Len(l) -> S]
  OBVIOUS
<1>a. IsFiniteSet(1..Len(l))
  BY <1>1, FS_Interval
<1>b. IsFiniteSet(P)
  BY <1>1, <1>a, FS_Subset
<1>2. n \in Nat /\ P \in SUBSET (1..Len(l))
  <2>1. IsFiniteSet(P)
    BY <1>b
  <2> QED BY <1>1, <2>1, FS_CardinalityType
<1>3. Kings!At(l, P) = e
  BY Zenon DEF Kings!At, Kings!Cardinality, Cardinality
<1>4. \A k \in 1..n : Place(k) \in P
  BY <1>1, <1>2, PlaceExists
<1>5. \A i \in P : \E k \in 1..n : Place(k) = i
  <2> TAKE i \in P
  <2> DEFINE T == {j \in P : j <= i}
             k == Cardinality(T)
  <2>1. T \subseteq P /\ i \in T
    BY <1>1, <1>2
  <2>2. IsFiniteSet(P)
    BY <1>b
  <2> HIDE DEF T
  <2>3. k \in Nat /\ k <= n /\ k # 0
    BY <2>1, <2>2, FS_Subset, FS_CardinalityType, FS_EmptySet
  <2>4. k \in 1..n
    BY <1>2, <2>3
  <2>5. Place(k) = i
    <3>2. Cardinality({j \in P : j <= i}) = k
      BY DEF T
    <3>1. ASSUME NEW i2 \in P, Cardinality({j \in P : j <= i2}) = k
          PROVE  i2 = i
      <4>1. Cardinality({j \in P : j <= i2}) = Cardinality({j \in P : j <= i})
        BY <3>1, <3>2
      <4> HIDE DEF k
      <4>2. Len(l) \in Nat /\ P \in SUBSET (1..Len(l))
        BY <1>1, <1>2
      <4> QED BY <4>1, <4>2, PlaceUnique, Zenon
    <3> HIDE DEF k
    <3> QED BY <3>1, <3>2
  <2> QED BY <2>4, <2>5
<1> HIDE DEF n, Place
<1>6. e \in [1..n -> S]
  BY <1>1, <1>2, <1>4
<1>7. e \in Seq(S)
  <2> HIDE DEF e
  <2> QED BY <1>2, <1>6, IsASeq
<1>8. {e[k] : k \in DOMAIN e} = {l[i] : i \in P}
  BY <1>4, <1>5
<1> HIDE DEF e
<1> QED BY <1>3, <1>7, <1>8 DEF Kings!KingsIn

\* A merged list has the kings of both lists.
LEMMA MergedList ==
  ASSUME NEW S, NEW l1 \in Seq(S), NEW l2 \in Seq(S)
  PROVE  /\ Kings!Merged(l1, l2) \in Seq(S)
         /\ Kings!KingsIn(l1) \subseteq Kings!KingsIn(Kings!Merged(l1, l2))
<1> DEFINE both == l1 \o l2
           P == {i \in DOMAIN both : \A j \in 1..(i - 1) : both[j] # both[i]}
<1>1. both \in Seq(S) /\ DOMAIN both = 1..Len(both) /\ Len(both) \in Nat
  OBVIOUS
<1>2. \A i \in DOMAIN l1 : i \in DOMAIN both /\ both[i] = l1[i]
  OBVIOUS
<1> HIDE DEF both
<1>3. \A i \in DOMAIN both : \E j \in P : both[j] = both[i]
  <2> TAKE i \in DOMAIN both
  <2> DEFINE W == {j \in DOMAIN both : both[j] = both[i]}
  <2>1. W \in SUBSET Nat /\ W # {}
    BY <1>1
  <2> HIDE DEF W
  <2>2. PICK j \in W : \A j2 \in W : j <= j2
    BY <2>1, NatLeast
  <2>3. j \in 1..Len(both) /\ both[j] = both[i]
    BY <1>1, <2>2 DEF W
  <2>4. ASSUME NEW j2 \in 1..(j - 1), both[j2] = both[j] PROVE FALSE
    <3>1. j2 \in W
      BY <1>1, <2>3, <2>4 DEF W
    <3> QED BY <2>2, <2>3, <2>4, <3>1
  <2> QED BY <1>1, <2>3, <2>4
<1>4. P \in SUBSET DOMAIN both
  OBVIOUS
<1>5. Kings!Merged(l1, l2) = Kings!At(both, P)
  BY DEF Kings!Merged, both
<1> HIDE DEF P
<1>6. /\ Kings!At(both, P) \in Seq(S)
      /\ Kings!KingsIn(Kings!At(both, P)) = {both[i] : i \in P}
  BY <1>1, <1>4, AtList
<1>7. Kings!KingsIn(l1) \subseteq {both[i] : i \in P}
  BY <1>2, <1>3 DEF Kings!KingsIn
<1> QED BY <1>5, <1>6, <1>7

LEMMA WithoutList ==
  ASSUME NEW S, NEW l \in Seq(S), NEW gone
  PROVE  Kings!Without(l, gone) \in Seq(S)
<1> DEFINE P == {i \in DOMAIN l : l[i] \notin gone}
<1>1. P \in SUBSET DOMAIN l
  OBVIOUS
<1>2. Kings!Without(l, gone) = Kings!At(l, P)
  BY DEF Kings!Without
<1> HIDE DEF P
<1> QED BY <1>1, <1>2, AtList

\* An order of a finite set is a list of it.
LEMMA OrderList ==
  ASSUME NEW S, IsFiniteSet(S), NEW q \in Kings!Orders(S)
  PROVE  q \in Seq(S) /\ Len(q) = Cardinality(S) /\ Len(q) \in Nat
<1>1. Cardinality(S) \in Nat
  BY FS_CardinalityType
<1>2. Kings!Cardinality(S) = Cardinality(S)
  BY Zenon DEF Kings!Cardinality, Cardinality
<1>3. q \in [1..Cardinality(S) -> S]
  BY <1>2 DEF Kings!Orders
<1> QED BY <1>1, <1>3, IsASeq

-----------------------------------------------------------------------------
(* What is kept, sent and waited for. *)

Lists == Seq(KingNames)

Items ==
  [op : {"install", "look"}, seen : Lists, list : Lists, tell : BOOLEAN]

\* The item installs a longer list or one with all the kings of the list seen.
Keepers ==
  {x \in Items : x.op = "install" =>
                   \/ Kings!KingsIn(x.seen) \subseteq Kings!KingsIn(x.list)
                   \/ Len(x.list) > Len(x.seen)}

Keeping == {"king", "db", "compare"}

ListOK ==
  /\ kingList \in [KingNodes -> Lists]
  /\ kingTodo \in [KingNodes -> [Kings!Threads -> Seq(Items)]]
  /\ kingCache \in [KingNodes -> SUBSET [peer : KingNodes, list : Lists]]
  /\ \A n \in KingNodes, t \in Keeping : kingTodo[n][t] \in Seq(Keepers)

Messages ==
  [kind : {"config", "update", "request", "response"}, from : KingNodes,
   to : KingNodes, list : Lists, lo : Nat, hi : Nat, events : SUBSET Nat,
   height : Nat]

Talk == {m \in Messages : m.kind \in {"config", "update"}}

Attempts ==
  [at : {"idle", "waiting", "answered"}, lo : Nat, hi : Nat, peers : Seq(KingNodes)]

HistoryTypeOK ==
  /\ kingNet \in SUBSET Messages
  /\ kingHeight \in [KingNodes -> Nat]
  /\ kingSynced \in [KingNodes -> Nat]
  /\ kingCovered \in [KingNodes -> SUBSET Nat]
  /\ kingPassed \in [KingNodes -> SUBSET Nat]
  /\ kingEvents \in [KingNodes -> SUBSET Nat]
  /\ kingLocal \in [KingNodes -> SUBSET Nat]
  /\ kingAttempt \in [KingNodes -> Attempts]

\* The blocks of a node whose rotations are synced or known to be passed over.
Account(n) == kingCovered[n] \cup kingPassed[n]

\* SyncBlocks is called for blocks that were there: those past the tip were taken
\* back.
TargetsOK ==
  \A n \in KingNodes : \A h \in kingLocal[n] : (kingHeight[n] + 1)..h \subseteq kingPassed[n]

\* All blocks before lo are accounted for.
Begun(n, lo) == 1..(lo - 1) \subseteq Account(n)

\* A request, an answer to it and an attempt begin after blocks that are accounted
\* for, or further down, and an answer ends where the answering node stopped.
BeginsCovered(m) ==
  /\ m.kind = "request" => Begun(m.from, m.lo)
  /\ m.kind = "response" => Begun(m.to, m.lo) /\ m.hi <= m.lo + KingMaxBatch

HistoryOK ==
  /\ HistoryTypeOK
  /\ \A n \in KingNodes :
       /\ 1..kingSynced[n] \subseteq Account(n)
       /\ kingAttempt[n].at # "idle" =>
            Begun(n, kingAttempt[n].lo) /\ kingAttempt[n].peers # <<>>
  /\ TargetsOK
  /\ \A m \in kingNet : BeginsCovered(m)

GossipInvariant == ListOK /\ HistoryOK

\* What KingForgottenOnlyIf says of a step.
ForgetsOnlyIf ==
  \A n \in KingNodes :
    \/ Kings!KingsIn(kingList[n]) \subseteq Kings!KingsIn(kingList'[n])
    \/ Len(kingList'[n]) > Len(kingList[n])
    \/ \E t \in Kings!Threads : Kings!StaleInstall(n, t)
    \/ \E t \in {"emergency", "check"} : kingTodo'[n][t] # kingTodo[n][t]
    \/ Kings!CleanupIneligibleKings(n)

LEMMA SameLists ==
  ASSUME kingList' = kingList
  PROVE  ForgetsOnlyIf
BY DEF ForgetsOnlyIf

LEMMA KingsInit == Kings!Init => GossipInvariant
<1> SUFFICES ASSUME Kings!Init PROVE GossipInvariant
  OBVIOUS
<1>1. PICK b \in KingBeginnings :
        /\ kingList = b.list /\ kingHeight = b.height /\ kingEvents = b.events
        /\ kingSynced = b.synced
        /\ kingCovered = [n \in KingNodes |-> 1..b.synced[n]]
        /\ kingLocal = b.local
  BY DEF Kings!Init
<1>2. /\ kingTodo = [n \in KingNodes |-> [t \in Kings!Threads |-> <<>>]]
      /\ kingNet = {} /\ kingPassed = [n \in KingNodes |-> {}]
      /\ kingCache = [n \in KingNodes |-> {}]
      /\ kingAttempt = [n \in KingNodes |-> Kings!NoAttempt]
  BY DEF Kings!Init
<1>3. <<>> \in Seq(Items) /\ <<>> \in Seq(Keepers) /\ <<>> \in Seq(KingNodes)
  OBVIOUS
<1>4. ListOK
  <2>1. Keeping \subseteq Kings!Threads
    BY DEF Keeping, Kings!Threads
  <2> QED BY <1>1, <1>2, <1>3, <2>1, KingAssumption DEF ListOK, Lists
<1>5. Kings!NoAttempt \in Attempts /\ Kings!NoAttempt.at = "idle"
  BY <1>3 DEF Kings!NoAttempt, Attempts
<1>6. HistoryTypeOK
  BY <1>1, <1>2, <1>5, KingAssumption DEF HistoryTypeOK
<1>7. \A n \in KingNodes : 1..kingSynced[n] \subseteq Account(n)
  BY <1>1, <1>6 DEF HistoryTypeOK, Account
<1>8. TargetsOK
  <2>1. ASSUME NEW n \in KingNodes, NEW h \in kingLocal[n]
        PROVE  (kingHeight[n] + 1)..h = {}
    BY <1>1, <1>6, <2>1, KingAssumption DEF HistoryTypeOK
  <2> QED BY <2>1 DEF TargetsOK
<1> QED BY <1>2, <1>4, <1>5, <1>6, <1>7, <1>8 DEF GossipInvariant, HistoryOK

\* What is sent is there, or was there before.
LEMMA SentThere ==
  ASSUME NEW there, NEW n, NEW ms
  PROVE  Kings!Sent(there, n, ms) \subseteq there \cup ms
BY DEF Kings!Sent

LEMMA MessageTyped ==
  ASSUME HistoryTypeOK, NEW n \in KingNodes, NEW p \in KingNodes, NEW l \in Lists,
         NEW kind \in {"config", "update", "request", "response"}
  PROVE  /\ Kings!Message(kind, n, p, l) \in Messages
         /\ Kings!Message(kind, n, p, l).kind = kind
<1>1. kingHeight[n] \in Nat
  BY DEF HistoryTypeOK
<1> QED BY <1>1 DEF Kings!Message, Messages

LEMMA ToldIsTalk ==
  ASSUME HistoryTypeOK, NEW n \in KingNodes, NEW l \in Lists
  PROVE  /\ Kings!Configs(n, l) \subseteq Talk
         /\ Kings!Updates(n, l) \subseteq Talk
         /\ Kings!Told(n, l) \subseteq Talk
<1>1. \A p \in Kings!Others(n) : p \in KingNodes
  BY DEF Kings!Others
<1>2. \A p \in Kings!Others(n) :
        /\ Kings!Message("config", n, p, l) \in Talk
        /\ Kings!Message("update", n, p, l) \in Talk
  BY <1>1, MessageTyped DEF Talk
<1>3. Kings!Configs(n, l) \subseteq Talk
  BY <1>2 DEF Kings!Configs
<1>4. Kings!Updates(n, l) \subseteq Talk
  BY <1>2 DEF Kings!Updates
<1> QED BY <1>3, <1>4 DEF Kings!Told

\* Talk of lists does not touch the history.
LEMMA TalkStep ==
  ASSUME HistoryOK, UNCHANGED Kings!historyVars,
         kingNet' \subseteq kingNet \cup Talk
  PROVE  HistoryOK'
<1>1. /\ UNCHANGED <<kingHeight, kingSynced, kingEvents, kingLocal, kingAttempt>>
      /\ UNCHANGED <<kingCovered, kingPassed>>
  BY DEF Kings!historyVars, Kings!accountVars
<1>2. HistoryTypeOK'
  BY <1>1 DEF HistoryOK, HistoryTypeOK, Talk
<1>3. ASSUME NEW m \in kingNet' PROVE BeginsCovered(m)'
  <2>1. m \in kingNet \/ (m.kind # "request" /\ m.kind # "response")
    BY DEF Talk
  <2> QED BY <1>1, <2>1 DEF HistoryOK, BeginsCovered, Begun, Account
<1>4. \A n \in KingNodes :
        /\ (1..kingSynced[n] \subseteq Account(n))'
        /\ (kingAttempt[n].at # "idle" =>
              Begun(n, kingAttempt[n].lo) /\ kingAttempt[n].peers # <<>>)'
  BY <1>1 DEF HistoryOK, Begun, Account
<1>5. TargetsOK'
  BY <1>1 DEF HistoryOK, TargetsOK
<1> QED BY <1>2, <1>3, <1>4, <1>5 DEF HistoryOK

-----------------------------------------------------------------------------
(* The lists. *)

LEMMA OneItem ==
  ASSUME NEW S, NEW x \in S
  PROVE  <<x>> \in Seq(S)
OBVIOUS

LEMMA LookTyped ==
  ASSUME NEW l \in Lists
  PROVE  Kings!Look(l) \in Items /\ Kings!Look(l) \in Keepers
BY DEF Kings!Look, Items, Keepers, Lists

LEMMA InstallTyped ==
  ASSUME NEW seen \in Lists, NEW l \in Lists, NEW tell \in BOOLEAN
  PROVE  /\ Kings!Install(seen, l, tell) \in Items
         /\ \/ Kings!KingsIn(seen) \subseteq Kings!KingsIn(l)
            \/ Len(l) > Len(seen)
            => Kings!Install(seen, l, tell) \in Keepers
<1>1. Kings!Install(seen, l, tell) \in Items
  BY DEF Kings!Install, Items
<1> QED BY <1>1 DEF Kings!Install, Keepers

LEMMA WantedKeeps ==
  ASSUME ListOK, NEW n \in KingNodes, NEW l \in Lists
  PROVE  Kings!Wanted(n, l) \in Seq(Keepers)
<1> DEFINE merged == Kings!Merged(kingList[n], l)
<1>1. kingList[n] \in Lists
  BY DEF ListOK
<1>2. /\ merged \in Lists
      /\ Kings!KingsIn(kingList[n]) \subseteq Kings!KingsIn(merged)
  BY <1>1, MergedList DEF Lists
<1>3. CASE Len(l) > Len(kingList[n])
  <2>1. Kings!Install(kingList[n], l, TRUE) \in Keepers
    BY <1>1, <1>3, InstallTyped
  <2>2. Kings!Wanted(n, l) = <<Kings!Install(kingList[n], l, TRUE)>>
    BY <1>3 DEF Kings!Wanted
  <2> QED BY <2>1, <2>2, OneItem
<1>4. CASE ~(Len(l) > Len(kingList[n]))
  <2>1. Kings!Install(kingList[n], merged, TRUE) \in Keepers
    BY <1>1, <1>2, InstallTyped
  <2>2. Kings!Wanted(n, l) \in {<<Kings!Install(kingList[n], merged, TRUE)>>, <<>>}
    BY <1>4 DEF Kings!Wanted
  <2>3. <<>> \in Seq(Keepers)
    OBVIOUS
  <2> QED BY <2>1, <2>2, <2>3, OneItem
<1> QED BY <1>3, <1>4

LEMMA KeepersAreItems ==
  ASSUME NEW q \in Seq(Keepers)
  PROVE  q \in Seq(Items)
BY DEF Keepers

\* A goroutine gets something to do.
LEMMA TodoStep ==
  ASSUME ListOK, NEW n \in KingNodes, NEW t \in Kings!Threads, NEW q \in Seq(Items),
         t \in Keeping => q \in Seq(Keepers),
         kingTodo' = [kingTodo EXCEPT ![n][t] = q],
         kingList' = kingList, kingCache' = kingCache
  PROVE  ListOK'
<1>1. kingTodo' \in [KingNodes -> [Kings!Threads -> Seq(Items)]]
  BY DEF ListOK
<1>2. ASSUME NEW n2 \in KingNodes, NEW t2 \in Keeping
      PROVE  kingTodo'[n2][t2] \in Seq(Keepers)
  <2>1. t2 \in Kings!Threads
    BY DEF Keeping, Kings!Threads
  <2> QED BY <2>1 DEF ListOK
<1> QED BY <1>1, <1>2 DEF ListOK

LEMMA KingTopicStep ==
  ASSUME GossipInvariant, NEW n \in KingNodes, NEW m \in kingNet,
         Kings!HandleKingListUpdate(n, m) \/ Kings!HandleKingConfig(n, m)
  PROVE  GossipInvariant' /\ ForgetsOnlyIf
<1> USE DEF GossipInvariant
<1>1. m.list \in Lists /\ kingList[n] \in Lists
  BY DEF HistoryOK, HistoryTypeOK, Messages, ListOK
<1>2. "king" \in Kings!Threads /\ "king" \in Keeping
  BY DEF Kings!Threads, Keeping
<1>3. CASE Kings!HandleKingListUpdate(n, m)
  <2> DEFINE merged == Kings!Merged(kingList[n], m.list)
             x == Kings!Install(kingList[n], merged, FALSE)
  <2>1. x \in Keepers
    BY <1>1, MergedList, InstallTyped DEF Lists
  <2>2. <<x>> \in Seq(Keepers) /\ <<x>> \in Seq(Items)
    BY <2>1, OneItem, KeepersAreItems
  <2>3. \/ kingTodo' = kingTodo
        \/ kingTodo' = [kingTodo EXCEPT ![n]["king"] = <<x>>]
    BY <1>3 DEF Kings!HandleKingListUpdate
  <2>4. kingList' = kingList /\ kingCache' = kingCache
    BY <1>3 DEF Kings!HandleKingListUpdate
  <2> HIDE DEF x
  <2>5. ListOK'
    <3>1. CASE kingTodo' = kingTodo
      BY <2>4, <3>1 DEF ListOK
    <3>2. CASE kingTodo' = [kingTodo EXCEPT ![n]["king"] = <<x>>]
      BY <1>2, <2>2, <2>4, <3>2, TodoStep
    <3> QED BY <2>3, <3>1, <3>2
  <2>6. HistoryOK'
    BY <1>3, TalkStep DEF Kings!HandleKingListUpdate
  <2> QED BY <2>4, <2>5, <2>6, SameLists
<1>4. CASE Kings!HandleKingConfig(n, m)
  <2>1. Kings!Wanted(n, m.list) \in Seq(Keepers)
    BY <1>1, WantedKeeps
  <2>2. /\ kingTodo' = [kingTodo EXCEPT ![n]["king"] = Kings!Wanted(n, m.list)]
        /\ kingList' = kingList /\ kingCache' = kingCache
    BY <1>4 DEF Kings!HandleKingConfig
  <2>3. ListOK'
    BY <1>2, <2>1, <2>2, KeepersAreItems, TodoStep
  <2>4. HistoryOK'
    BY <1>4, TalkStep DEF Kings!HandleKingConfig
  <2> QED BY <2>2, <2>3, <2>4, SameLists
<1> QED BY <1>3, <1>4

LEMMA QuietStep ==
  ASSUME GossipInvariant,
         \/ \E n \in KingNodes :
              \/ Kings!Broadcast(n) \/ Kings!EnsureBroadcast(n)
              \/ Kings!TriggerEmergencyConfigSync(n)
              \/ Kings!HealthCheckRotatingKingConfig(n)
              \/ Kings!CheckBegin(n) \/ Kings!CheckEnd(n) \/ Kings!WaitToWrite(n)
         \/ \E m \in kingNet : Kings!Lose(m)
         \/ UNCHANGED Kings!vars
  PROVE  GossipInvariant' /\ ForgetsOnlyIf
<1> USE DEF Kings!listVars
<1>1. ASSUME NEW n \in KingNodes
      PROVE  /\ Kings!Configs(n, kingList[n]) \subseteq Talk
             /\ Kings!Updates(n, kingList[n]) \subseteq Talk
             /\ Kings!Told(n, kingList[n]) \subseteq Talk
  BY ToldIsTalk DEF GossipInvariant, ListOK, HistoryOK
<1>2. ASSUME NEW n \in KingNodes, Kings!Broadcast(n) \/ Kings!EnsureBroadcast(n)
      PROVE  /\ kingNet' \subseteq kingNet \cup Talk
             /\ UNCHANGED <<Kings!listVars, kingCache, Kings!historyVars>>
  <2>1. CASE Kings!Broadcast(n)
    BY <1>1, <2>1, SentThere DEF Kings!Broadcast, Kings!Publish
  <2>2. CASE Kings!EnsureBroadcast(n)
    BY <1>1, <2>2, SentThere DEF Kings!EnsureBroadcast, Kings!Publish
  <2> QED BY <1>2, <2>1, <2>2
<1>3. ASSUME NEW n \in KingNodes, Kings!CheckBegin(n)
      PROVE  /\ kingNet' \subseteq kingNet \cup Talk
             /\ UNCHANGED <<Kings!listVars, kingCache, Kings!historyVars>>
  BY <1>1, <1>3, SentThere DEF Kings!CheckBegin, Kings!Publish
<1>4. /\ kingNet' \subseteq kingNet \cup Talk
      /\ UNCHANGED <<kingList, kingTodo, kingCache, Kings!historyVars>>
  BY <1>2, <1>3
     DEF Kings!TriggerEmergencyConfigSync, Kings!HealthCheckRotatingKingConfig,
         Kings!CheckEnd, Kings!WaitToWrite, Kings!Lose, Kings!vars
<1>5. HistoryOK'
  BY <1>4, TalkStep DEF GossipInvariant
<1>6. ListOK'
  BY <1>4 DEF GossipInvariant, ListOK
<1> QED BY <1>4, <1>5, <1>6, SameLists DEF GossipInvariant

LEMMA WorkStep ==
  ASSUME GossipInvariant, NEW n \in KingNodes, NEW t \in Kings!Threads,
         Kings!Work(n, t)
  PROVE  GossipInvariant' /\ ForgetsOnlyIf
<1> USE DEF GossipInvariant
<1> DEFINE q == kingTodo[n][t]
<1>1. q \in Seq(Items) /\ (t \in Keeping => q \in Seq(Keepers))
  BY DEF ListOK
<1>2. CASE Kings!ApplyKingConfiguration(n, t)
  <2>1. /\ q # <<>>
        /\ kingTodo' = [kingTodo EXCEPT ![n][t] =
                          Kings!Wanted(n, Head(q).list) \o Tail(q)]
        /\ UNCHANGED <<kingList, kingCache, kingNet, Kings!historyVars>>
    BY <1>2 DEF Kings!ApplyKingConfiguration, ListOK
  <2> HIDE DEF q
  <2>2. /\ Head(q) \in Items /\ Tail(q) \in Seq(Items)
        /\ t \in Keeping => Tail(q) \in Seq(Keepers)
    BY <1>1, <2>1
  <2>3. Kings!Wanted(n, Head(q).list) \in Seq(Keepers)
    <3>1. Head(q).list \in Lists
      BY <2>2 DEF Items
    <3> QED BY <3>1, WantedKeeps
  <2> DEFINE w == Kings!Wanted(n, Head(q).list)
  <2>4. w \in Seq(Items)
    BY <2>3, KeepersAreItems
  <2> HIDE DEF w
  <2>5. /\ w \o Tail(q) \in Seq(Items)
        /\ t \in Keeping => w \o Tail(q) \in Seq(Keepers)
    BY <2>2, <2>3, <2>4 DEF w
  <2>6. ListOK'
    BY <2>1, <2>5, TodoStep DEF w
  <2>7. HistoryOK'
    BY <2>1, TalkStep
  <2> QED BY <2>1, <2>6, <2>7, SameLists
<1>3. CASE Kings!UpdateKingAddresses(n, t)
  <2> DEFINE next == Head(q)
  <2>1. /\ q # <<>> /\ next.op = "install"
        /\ kingList' = [kingList EXCEPT ![n] = next.list]
        /\ kingTodo' = [kingTodo EXCEPT ![n][t] = Tail(q)]
        /\ UNCHANGED <<kingCache, Kings!historyVars>>
    BY <1>3 DEF Kings!UpdateKingAddresses, ListOK
  <2>2. next \in Items /\ next.list \in Lists /\ next.seen \in Lists
    <3> HIDE DEF q
    <3>1. next \in Items
      BY <1>1, <2>1
    <3> HIDE DEF next
    <3> QED BY <3>1 DEF Items
  <2>3. /\ Tail(q) \in Seq(Items)
        /\ t \in Keeping => Tail(q) \in Seq(Keepers) /\ next \in Keepers
    <3> HIDE DEF q
    <3> QED BY <1>1, <2>1
  <2>4. kingNet' \subseteq kingNet \cup Talk
    <3>1. /\ Kings!Configs(n, next.list) \subseteq Talk
          /\ Kings!Told(n, next.list) \subseteq Talk
      BY <2>2, ToldIsTalk DEF HistoryOK
    <3>2. \E ms : ms \subseteq Talk /\ kingNet' = Kings!Sent(kingNet, n, ms)
      BY <1>3, <3>1 DEF Kings!UpdateKingAddresses, Kings!Publish
    <3> QED BY <3>2, SentThere
  <2>5. HistoryOK'
    BY <2>1, <2>4, TalkStep
  <2> HIDE DEF next
  <2>6. ListOK'
    <3>1. /\ kingList' \in [KingNodes -> Lists]
          /\ kingTodo' \in [KingNodes -> [Kings!Threads -> Seq(Items)]]
      BY <2>1, <2>2, <2>3 DEF ListOK
    <3>2. ASSUME NEW n2 \in KingNodes, NEW t2 \in Keeping
          PROVE  kingTodo'[n2][t2] \in Seq(Keepers)
      <4>1. t2 \in Kings!Threads
        BY DEF Keeping, Kings!Threads
      <4> HIDE DEF q
      <4> QED BY <2>1, <2>3, <4>1 DEF ListOK
    <3> QED BY <2>1, <3>1, <3>2 DEF ListOK
  <2>7. ForgetsOnlyIf
    <3>1. /\ kingList'[n] = next.list /\ kingTodo'[n][t] = Tail(q)
          /\ \A n2 \in KingNodes \ {n} : kingList'[n2] = kingList[n2]
      BY <2>1 DEF ListOK
    <3>2. CASE t \in {"emergency", "check"}
      <4>1. Tail(q) # q
        <5> HIDE DEF q
        <5>1. Len(Tail(q)) = Len(q) - 1 /\ Len(q) \in Nat
          BY <1>1, <2>1
        <5> QED BY <5>1
      <4> QED BY <3>1, <3>2, <4>1 DEF ForgetsOnlyIf
    <3>3. CASE t \in Keeping
      <4>1. CASE next.seen # kingList[n]
        <5>1. Kings!StaleInstall(n, t)
          BY <2>1, <3>1, <4>1 DEF Kings!StaleInstall, next
        <5> QED BY <3>1, <5>1 DEF ForgetsOnlyIf
      <4>2. CASE next.seen = kingList[n]
        <5>1. \/ Kings!KingsIn(kingList[n]) \subseteq Kings!KingsIn(next.list)
              \/ Len(next.list) > Len(kingList[n])
          BY <2>1, <2>3, <3>3, <4>2 DEF Keepers
        <5> QED BY <3>1, <5>1 DEF ForgetsOnlyIf
      <4> QED BY <4>1, <4>2
    <3> QED BY <3>2, <3>3 DEF Kings!Threads, Keeping
  <2> QED BY <2>5, <2>6, <2>7
<1> QED BY <1>2, <1>3 DEF Kings!Work

\* Every list that is merged in keeps the kings of the list that was read.
LEMMA MergesKeep ==
  ASSUME NEW ours \in Lists, NEW largest \in Lists, NEW consensus \in Lists,
         NEW all \in Lists
  PROVE  Kings!Merges(ours, largest, consensus, all) \in Seq(Keepers)
<1> DEFINE merged == Kings!Merged(ours, largest)
           missing == Kings!Without(consensus, Kings!KingsIn(ours))
           everyone == Kings!Merged(ours, all)
           x1 == Kings!Install(ours, merged, TRUE)
           x2 == Kings!Install(ours, ours \o missing, TRUE)
           x3 == Kings!Install(ours, everyone, TRUE)
           q1 == IF Len(largest) > Len(ours) /\ Len(merged) > Len(ours)
                   THEN <<x1>> ELSE <<>>
           q2 == IF missing # <<>> THEN <<x2>> ELSE <<>>
           q3 == IF Len(all) - Len(ours) > Len(all) \div 5 THEN <<x3>> ELSE <<>>
<1>1. x1 \in Keepers /\ x3 \in Keepers
  BY MergedList, InstallTyped DEF Lists
<1>2. x2 \in Keepers
  <2>1. missing \in Lists
    BY WithoutList DEF Lists
  <2> HIDE DEF missing
  <2>2. /\ ours \o missing \in Lists
        /\ Kings!KingsIn(ours) \subseteq Kings!KingsIn(ours \o missing)
    BY <2>1 DEF Lists, Kings!KingsIn
  <2> HIDE DEF x2
  <2> QED BY <2>2, InstallTyped DEF x2
<1>3. Kings!Merges(ours, largest, consensus, all) = q1 \o q2 \o q3
  BY DEF Kings!Merges
<1> HIDE DEF x1, x2, x3, merged, missing
<1>4. q1 \in Seq(Keepers) /\ q2 \in Seq(Keepers) /\ q3 \in Seq(Keepers)
  BY <1>1, <1>2, OneItem
<1> HIDE DEF q1, q2, q3
<1> QED BY <1>3, <1>4

LEMMA CompareStep ==
  ASSUME GossipInvariant, NEW n \in KingNodes, Kings!CompareAndSync(n)
  PROVE  GossipInvariant' /\ ForgetsOnlyIf
<1> USE DEF GossipInvariant
<1>1. PICK f \in Kings!Lists(n) : \E largest, c, a :
        /\ largest \in {f[p] : p \in DOMAIN f}
        /\ \E S1, S2 \in SUBSET UNION {Kings!KingsIn(f[p]) : p \in DOMAIN f} :
             c \in Kings!Orders(S1) /\ a \in Kings!Orders(S2)
        /\ kingTodo' = [kingTodo EXCEPT ![n]["compare"] =
                          Kings!Merges(kingList[n], largest, c, a)]
  <2>1. PICK f \in Kings!Lists(n) :
          \E largest \in Kings!Longest({f[p] : p \in DOMAIN f}) :
            LET agree == Kings!Cardinality(DOMAIN f) \div 2 + 1
                all == UNION {Kings!KingsIn(f[p]) : p \in DOMAIN f}
                consensus == {k \in all :
                  Kings!Cardinality({p \in DOMAIN f : k \in Kings!KingsIn(f[p])}) >= agree}
            IN  \E c \in Kings!Orders(consensus), a \in Kings!Orders(all) :
                  kingTodo' = [kingTodo EXCEPT ![n]["compare"] =
                                 Kings!Merges(kingList[n], largest, c, a)]
    BY Zenon DEF Kings!CompareAndSync
  <2>2. Kings!Longest({f[p] : p \in DOMAIN f}) \subseteq {f[p] : p \in DOMAIN f}
    BY DEF Kings!Longest
  <2> DEFINE agree == Kings!Cardinality(DOMAIN f) \div 2 + 1
             all == UNION {Kings!KingsIn(f[p]) : p \in DOMAIN f}
             consensus == {k \in all :
               Kings!Cardinality({p \in DOMAIN f : k \in Kings!KingsIn(f[p])}) >= agree}
  <2>3. consensus \in SUBSET all /\ all \in SUBSET all
    OBVIOUS
  <2>4. PICK largest \in {f[p] : p \in DOMAIN f} :
          \E c \in Kings!Orders(consensus), a \in Kings!Orders(all) :
            kingTodo' = [kingTodo EXCEPT ![n]["compare"] =
                           Kings!Merges(kingList[n], largest, c, a)]
    BY <2>1, <2>2
  <2>5. PICK c \in Kings!Orders(consensus), a \in Kings!Orders(all) :
          kingTodo' = [kingTodo EXCEPT ![n]["compare"] =
                         Kings!Merges(kingList[n], largest, c, a)]
    BY <2>4
  <2> HIDE DEF consensus
  <2>6. \E S1, S2 \in SUBSET all : c \in Kings!Orders(S1) /\ a \in Kings!Orders(S2)
    BY <2>3, <2>5
  <2> QED BY <2>4, <2>5, <2>6
<1>a. PICK largest, c, a :
        /\ largest \in {f[p] : p \in DOMAIN f}
        /\ \E S1, S2 \in SUBSET UNION {Kings!KingsIn(f[p]) : p \in DOMAIN f} :
             c \in Kings!Orders(S1) /\ a \in Kings!Orders(S2)
        /\ kingTodo' = [kingTodo EXCEPT ![n]["compare"] =
                          Kings!Merges(kingList[n], largest, c, a)]
  BY <1>1
<1>2. kingList[n] \in Lists
  BY DEF ListOK
<1>3. \A p \in DOMAIN f : f[p] \in Lists
  BY <1>2 DEF Kings!Lists, Kings!Filled, ListOK
<1>4. largest \in Lists
  BY <1>a, <1>3
<1>5. \A p \in DOMAIN f : Kings!KingsIn(f[p]) \subseteq KingNames
  BY <1>3 DEF Kings!KingsIn, Lists
<1>6. c \in Lists /\ a \in Lists
  <2>1. PICK S1, S2 \in SUBSET UNION {Kings!KingsIn(f[p]) : p \in DOMAIN f} :
          c \in Kings!Orders(S1) /\ a \in Kings!Orders(S2)
    BY <1>a
  <2>2. S1 \subseteq KingNames /\ S2 \subseteq KingNames
    BY <1>5
  <2>3. IsFiniteSet(S1) /\ IsFiniteSet(S2)
    BY <2>2, FS_Subset, KingAssumption
  <2>4. c \in Seq(S1) /\ a \in Seq(S2)
    BY <2>1, <2>3, OrderList
  <2> QED BY <2>2, <2>4 DEF Lists
<1> DEFINE q == Kings!Merges(kingList[n], largest, c, a)
<1>7. q \in Seq(Keepers)
  BY <1>2, <1>4, <1>6, MergesKeep
<1>8. UNCHANGED <<kingList, kingCache, kingNet, Kings!historyVars>>
  BY DEF Kings!CompareAndSync
<1> HIDE DEF q
<1>9. ListOK'
  <2>1. q \in Seq(Items)
    BY <1>7, KeepersAreItems
  <2>2. "compare" \in Kings!Threads
    BY DEF Kings!Threads
  <2> QED BY <1>a, <1>7, <1>8, <2>1, <2>2, TodoStep DEF q
<1>10. HistoryOK'
  BY <1>8, TalkStep
<1> QED BY <1>8, <1>9, <1>10, SameLists

LEMMA EmergencyStep ==
  ASSUME GossipInvariant, NEW n \in KingNodes,
         Kings!ApplyEmergencyDefault(n) \/ Kings!TriggerConfigurationSync(n)
  PROVE  GossipInvariant' /\ ForgetsOnlyIf
<1> USE DEF GossipInvariant
<1>1. UNCHANGED <<kingList, kingCache, kingNet, Kings!historyVars>>
  BY DEF Kings!ApplyEmergencyDefault, Kings!TriggerConfigurationSync
<1>2. \A c \in kingCache[n] : c.list \in Lists
  BY DEF ListOK
<1>3. \E l \in Lists, t \in {"emergency", "check"} :
        kingTodo' = [kingTodo EXCEPT ![n][t] =
                       <<Kings!Install(kingList[n], l, TRUE)>>]
  <2>1. CASE Kings!ApplyEmergencyDefault(n)
    <3> DEFINE cached == {c.list : c \in {x \in kingCache[n] : Len(x.list) >= 2}}
    <3>1. PICK l \in IF cached = {} THEN {KingDefault} ELSE cached :
            kingTodo' = [kingTodo EXCEPT ![n]["emergency"] =
                           <<Kings!Install(kingList[n], l, TRUE)>>]
      BY <2>1 DEF Kings!ApplyEmergencyDefault
    <3>2. cached \subseteq Lists /\ KingDefault \in Lists
      BY <1>2, KingAssumption DEF Lists
    <3> HIDE DEF cached
    <3>3. l \in Lists
      BY <3>1, <3>2
    <3> QED BY <3>1, <3>3
  <2>2. CASE Kings!TriggerConfigurationSync(n)
    BY <1>2, <2>2
       DEF Kings!TriggerConfigurationSync, Kings!Longest, Kings!Filled
  <2> QED BY <2>1, <2>2
<1>4. PICK l \in Lists, t \in {"emergency", "check"} :
        kingTodo' = [kingTodo EXCEPT ![n][t] =
                       <<Kings!Install(kingList[n], l, TRUE)>>]
  BY <1>3
<1> DEFINE x == Kings!Install(kingList[n], l, TRUE)
<1>5. x \in Items
  BY InstallTyped DEF ListOK
<1>6. t \in Kings!Threads /\ t \notin Keeping
  BY DEF Kings!Threads, Keeping
<1> HIDE DEF x
<1>7. ListOK'
  <2>1. <<x>> \in Seq(Items)
    BY <1>5, OneItem
  <2> QED BY <1>1, <1>4, <1>6, <2>1, TodoStep DEF x
<1>8. HistoryOK'
  BY <1>1, TalkStep
<1> QED BY <1>1, <1>7, <1>8, SameLists

LEMMA CleanupStep ==
  ASSUME GossipInvariant, NEW n \in KingNodes, Kings!CleanupIneligibleKings(n)
  PROVE  GossipInvariant' /\ ForgetsOnlyIf
<1> USE DEF GossipInvariant
<1> DEFINE left == Kings!Without(kingList[n], KingPoor)
<1>1. left \in Lists
  BY WithoutList DEF ListOK, Lists
<1>2. /\ kingList' = [kingList EXCEPT ![n] = left]
      /\ kingNet' = Kings!Sent(kingNet, n, Kings!Configs(n, left))
      /\ UNCHANGED <<kingTodo, kingCache, Kings!historyVars>>
  BY DEF Kings!CleanupIneligibleKings, Kings!Publish
<1> HIDE DEF left
<1>3. kingNet' \subseteq kingNet \cup Talk
  <2>1. Kings!Configs(n, left) \subseteq Talk
    BY <1>1, ToldIsTalk DEF HistoryOK
  <2> QED BY <1>2, <2>1, SentThere
<1>4. HistoryOK'
  BY <1>2, <1>3, TalkStep
<1>5. ListOK'
  BY <1>1, <1>2 DEF ListOK
<1>6. \A n2 \in KingNodes \ {n} : kingList'[n2] = kingList[n2]
  BY <1>2 DEF ListOK
<1> QED BY <1>4, <1>5, <1>6 DEF ForgetsOnlyIf

-----------------------------------------------------------------------------
(* The history. *)

\* What is accounted for only grows: what has begun after it, still does.
LEMMA HistoryStep ==
  ASSUME HistoryOK, HistoryTypeOK', TargetsOK',
         \A n \in KingNodes : /\ Account(n) \subseteq Account(n)'
                              /\ 1..kingSynced'[n] \subseteq Account(n)',
         \A n \in KingNodes :
           \/ kingAttempt'[n].at = "idle"
           \/ Begun(n, kingAttempt'[n].lo) /\ kingAttempt'[n].peers # <<>>,
         \A m \in kingNet' : m \in kingNet \/ BeginsCovered(m)
  PROVE  HistoryOK'
<1>1. ASSUME NEW n \in KingNodes, NEW lo, Begun(n, lo) PROVE 1..(lo - 1) \subseteq Account(n)'
  BY <1>1 DEF Begun
<1>2. ASSUME NEW n \in KingNodes, kingAttempt'[n].at # "idle"
      PROVE  Begun(n, kingAttempt[n].lo)' /\ kingAttempt'[n].peers # <<>>
  BY <1>1, <1>2 DEF Begun
<1>3. ASSUME NEW m \in kingNet' PROVE BeginsCovered(m)'
  <2>1. BeginsCovered(m)
    BY DEF HistoryOK
  <2>2. m.from \in KingNodes /\ m.to \in KingNodes
    BY DEF HistoryTypeOK, Messages
  <2> QED BY <1>1, <2>1, <2>2 DEF BeginsCovered, Begun
<1> QED BY <1>2, <1>3 DEF HistoryOK

LEMMA SameHistory ==
  ASSUME HistoryOK, UNCHANGED <<kingSynced, kingCovered, kingPassed>>
  PROVE  \A n \in KingNodes : /\ Account(n) \subseteq Account(n)'
                              /\ 1..kingSynced'[n] \subseteq Account(n)'
BY DEF HistoryOK, Account

LEMMA SameListsKept ==
  ASSUME ListOK, kingList' = kingList, kingTodo' = kingTodo, kingCache' = kingCache
  PROVE  ListOK'
BY DEF ListOK

LEMMA RequestTyped ==
  ASSUME HistoryTypeOK, NEW n \in KingNodes, NEW p \in KingNodes,
         NEW lo \in Nat, NEW hi \in Nat, Begun(n, lo)
  PROVE  Kings!Request(n, p, lo, hi) \in Messages /\ BeginsCovered(Kings!Request(n, p, lo, hi))
<1> DEFINE m == Kings!Message("request", n, p, <<>>)
           r == [m EXCEPT !.lo = lo, !.hi = hi]
<1>1. <<>> \in Lists
  BY DEF Lists
<1>2. m \in Messages
  BY <1>1, MessageTyped
<1>3. m.kind = "request" /\ m.from = n
  BY DEF Kings!Message
<1>4. Kings!Request(n, p, lo, hi) = r
  BY DEF Kings!Request
<1> HIDE DEF m
<1>5. r \in Messages /\ r.kind = "request" /\ r.from = n /\ r.lo = lo
  BY <1>2, <1>3 DEF Messages
<1> HIDE DEF r
<1> QED BY <1>4, <1>5 DEF BeginsCovered

\* All blocks before the next after what is synced are accounted for.
LEMMA FromCovered ==
  ASSUME HistoryOK, NEW n \in KingNodes
  PROVE  /\ Kings!From(kingSynced[n]) \in Nat
         /\ Begun(n, Kings!From(kingSynced[n]))
<1>1. kingSynced[n] \in Nat /\ 1..kingSynced[n] \subseteq Account(n)
  BY DEF HistoryOK, HistoryTypeOK
<1>2. 1..(Kings!From(kingSynced[n]) - 1) \subseteq 1..kingSynced[n]
  BY <1>1 DEF Kings!From
<1> QED BY <1>1, <1>2 DEF Kings!From, Begun

LEMMA PeersOrdered ==
  ASSUME NEW n \in KingNodes, NEW peers \in Kings!Orders(Kings!Others(n)),
         Kings!Others(n) # {}
  PROVE  peers \in Seq(KingNodes) /\ peers # <<>>
<1>1. Kings!Others(n) \subseteq KingNodes
  BY DEF Kings!Others
<1>2. IsFiniteSet(Kings!Others(n))
  BY <1>1, FS_Subset, KingAssumption
<1>3. Cardinality(Kings!Others(n)) # 0
  BY <1>2, FS_EmptySet
<1>4. peers \in Seq(Kings!Others(n)) /\ Len(peers) # 0
  BY <1>2, <1>3, OrderList
<1> QED BY <1>1, <1>4

LEMMA AttemptStep ==
  ASSUME GossipInvariant, NEW n \in KingNodes,
         Kings!PerformDBSync(n) \/ Kings!WaitEnds(n)
  PROVE  GossipInvariant' /\ ForgetsOnlyIf
<1> USE DEF GossipInvariant
<1>1. UNCHANGED <<kingList, kingTodo, kingCache, kingHeight, kingSynced, kingCovered,
                  kingPassed, kingEvents, kingLocal>>
  BY DEF Kings!PerformDBSync, Kings!WaitEnds, Kings!listVars, Kings!accountVars
<1>2. \E at \in Attempts, ms \in SUBSET Messages :
        /\ kingAttempt' = [kingAttempt EXCEPT ![n] = at]
        /\ at.at # "idle" => Begun(n, at.lo) /\ at.peers # <<>>
        /\ kingNet' \subseteq kingNet \cup ms
        /\ \A m \in ms : BeginsCovered(m)
  <2>1. CASE Kings!PerformDBSync(n)
    <3> DEFINE lo == Kings!From(kingSynced[n])
               hi == kingHeight[n]
    <3>1. PICK peers \in Kings!Orders(Kings!Others(n)) :
            /\ kingAttempt' = [kingAttempt EXCEPT ![n] =
                                 [at |-> "waiting", lo |-> lo, hi |-> hi, peers |-> peers]]
            /\ kingNet' = Kings!Sent(kingNet, n, {Kings!Request(n, Head(peers), lo, hi)})
      BY <2>1 DEF Kings!PerformDBSync, Kings!Publish
    <3>2. peers \in Seq(KingNodes) /\ peers # <<>>
      BY <2>1, PeersOrdered DEF Kings!PerformDBSync
    <3>3. lo \in Nat /\ Begun(n, lo) /\ hi \in Nat
      BY FromCovered DEF HistoryOK, HistoryTypeOK
    <3> HIDE DEF lo, hi
    <3>4. Head(peers) \in KingNodes
      BY <3>2
    <3> DEFINE r == Kings!Request(n, Head(peers), lo, hi)
               at == [at |-> "waiting", lo |-> lo, hi |-> hi, peers |-> peers]
    <3>5. r \in Messages /\ BeginsCovered(r)
      BY <3>3, <3>4, RequestTyped DEF HistoryOK
    <3>6. at \in Attempts /\ Begun(n, at.lo) /\ at.peers # <<>>
      BY <3>2, <3>3 DEF Attempts
    <3> HIDE DEF r, at
    <3>7. kingNet' \subseteq kingNet \cup {r}
      BY <3>1, SentThere DEF r
    <3>8. kingAttempt' = [kingAttempt EXCEPT ![n] = at]
      BY <3>1 DEF at
    <3>9. {r} \in SUBSET Messages /\ \A m \in {r} : BeginsCovered(m)
      BY <3>5
    <3> QED BY <3>6, <3>7, <3>8, <3>9
  <2>2. CASE Kings!WaitEnds(n)
    <3> DEFINE a == kingAttempt[n]
    <3>1. a \in Attempts /\ (a.at # "idle" => Begun(n, a.lo) /\ a.peers # <<>>)
      BY DEF HistoryOK, HistoryTypeOK
    <3>2. CASE a.at = "answered" \/ Len(a.peers) = 1
      <4>1. kingAttempt' = [kingAttempt EXCEPT ![n] = Kings!NoAttempt] /\ kingNet' = kingNet
        BY <2>2, <3>2 DEF Kings!WaitEnds
      <4>2. Kings!NoAttempt \in Attempts /\ Kings!NoAttempt.at = "idle"
        BY DEF Kings!NoAttempt, Attempts
      <4>3. {} \in SUBSET Messages /\ \A m \in {} : BeginsCovered(m)
        OBVIOUS
      <4> QED BY <4>1, <4>2, <4>3
    <3>3. CASE ~(a.at = "answered" \/ Len(a.peers) = 1)
      <4> DEFINE peers == Tail(a.peers)
                 r == Kings!Request(n, Head(peers), a.lo, a.hi)
                 at == [a EXCEPT !.peers = peers]
      <4>1. /\ a.at # "idle"
            /\ kingAttempt' = [kingAttempt EXCEPT ![n] = at]
            /\ kingNet' = Kings!Sent(kingNet, n, {r})
        BY <2>2, <3>3 DEF Kings!WaitEnds, Kings!Publish, HistoryOK, HistoryTypeOK
      <4>2. /\ a.peers \in Seq(KingNodes) /\ a.lo \in Nat /\ a.hi \in Nat
            /\ Begun(n, a.lo) /\ a.peers # <<>>
        BY <3>1, <4>1 DEF Attempts
      <4>3. peers \in Seq(KingNodes) /\ peers # <<>>
        <5>1. Len(a.peers) \in Nat /\ Len(a.peers) # 0 /\ Len(a.peers) # 1
          BY <3>3, <4>2
        <5> HIDE DEF a
        <5>2. peers \in Seq(KingNodes) /\ Len(peers) = Len(a.peers) - 1
          BY <4>2
        <5> HIDE DEF peers
        <5>3. Len(peers) # 0
          BY <5>1, <5>2
        <5>4. ASSUME peers = <<>> PROVE Len(peers) = 0
          BY <5>4
        <5> QED BY <5>2, <5>3, <5>4
      <4>4. at \in Attempts /\ at.lo = a.lo /\ at.peers = peers
        <5> HIDE DEF a, peers
        <5> QED BY <3>1, <4>3 DEF Attempts
      <4>5. r \in Messages /\ BeginsCovered(r)
        <5>1. Head(peers) \in KingNodes
          <6> HIDE DEF peers
          <6> QED BY <4>3
        <5> HIDE DEF peers, a
        <5> QED BY <4>2, <5>1, RequestTyped DEF HistoryOK
      <4> HIDE DEF r, at, peers, a
      <4>6. kingNet' \subseteq kingNet \cup {r}
        BY <4>1, SentThere
      <4>7. {r} \in SUBSET Messages /\ \A m \in {r} : BeginsCovered(m)
        BY <4>5
      <4> QED BY <4>1, <4>2, <4>3, <4>4, <4>6, <4>7
    <3> QED BY <3>2, <3>3
  <2> QED BY <2>1, <2>2
<1>3. PICK at \in Attempts, ms \in SUBSET Messages :
        /\ kingAttempt' = [kingAttempt EXCEPT ![n] = at]
        /\ at.at # "idle" => Begun(n, at.lo) /\ at.peers # <<>>
        /\ kingNet' \subseteq kingNet \cup ms
        /\ \A m \in ms : BeginsCovered(m)
  BY <1>2
<1>4. HistoryTypeOK'
  BY <1>1, <1>3 DEF HistoryOK, HistoryTypeOK
<1>9. TargetsOK'
  BY <1>1 DEF HistoryOK, TargetsOK
<1>5. \A n2 \in KingNodes : /\ Account(n2) \subseteq Account(n2)'
                            /\ 1..kingSynced'[n2] \subseteq Account(n2)'
  BY <1>1, SameHistory
<1>6. \A n2 \in KingNodes :
        \/ kingAttempt'[n2].at = "idle"
        \/ Begun(n2, kingAttempt'[n2].lo) /\ kingAttempt'[n2].peers # <<>>
  BY <1>3 DEF HistoryOK, HistoryTypeOK
<1>7. \A m \in kingNet' : m \in kingNet \/ BeginsCovered(m)
  BY <1>3
<1>8. HistoryOK'
  BY <1>4, <1>5, <1>6, <1>7, <1>9, HistoryStep
<1> QED BY <1>1, <1>8, SameListsKept, SameLists

LEMMA RequestStep ==
  ASSUME GossipInvariant, NEW n \in KingNodes, NEW m \in kingNet,
         Kings!HandleDBSyncRequest(n, m)
  PROVE  GossipInvariant' /\ ForgetsOnlyIf
<1> USE DEF GossipInvariant
<1>1. /\ UNCHANGED <<kingList, kingTodo, kingCache, Kings!historyVars>>
      /\ m \in Messages /\ m.kind = "request" /\ m.to = n
  BY DEF Kings!HandleDBSyncRequest, Kings!listVars, HistoryOK, HistoryTypeOK
<1> DEFINE m0 == Kings!Message("response", n, m.from, kingList[n])
           evs == {h \in kingEvents[n] : m.lo <= h /\ h <= Kings!Least(m.hi, m.lo + KingMaxBatch)}
           r == [m0 EXCEPT !.lo = m.lo, !.hi = Kings!AnsweredTo(m),
                          !.height = kingHeight[n], !.events = evs]
<1>2. kingNet' = Kings!Sent(kingNet \ {m}, n, {r})
  BY DEF Kings!HandleDBSyncRequest
<1>3. m0 \in Messages /\ m0.kind = "response" /\ m0.to = m.from
  <2>1. kingList[n] \in Lists /\ m.from \in KingNodes
    BY <1>1 DEF ListOK, Messages
  <2> QED BY <2>1, MessageTyped DEF HistoryOK, Kings!Message
<1>4. /\ m.lo \in Nat /\ m.hi \in Nat /\ m.from \in KingNodes
      /\ Begun(m.from, m.lo) /\ kingHeight[n] \in Nat
  BY <1>1 DEF Messages, HistoryOK, HistoryTypeOK, BeginsCovered
<1>5. Kings!AnsweredTo(m) \in Nat /\ Kings!AnsweredTo(m) <= m.lo + KingMaxBatch
  BY <1>4, KingAssumption DEF Kings!AnsweredTo, Kings!Least
<1>6. evs \subseteq Nat
  BY DEF HistoryOK, HistoryTypeOK
<1> HIDE DEF m0, evs
<1>7. /\ r \in Messages /\ r.kind = "response" /\ r.to = m.from /\ r.lo = m.lo
      /\ r.hi = Kings!AnsweredTo(m)
  BY <1>3, <1>4, <1>5, <1>6 DEF Messages
<1> HIDE DEF r
<1>8. BeginsCovered(r)
  BY <1>4, <1>5, <1>7 DEF BeginsCovered
<1>9. kingNet' \subseteq kingNet \cup {r}
  BY <1>2, SentThere
<1>10. HistoryTypeOK'
  BY <1>1, <1>7, <1>9 DEF HistoryOK, HistoryTypeOK, Kings!historyVars, Kings!accountVars
<1>11. \A n2 \in KingNodes :
         /\ Account(n2) \subseteq Account(n2)' /\ 1..kingSynced'[n2] \subseteq Account(n2)'
         /\ \/ kingAttempt'[n2].at = "idle"
            \/ Begun(n2, kingAttempt'[n2].lo) /\ kingAttempt'[n2].peers # <<>>
  BY <1>1, SameHistory DEF HistoryOK, HistoryTypeOK, Kings!historyVars, Kings!accountVars
<1>12. HistoryOK'
  <2>1. TargetsOK'
    BY <1>1 DEF HistoryOK, TargetsOK, Kings!historyVars, Kings!accountVars
  <2> QED BY <1>8, <1>9, <1>10, <1>11, <2>1, HistoryStep
<1> QED BY <1>1, <1>12, SameListsKept, SameLists

\* An answer that begins in what is accounted for, or next to it, extends it.
LEMMA ResponseStep ==
  ASSUME GossipInvariant, NEW n \in KingNodes, NEW m \in kingNet,
         Kings!HandleDBSyncResponse(n, m)
  PROVE  GossipInvariant' /\ ForgetsOnlyIf
<1> USE DEF GossipInvariant
<1>1. /\ kingList' = kingList /\ kingHeight' = kingHeight /\ kingLocal' = kingLocal
      /\ kingNet' = kingNet \ {m}
      /\ m \in Messages /\ m.kind = "response" /\ m.to = n
  BY DEF Kings!HandleDBSyncResponse, HistoryOK, HistoryTypeOK
<1>2. /\ m.list \in Lists /\ m.from \in KingNodes /\ m.lo \in Nat /\ m.hi \in Nat
      /\ m.events \subseteq Nat
  BY <1>1 DEF Messages
<1>3. Begun(n, m.lo) /\ m.hi <= m.lo + KingMaxBatch
  BY <1>1 DEF HistoryOK, BeginsCovered
<1>4. ListOK'
  <2>1. kingCache' \in [KingNodes -> SUBSET [peer : KingNodes, list : Lists]]
    <3>1. PICK kept \in {{}, kingCache[n]} :
            kingCache' = [kingCache EXCEPT ![n] = kept \cup {[peer |-> m.from, list |-> m.list]}]
      BY DEF Kings!HandleDBSyncResponse
    <3> QED BY <1>2, <3>1 DEF ListOK
  <2> DEFINE w == Kings!Wanted(n, m.list)
             x == Kings!Look(m.list)
             q == IF Len(m.list) > Len(kingList[n]) THEN Append(w, x) ELSE w
  <2>2. kingTodo' = [kingTodo EXCEPT ![n]["db"] = q]
    BY DEF Kings!HandleDBSyncResponse
  <2>3. w \in Seq(Keepers) /\ x \in Keepers
    BY <1>2, WantedKeeps, LookTyped
  <2> HIDE DEF w, x
  <2>4. q \in Seq(Keepers)
    BY <2>3
  <2> HIDE DEF q
  <2>5. q \in Seq(Items)
    BY <2>4, KeepersAreItems
  <2>6. kingTodo' \in [KingNodes -> [Kings!Threads -> Seq(Items)]]
    BY <2>2, <2>5 DEF ListOK
  <2>7. ASSUME NEW n2 \in KingNodes, NEW t2 \in Keeping
        PROVE  kingTodo'[n2][t2] \in Seq(Keepers)
    <3>1. t2 \in Kings!Threads
      BY DEF Keeping, Kings!Threads
    <3> QED BY <2>2, <2>4, <3>1 DEF ListOK
  <2> QED BY <1>1, <2>1, <2>6, <2>7 DEF ListOK
<1> DEFINE answered == m.lo..Kings!Least(m.hi, m.lo + KingMaxBatch)
           syn == Kings!Marked(n, m.hi)
<1>5. PICK stored \in {{}, Kings!Acceptable(n, m.events)} :
        LET lost == (m.events \ stored) \cup {h \in answered : h > m.height}
        IN  /\ kingEvents' = [kingEvents EXCEPT ![n] = @ \cup stored]
            /\ kingCovered' = [kingCovered EXCEPT ![n] = @ \cup (answered \ lost)]
            /\ kingPassed' = [kingPassed EXCEPT ![n] = @ \cup lost]
  BY DEF Kings!HandleDBSyncResponse
<1> DEFINE lost == (m.events \ stored) \cup {h \in answered : h > m.height}
<1>6. /\ kingSynced[n] \in Nat /\ kingHeight[n] \in Nat
      /\ 1..kingSynced[n] \subseteq Account(n)
      /\ kingCovered \in [KingNodes -> SUBSET Nat]
      /\ kingPassed \in [KingNodes -> SUBSET Nat]
  BY DEF HistoryOK, HistoryTypeOK
<1>7. answered \subseteq Nat /\ lost \subseteq Nat
  BY <1>2, KingAssumption DEF Kings!Least
<1>8. 1..m.hi \subseteq Account(n) \cup answered
  BY <1>2, <1>3, KingAssumption DEF Begun, Kings!Least
<1>9. /\ kingSynced' = [kingSynced EXCEPT ![n] = syn] /\ syn \in Nat
      /\ 1..syn \subseteq Account(n) \cup answered
  <2>1. kingSynced' = [kingSynced EXCEPT ![n] = syn]
    BY DEF Kings!HandleDBSyncResponse
  <2>2. syn = kingSynced[n] \/ (syn \in Nat /\ syn <= m.hi)
    BY <1>2, <1>6 DEF Kings!Marked, Kings!Least
  <2> HIDE DEF answered, syn
  <2> QED BY <1>2, <1>6, <1>8, <2>1, <2>2
<1> HIDE DEF answered, lost, syn
<1>15. Account(n)' = Account(n) \cup answered \cup lost
  BY <1>5, <1>6 DEF Account, lost
<1>16. \A n2 \in KingNodes : /\ Account(n2) \subseteq Account(n2)'
                             /\ 1..kingSynced'[n2] \subseteq Account(n2)'
  <2>1. ASSUME NEW n2 \in KingNodes, n2 # n
        PROVE  Account(n2)' = Account(n2) /\ kingSynced'[n2] = kingSynced[n2]
    BY <1>5, <1>6, <1>9, <2>1 DEF Account, HistoryOK, HistoryTypeOK
  <2>2. kingSynced'[n] = syn
    BY <1>9 DEF HistoryOK, HistoryTypeOK
  <2> QED BY <1>9, <1>15, <2>1, <2>2 DEF HistoryOK
<1>10. /\ kingAttempt' \in [KingNodes -> Attempts]
       /\ \A n2 \in KingNodes :
            /\ kingAttempt'[n2].lo = kingAttempt[n2].lo
            /\ kingAttempt'[n2].peers = kingAttempt[n2].peers
            /\ kingAttempt'[n2].at # "idle" => kingAttempt[n2].at # "idle"
  <2> DEFINE at == [kingAttempt[n] EXCEPT !.at = "answered"]
  <2>1. \/ kingAttempt' = kingAttempt
        \/ kingAttempt[n].at # "idle" /\ kingAttempt' = [kingAttempt EXCEPT ![n].at = "answered"]
    BY DEF Kings!HandleDBSyncResponse
  <2>2. kingAttempt \in [KingNodes -> Attempts]
    BY DEF HistoryOK, HistoryTypeOK
  <2>3. at \in Attempts /\ at.lo = kingAttempt[n].lo /\ at.peers = kingAttempt[n].peers
    BY <2>2 DEF Attempts
  <2>4. \/ kingAttempt' = kingAttempt
        \/ kingAttempt[n].at # "idle" /\ kingAttempt' = [kingAttempt EXCEPT ![n] = at]
    BY <2>1
  <2> HIDE DEF at
  <2> QED BY <2>2, <2>3, <2>4
<1>11. \A n2 \in KingNodes :
         \/ kingAttempt'[n2].at = "idle"
         \/ Begun(n2, kingAttempt'[n2].lo) /\ kingAttempt'[n2].peers # <<>>
  BY <1>10 DEF HistoryOK
<1>12. kingEvents' \in [KingNodes -> SUBSET Nat]
  <2>1. stored \subseteq Nat
    BY <1>2 DEF Kings!Acceptable
  <2> QED BY <1>5, <2>1 DEF HistoryOK, HistoryTypeOK
<1>17. /\ kingCovered' \in [KingNodes -> SUBSET Nat]
       /\ kingPassed' \in [KingNodes -> SUBSET Nat]
  BY <1>5, <1>6, <1>7 DEF lost
<1>13. HistoryTypeOK'
  BY <1>1, <1>9, <1>10, <1>12, <1>17 DEF HistoryOK, HistoryTypeOK
<1>14. HistoryOK'
  <2>1. \A n2 \in KingNodes : kingPassed[n2] \subseteq kingPassed'[n2]
    BY <1>5, <1>6
  <2>2. TargetsOK'
    BY <1>1, <2>1 DEF HistoryOK, TargetsOK
  <2> QED BY <1>1, <1>11, <1>13, <1>16, <2>2, HistoryStep
<1> QED BY <1>1, <1>4, <1>14, SameLists

LEMMA HeightStep ==
  ASSUME GossipInvariant, NEW n \in KingNodes,
         \/ Kings!AcceptBlock(n) \/ Kings!RevertBlock(n)
         \/ Kings!StartPeriodicRotatingKingSync(n)
         \/ \E h \in kingLocal[n] : Kings!SyncBlocks(n, h)
  PROVE  GossipInvariant' /\ ForgetsOnlyIf
<1> USE DEF GossipInvariant
<1>1. UNCHANGED <<kingList, kingTodo, kingCache, kingNet, kingAttempt>>
  BY DEF Kings!AcceptBlock, Kings!RevertBlock, Kings!StartPeriodicRotatingKingSync,
         Kings!SyncBlocks, Kings!listVars
<1>2. /\ kingHeight[n] \in Nat /\ kingLocal[n] \subseteq Nat /\ kingEvents[n] \subseteq Nat
      /\ kingCovered \in [KingNodes -> SUBSET Nat]
      /\ kingPassed \in [KingNodes -> SUBSET Nat]
      /\ kingSynced \in [KingNodes -> Nat]
      /\ kingHeight \in [KingNodes -> Nat] /\ kingLocal \in [KingNodes -> SUBSET Nat]
      /\ \A n2 \in KingNodes : 1..kingSynced[n2] \subseteq Account(n2)
      /\ TargetsOK
  BY DEF HistoryOK, HistoryTypeOK
<1>3. /\ HistoryTypeOK' /\ TargetsOK'
      /\ \A n2 \in KingNodes : /\ Account(n2) \subseteq Account(n2)'
                               /\ 1..kingSynced'[n2] \subseteq Account(n2)'
  <2>1. CASE Kings!AcceptBlock(n)
    <3>1. PICK rotated \in {{}, {kingHeight[n] + 1} \cap KingRotations} :
            kingEvents' = [kingEvents EXCEPT ![n] = @ \cup rotated]
      BY <2>1 DEF Kings!AcceptBlock
    <3>2. /\ kingHeight' = [kingHeight EXCEPT ![n] = @ + 1]
          /\ kingLocal' = [kingLocal EXCEPT ![n] = @ \cup {kingHeight[n] + 1}]
          /\ UNCHANGED <<kingSynced, kingCovered, kingPassed>>
      BY <2>1 DEF Kings!AcceptBlock, Kings!accountVars
    <3>3. kingHeight[n] + 1 \in Nat /\ rotated \subseteq Nat
      BY <1>2, <3>1, KingAssumption
    <3>4. /\ kingHeight' \in [KingNodes -> Nat]
          /\ kingEvents' \in [KingNodes -> SUBSET Nat]
          /\ kingLocal' \in [KingNodes -> SUBSET Nat]
      BY <3>1, <3>2, <3>3 DEF HistoryOK, HistoryTypeOK
    <3>5. HistoryTypeOK'
      BY <1>1, <3>2, <3>4 DEF HistoryOK, HistoryTypeOK
    <3>6. ASSUME NEW n2 \in KingNodes, NEW h \in kingLocal'[n2]
          PROVE  (kingHeight'[n2] + 1)..h \subseteq kingPassed'[n2]
      BY <1>2, <3>2, <3>6 DEF TargetsOK
    <3>7. TargetsOK'
      BY <3>6 DEF TargetsOK
    <3> QED BY <3>2, <3>5, <3>7, SameHistory
  <2>2. CASE Kings!StartPeriodicRotatingKingSync(n)
    <3>1. /\ kingLocal' = [kingLocal EXCEPT ![n] = @ \cup {kingHeight[n]}]
          /\ UNCHANGED <<kingHeight, kingEvents, kingSynced, kingCovered, kingPassed>>
      BY <2>2 DEF Kings!StartPeriodicRotatingKingSync, Kings!accountVars
    <3>2. HistoryTypeOK'
      BY <1>1, <1>2, <3>1 DEF HistoryOK, HistoryTypeOK
    <3>3. ASSUME NEW n2 \in KingNodes, NEW h \in kingLocal'[n2]
          PROVE  (kingHeight'[n2] + 1)..h \subseteq kingPassed'[n2]
      BY <1>2, <3>1, <3>3 DEF TargetsOK
    <3>4. TargetsOK'
      BY <3>3 DEF TargetsOK
    <3> QED BY <3>1, <3>2, <3>4, SameHistory
  <2>3. CASE Kings!RevertBlock(n)
    <3>1. /\ kingHeight[n] > 0
          /\ kingHeight' = [kingHeight EXCEPT ![n] = @ - 1]
          /\ kingCovered' = [kingCovered EXCEPT ![n] = @ \ {kingHeight[n]}]
          /\ kingPassed' = [kingPassed EXCEPT ![n] = @ \cup {kingHeight[n]}]
          /\ UNCHANGED <<kingEvents, kingLocal, kingSynced>>
      BY <2>3 DEF Kings!RevertBlock
    <3>2. kingHeight[n] - 1 \in Nat
      BY <1>2, <3>1
    <3>3. HistoryTypeOK'
      BY <1>1, <1>2, <3>1, <3>2 DEF HistoryOK, HistoryTypeOK
    <3>4. \A n2 \in KingNodes : Account(n2) \subseteq Account(n2)'
      BY <1>2, <3>1 DEF Account
    <3>5. ASSUME NEW n2 \in KingNodes, NEW h \in kingLocal'[n2]
          PROVE  (kingHeight'[n2] + 1)..h \subseteq kingPassed'[n2]
      <4>1. /\ kingHeight[n2] \in Nat /\ h \in Nat /\ h \in kingLocal[n2]
            /\ (kingHeight[n2] + 1)..h \subseteq kingPassed[n2]
        BY <1>2, <3>1, <3>5 DEF TargetsOK
      <4>2. CASE n2 = n
        BY <1>2, <3>1, <4>1, <4>2
      <4>3. CASE n2 # n
        BY <1>2, <3>1, <4>1, <4>3
      <4> QED BY <4>2, <4>3
    <3>6. TargetsOK'
      BY <3>5 DEF TargetsOK
    <3> QED BY <1>2, <3>1, <3>3, <3>4, <3>6
  <2>4. CASE \E h \in kingLocal[n] : Kings!SyncBlocks(n, h)
    <3>1. PICK h \in kingLocal[n] : Kings!SyncBlocks(n, h)
      BY <2>4
    <3>2. h \in Nat
      BY <1>2
    <3> DEFINE walk == Kings!Walked(n, h)
    <3>3. PICK skipped \in SUBSET Kings!Due(n, h) :
            \E made \in SUBSET (Kings!Due(n, h) \ skipped) :
              /\ kingEvents' = [kingEvents EXCEPT ![n] = @ \cup made]
              /\ \/ UNCHANGED <<kingSynced, kingCovered, kingPassed>>
                 \/ /\ kingSynced' = [kingSynced EXCEPT ![n] = h]
                    /\ kingCovered' = [kingCovered EXCEPT ![n] = @ \cup (walk \ skipped)]
                    /\ kingPassed' = [kingPassed EXCEPT ![n] = @ \cup skipped]
      BY <3>1 DEF Kings!SyncBlocks, Kings!accountVars
    <3>4. PICK made \in SUBSET (Kings!Due(n, h) \ skipped) :
              /\ kingEvents' = [kingEvents EXCEPT ![n] = @ \cup made]
              /\ \/ UNCHANGED <<kingSynced, kingCovered, kingPassed>>
                 \/ /\ kingSynced' = [kingSynced EXCEPT ![n] = h]
                    /\ kingCovered' = [kingCovered EXCEPT ![n] = @ \cup (walk \ skipped)]
                    /\ kingPassed' = [kingPassed EXCEPT ![n] = @ \cup skipped]
      BY <3>3
    <3>5. /\ kingLocal' = [kingLocal EXCEPT ![n] = @ \ {h}]
          /\ kingHeight' = kingHeight
      BY <3>1 DEF Kings!SyncBlocks
    <3>6. walk \subseteq Nat /\ 1..h \subseteq walk \cup kingPassed[n]
      BY <1>2, <3>2 DEF Kings!Walked, Kings!Least, TargetsOK
    <3>7. Kings!Due(n, h) \subseteq Nat
      BY KingAssumption DEF Kings!Due
    <3> HIDE DEF walk
    <3>8. HistoryTypeOK'
      <4>1. made \subseteq Nat /\ skipped \subseteq Nat
        BY <3>7
      <4>2. kingEvents' \in [KingNodes -> SUBSET Nat]
        BY <3>4, <4>1 DEF HistoryOK, HistoryTypeOK
      <4>3. kingLocal' \in [KingNodes -> SUBSET Nat]
        BY <3>5 DEF HistoryOK, HistoryTypeOK
      <4>4. /\ kingSynced' \in [KingNodes -> Nat]
            /\ kingCovered' \in [KingNodes -> SUBSET Nat]
            /\ kingPassed' \in [KingNodes -> SUBSET Nat]
        BY <1>2, <3>2, <3>4, <3>6, <4>1
      <4> QED BY <1>1, <3>5, <4>2, <4>3, <4>4 DEF HistoryOK, HistoryTypeOK
    <3>11. TargetsOK'
      <4>1. \A n2 \in KingNodes : kingPassed[n2] \subseteq kingPassed'[n2]
        BY <1>2, <3>4
      <4>2. \A n2 \in KingNodes : kingLocal'[n2] \subseteq kingLocal[n2]
        BY <1>2, <3>5
      <4> QED BY <1>2, <3>5, <4>1, <4>2 DEF TargetsOK
    <3>9. CASE UNCHANGED <<kingSynced, kingCovered, kingPassed>>
      BY <3>8, <3>9, <3>11, SameHistory
    <3>10. CASE /\ kingSynced' = [kingSynced EXCEPT ![n] = h]
                /\ kingCovered' = [kingCovered EXCEPT ![n] = @ \cup (walk \ skipped)]
                /\ kingPassed' = [kingPassed EXCEPT ![n] = @ \cup skipped]
      <4>1. Account(n)' = Account(n) \cup walk \cup skipped
        BY <1>2, <3>10 DEF Account
      <4>2. \A n2 \in KingNodes \ {n} : Account(n2)' = Account(n2)
        BY <1>2, <3>10 DEF Account
      <4>3. /\ kingSynced'[n] = h
            /\ \A n2 \in KingNodes \ {n} : kingSynced'[n2] = kingSynced[n2]
        BY <1>2, <3>10
      <4>4. kingPassed[n] \subseteq Account(n)
        BY DEF Account
      <4> QED BY <1>2, <3>6, <3>8, <3>11, <4>1, <4>2, <4>3, <4>4
    <3> QED BY <3>4, <3>9, <3>10
  <2> QED BY <2>1, <2>2, <2>3, <2>4
<1>4. \A n2 \in KingNodes :
        \/ kingAttempt'[n2].at = "idle"
        \/ Begun(n2, kingAttempt'[n2].lo) /\ kingAttempt'[n2].peers # <<>>
  BY <1>1 DEF HistoryOK
<1>5. HistoryOK'
  BY <1>1, <1>3, <1>4, HistoryStep
<1> QED BY <1>1, <1>5, SameListsKept, SameLists

-----------------------------------------------------------------------------
(* The theorem. *)

LEMMA KingsStep ==
  ASSUME GossipInvariant, [Kings!Next]_(Kings!vars)
  PROVE  GossipInvariant' /\ ForgetsOnlyIf
<1>1. CASE UNCHANGED Kings!vars
  BY <1>1, QuietStep
<1>2. CASE \E m \in kingNet : Kings!Lose(m)
  BY <1>2, QuietStep
<1>3. ASSUME NEW n \in KingNodes,
             \/ Kings!Broadcast(n) \/ Kings!EnsureBroadcast(n)
             \/ Kings!TriggerEmergencyConfigSync(n)
             \/ Kings!HealthCheckRotatingKingConfig(n)
             \/ Kings!CheckBegin(n) \/ Kings!CheckEnd(n) \/ Kings!WaitToWrite(n)
      PROVE  GossipInvariant' /\ ForgetsOnlyIf
  BY <1>3, QuietStep
<1>4. ASSUME NEW n \in KingNodes, Kings!Receive(n)
      PROVE  GossipInvariant' /\ ForgetsOnlyIf
  BY <1>4, KingTopicStep DEF Kings!Receive
<1>5. ASSUME NEW n \in KingNodes, NEW t \in Kings!Threads, Kings!Work(n, t)
      PROVE  GossipInvariant' /\ ForgetsOnlyIf
  BY <1>5, WorkStep
<1>6. ASSUME NEW n \in KingNodes, Kings!CompareAndSync(n)
      PROVE  GossipInvariant' /\ ForgetsOnlyIf
  BY <1>6, CompareStep
<1>7. ASSUME NEW n \in KingNodes,
             Kings!ApplyEmergencyDefault(n) \/ Kings!TriggerConfigurationSync(n)
      PROVE  GossipInvariant' /\ ForgetsOnlyIf
  BY <1>7, EmergencyStep
<1>8. ASSUME NEW n \in KingNodes, Kings!PerformDBSync(n) \/ Kings!WaitEnds(n)
      PROVE  GossipInvariant' /\ ForgetsOnlyIf
  BY <1>8, AttemptStep
<1>9. ASSUME NEW n \in KingNodes, Kings!Answer(n)
      PROVE  GossipInvariant' /\ ForgetsOnlyIf
  BY <1>9, RequestStep, ResponseStep DEF Kings!Answer
<1>10. ASSUME NEW n \in KingNodes,
              \/ Kings!AcceptBlock(n) \/ Kings!RevertBlock(n)
              \/ Kings!StartPeriodicRotatingKingSync(n)
              \/ \E h \in kingLocal[n] : Kings!SyncBlocks(n, h)
       PROVE  GossipInvariant' /\ ForgetsOnlyIf
  BY <1>10, HeightStep
<1>11. ASSUME NEW n \in KingNodes, Kings!CleanupIneligibleKings(n)
       PROVE  GossipInvariant' /\ ForgetsOnlyIf
  BY <1>11, CleanupStep
<1>12. CASE Kings!Next
  BY <1>2, <1>3, <1>4, <1>5, <1>6, <1>7, <1>8, <1>9, <1>10, <1>11, <1>12
     DEF Kings!Next, Kings!Check
<1> QED BY <1>1, <1>12

\* mergeAddressLists, applyKingConfiguration and CompareAndSyncKingLists forget a
\* king only if they take a longer list or install one that was computed from a
\* list that has changed since; LastSyncedBlock stands above a block whose rotations
\* neither SyncBlocks nor an answer has synced only if that block was taken back or
\* skipped, the answering peer did not have it, or it could not be stored.
THEOREM KingsLostForKnownCauses == Kings!Spec => KingsLostKnown
<1>1. Kings!Init => GossipInvariant
  BY KingsInit
<1>2. GossipInvariant /\ [Kings!Next]_(Kings!vars) => GossipInvariant'
  BY KingsStep
<1>3. GossipInvariant /\ [Kings!Next]_(Kings!vars) =>
        [\A n \in KingNodes :
           Kings!KingsIn(kingList[n]) \subseteq Kings!KingsIn(kingList'[n])
             \/ Len(kingList'[n]) > Len(kingList[n])
             \/ (\E t \in Kings!Threads : Kings!StaleInstall(n, t))
             \/ (\E t \in {"emergency", "check"} : kingTodo'[n][t] # kingTodo[n][t])
             \/ Kings!CleanupIneligibleKings(n)]_(Kings!vars)
  BY KingsStep DEF ForgetsOnlyIf
<1>4. GossipInvariant /\ [Kings!Next]_(Kings!vars) =>
        [\A n \in KingNodes :
           1..kingSynced'[n] \subseteq kingCovered'[n] \cup kingPassed'[n]]_(Kings!vars)
  BY KingsStep DEF GossipInvariant, HistoryOK, Account
<1> QED
  BY <1>1, <1>2, <1>3, <1>4, PTL
     DEF Kings!Spec, KingsLostKnown, Kings!KingForgottenOnlyIf, Kings!NoBlockPassedOver

-----------------------------------------------------------------------------
(* Connections. *)

LinkInvariant ==
  /\ linkPeers \subseteq LinkPeers /\ linkCount \in Nat
  /\ Links!BannedLeave

LEMMA SameCount == \A S : Links!Cardinality(S) = Cardinality(S)
  BY Zenon DEF Links!Cardinality, Cardinality

LEMMA SomeAreLeft ==
  ASSUME NEW S \in SUBSET LinkPeers, S # {}, NEW k \in Int,
         NEW T \in SUBSET S, Cardinality(S) > k, Cardinality(T) = Cardinality(S) - k
  PROVE  T # {}
<1>1. IsFiniteSet(S)
  BY LinkAssumption, FS_Subset DEF LinkAssumption
<1>2. Cardinality(S) \in Nat
  BY <1>1, FS_CardinalityType
<1> QED BY <1>2, FS_EmptySet

LEMMA LinksStep ==
  ASSUME LinkInvariant, [Links!Next]_(Links!vars)
  PROVE  /\ LinkInvariant'
         /\ Links!PruneConnections /\ linkPeers # {} => linkPeers' # {}
<1> USE DEF LinkInvariant, Links!BannedLeave
<1>0. Links!PruneConnections /\ linkPeers # {} => linkPeers' # {}
  <2> SUFFICES ASSUME Links!PruneConnections, linkPeers # {} PROVE linkPeers' # {}
    OBVIOUS
  <2>1. linkCount - LinkMaxPeers \in Int
    BY LinkAssumption DEF LinkAssumption
  <2>2. CASE UNCHANGED linkPeers
    BY <2>2
  <2>3. CASE ~UNCHANGED linkPeers
    <3>1. /\ Cardinality(linkPeers) > linkCount - LinkMaxPeers
          /\ linkPeers' \in SUBSET linkPeers
          /\ Cardinality(linkPeers') =
               Cardinality(linkPeers) - (linkCount - LinkMaxPeers)
      BY <2>3, SameCount DEF Links!PruneConnections, Links!CloseExcess
    <3> QED BY <2>1, <3>1, SomeAreLeft
  <2> QED BY <2>2, <2>3
<1> SUFFICES LinkInvariant'
  BY <1>0
<1>1. CASE UNCHANGED Links!vars
  BY <1>1 DEF Links!vars, Links!banVars, Links!managerVars
<1>2. CASE Links!Tick
  <2>1. IsFiniteSet(linkPeers)
    BY LinkAssumption, FS_Subset DEF LinkAssumption
  <2>2. linkCount' \in Nat
    BY <1>2, <2>1, SameCount, FS_CardinalityType DEF Links!Tick
  <2> QED BY <1>2, <2>2 DEF Links!Tick, Links!banVars
<1>3. CASE \/ Links!ForceBootstrap \/ Links!ForceEnds \/ Links!CheckPeers
           \/ Links!BootstrapEnds \/ Links!SixtySeconds
  BY <1>3 DEF Links!ForceBootstrap, Links!ForceEnds, Links!CheckPeers,
     Links!BootstrapEnds, Links!SixtySeconds, Links!banVars
<1>4. CASE Links!PruneConnections
  <2>1. linkPeers' \subseteq linkPeers
    BY <1>4, Zenon DEF Links!PruneConnections, Links!CloseExcess
  <2> QED BY <1>4, <2>1 DEF Links!PruneConnections, Links!banVars
<1>5. ASSUME NEW p \in LinkPeers,
             \/ Links!BootstrapDial(p) \/ Links!DiscoveredDial(p) \/ Links!Inbound(p)
      PROVE  LinkInvariant'
  BY <1>5 DEF Links!BootstrapDial, Links!DiscoveredDial, Links!Inbound,
     Links!DialEnds, Links!Connect, Links!banVars, Links!managerVars
<1>6. ASSUME NEW p \in LinkPeers, Links!HandlePeerConnected(p) \/ Links!CloseBanned(p)
      PROVE  LinkInvariant'
  BY <1>6 DEF Links!HandlePeerConnected, Links!CloseIfBanned, Links!CloseBanned,
     Links!banVars, Links!managerVars
<1>7. ASSUME NEW p \in LinkPeers,
             \/ Links!HandlePeerFound(p) \/ Links!StartDHTDiscovery(p)
             \/ Links!BanPeer(p) \/ Links!CleanupExpiredBans(p)
             \/ Links!Lose(p) \/ Links!ComeOrGo(p)
      PROVE  LinkInvariant'
  BY <1>7 DEF Links!HandlePeerFound, Links!StartDHTDiscovery,
     Links!ConnectDiscoveredPeer, Links!BanPeer, Links!CleanupExpiredBans,
     Links!Lose, Links!ComeOrGo, Links!banVars, Links!managerVars
<1>8. CASE Links!Next
  BY <1>2, <1>3, <1>4, <1>5, <1>6, <1>7, <1>8
     DEF Links!Next, Links!Manager, Links!Served
<1> QED BY <1>1, <1>8

\* The safety of LinksHold.  Whenever a banned peer is connected, by a dial that
\* was under way, by the list of bootstrap peers or by itself, a goroutine of
\* BanPeer or handlePeerConnected has still to close it; and pruneConnections,
\* which reckons with a count that it read earlier, never closes all there are.
THEOREM BannedPeersLeave == Links!Spec => []Links!BannedLeave /\ Links!PruningKeepsOne
<1>1. Links!Init => LinkInvariant
  BY DEF Links!Init, LinkInvariant, Links!BannedLeave
<1>2. LinkInvariant /\ [Links!Next]_(Links!vars) => LinkInvariant'
  BY LinksStep
<1>3. LinkInvariant /\ [Links!Next]_(Links!vars) =>
        [Links!PruneConnections /\ linkPeers # {} => linkPeers' # {}]_(Links!vars)
  BY LinksStep
<1>4. LinkInvariant => Links!BannedLeave
  BY DEF LinkInvariant
<1> QED
  BY <1>1, <1>2, <1>3, <1>4, PTL DEF Links!Spec, Links!PruningKeepsOne

=============================================================================
