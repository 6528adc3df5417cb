------------------------------ MODULE TxGossip ------------------------------
(***************************************************************************)
(* The way of the transactions of one sender through the network: the      *)
(* console and the RPC that submit them, gossip, the direct pushes and the *)
(* periodic rebroadcast, and the blocks that take them.                    *)
(*                                                                         *)
(* A node's pool admits what TxPool's Admissible does; limits of its size  *)
(* are far.  Messages are lost when a limit of rates, of a buffer or of a  *)
(* stream is met; what overtakes what is open, since every message has a   *)
(* goroutine of its own.  The blocks form one chain.                       *)
(***************************************************************************)
EXTENDS Integers, Sequences, FiniteSets

CONSTANTS
  Nodes,
  Txs,
  Plans        \* see plan

VARIABLES
  plan,        \* the nonces of the transactions, where they are submitted,
               \* who mines, and whether messages are lost
  unsent,      \* what is still to be submitted at each node
  pool,
  marks,       \* knownTxs: how old each mark is
  inbox,       \* transactions under way to each node, by topic or push
  nonce,       \* the sender's next nonce in each node's state
  mined,       \* the chain's transactions
  refused      \* history: the pools that refused a transaction from a peer

netVars == <<marks, inbox, refused>>
chainVars == <<nonce, mined>>
vars == <<plan, unsent, pool, netVars, chainVars>>

Others(n) == Nodes \ {n}

Init ==
  /\ plan \in Plans
  /\ unsent = plan.sends
  /\ pool = [n \in Nodes |-> {}]
  /\ marks = [n \in Nodes |-> [t \in Txs |-> "none"]]
  /\ inbox = [n \in Nodes |-> {}]
  /\ nonce = [n \in Nodes |-> 0]
  /\ mined = <<>>
  /\ refused = {}

\* AddTx
Admissible(n, pending, t) ==
  /\ t \notin pending
  /\ IF \E u \in pending : plan.nonce[u] >= nonce[n]
       THEN \E u \in pending : /\ plan.nonce[t] = plan.nonce[u] + 1
                               /\ \A v \in pending : plan.nonce[v] <= plan.nonce[u]
       ELSE plan.nonce[t] = nonce[n]

\* Published to the topic, and pushed to every peer.
Sent(n, t) ==
  [p \in Nodes |-> IF p = n THEN inbox[p] ELSE inbox[p] \cup {t}]

Marked(n, t, age) == [marks EXCEPT ![n][t] = age]

-----------------------------------------------------------------------------
\* Submission

\* handleSend, SendRawTransaction
Submit(n, t) ==
  /\ t \in unsent[n]
  /\ unsent' = [unsent EXCEPT ![n] = @ \ {t}]
  /\ IF Admissible(n, pool[n], t)
       THEN /\ pool' = [pool EXCEPT ![n] = @ \cup {t}]
            /\ inbox' = Sent(n, t)
            /\ marks' = Marked(n, t, "recent")
       ELSE UNCHANGED <<pool, inbox, marks>>
  /\ UNCHANGED <<plan, refused, chainVars>>

\* handleSend with "replace": the old transaction is gone even if the pool
\* refuses the new one, as it does when others follow the old one.
Replace(n, t, old) ==
  /\ t \in unsent[n]
  /\ old \in pool[n] /\ plan.nonce[old] = nonce[n] /\ plan.nonce[t] = plan.nonce[old]
  /\ unsent' = [unsent EXCEPT ![n] = @ \ {t}]
  /\ IF Admissible(n, pool[n] \ {old}, t)
       THEN /\ pool' = [pool EXCEPT ![n] = (@ \ {old}) \cup {t}]
            /\ inbox' = Sent(n, t)
            /\ marks' = Marked(n, t, "recent")
       ELSE /\ pool' = [pool EXCEPT ![n] = @ \ {old}]
            /\ UNCHANGED <<inbox, marks>>
  /\ UNCHANGED <<plan, refused, chainVars>>

\* Mutant: a mark never grows old for its own broadcaster.
NotMarked(n, t) == marks[n][t] = "none"

NotRecent(n, t) == marks[n][t] # "recent"

\* BroadcastTx of a pending transaction, every twenty seconds or from the
\* console, and cleanupKnownTxs.
BroadcastTx(n, t) ==
  /\ t \in pool[n] /\ NotRecent(n, t)
  /\ inbox' = Sent(n, t)
  /\ marks' = [marks EXCEPT ![n] =
                 [u \in Txs |-> IF u = t THEN "recent"
                                ELSE IF @[u] = "stale" THEN "none" ELSE @[u]]]
  /\ UNCHANGED <<plan, unsent, pool, refused, chainVars>>

-----------------------------------------------------------------------------
\* Reception

\* BroadcastTxForce passes on what has been taken in, whatever its mark.
BroadcastTxForce(n, t) == [Sent(n, t) EXCEPT ![n] = @ \ {t}]

\* processIncomingTx, of a message or of a push: without a mark the transaction
\* goes to the pool, is marked whatever the pool says, and is passed on if it
\* was new.  Of two copies that both see no mark the
\* pool takes one, as if the other came later.
ProcessIncoming(n, t) ==
  LET added == Admissible(n, pool[n], t)
      rest == [inbox EXCEPT ![n] = @ \ {t}]
  IN  /\ t \in inbox[n]
      /\ IF marks[n][t] # "none" THEN inbox' = rest /\ UNCHANGED <<pool, marks, refused>>
         ELSE /\ marks' = Marked(n, t, "recent")
              /\ pool' = IF added THEN [pool EXCEPT ![n] = @ \cup {t}] ELSE pool
              /\ inbox' = IF added THEN BroadcastTxForce(n, t) ELSE rest
              /\ refused' = IF added \/ t \in pool[n] THEN refused
                            ELSE refused \cup {<<n, t>>}
      /\ UNCHANGED <<plan, unsent, chainVars>>

Lose(n, t) ==
  /\ plan.lossy
  /\ t \in inbox[n]
  /\ inbox' = [inbox EXCEPT ![n] = @ \ {t}]
  /\ UNCHANGED <<plan, unsent, pool, marks, refused, chainVars>>

\* Thirty seconds, then five minutes.
Age(n, t) ==
  /\ marks[n][t] \in {"recent", "old"}
  /\ marks' = Marked(n, t, IF marks[n][t] = "recent" THEN "old" ELSE "stale")
  /\ UNCHANGED <<plan, unsent, pool, inbox, refused, chainVars>>

-----------------------------------------------------------------------------
\* Blocks

Mine(n, t) ==
  /\ n \in plan.miners
  /\ nonce[n] = Len(mined) /\ plan.nonce[t] = nonce[n]
  /\ t \in pool[n]
  /\ mined' = Append(mined, t)
  /\ nonce' = [nonce EXCEPT ![n] = @ + 1]
  /\ pool' = [pool EXCEPT ![n] = @ \ {t}]
  /\ UNCHANGED <<plan, unsent, netVars>>

ReceiveBlock(n) ==
  /\ nonce[n] < Len(mined)
  /\ pool' = [pool EXCEPT ![n] = @ \ {mined[nonce[n] + 1]}]
  /\ nonce' = [nonce EXCEPT ![n] = @ + 1]
  /\ UNCHANGED <<plan, unsent, netVars, mined>>

\* The pool's cleaner.
RemoveStale(n) ==
  /\ \E t \in pool[n] : plan.nonce[t] < nonce[n]
  /\ pool' = [pool EXCEPT ![n] = {t \in @ : plan.nonce[t] >= nonce[n]}]
  /\ UNCHANGED <<plan, unsent, netVars, chainVars>>

-----------------------------------------------------------------------------

Next ==
  \/ \E n \in Nodes, t \in Txs :
       \/ Submit(n, t) \/ BroadcastTx(n, t)
       \/ ProcessIncoming(n, t) \/ Lose(n, t)
       \/ Age(n, t) \/ Mine(n, t)
       \/ \E old \in Txs : Replace(n, t, old)
  \/ \E n \in Nodes : ReceiveBlock(n) \/ RemoveStale(n)

Spec == Init /\ [][Next]_vars

\* The rebroadcast ticker, the miners and time go on, and a message that is
\* sent again and again arrives.
Fairness ==
  \A n \in Nodes :
    /\ \A t \in Txs :
         /\ WF_vars(BroadcastTx(n, t)) /\ WF_vars(Age(n, t))
         /\ SF_vars(ProcessIncoming(n, t)) /\ WF_vars(Mine(n, t))
    /\ WF_vars(ReceiveBlock(n))

FairSpec == Spec /\ Fairness

-----------------------------------------------------------------------------
\* Properties

Settled(t) == Len(mined) > plan.nonce[t]

\* A transaction that stays in the pool of a node is in every pool or its
\* nonce is taken in the end, whatever is lost, unless a pool refused it.
SpreadsUnlessRefused ==
  \A n \in Nodes, t \in Txs :
    t \in pool[n] ~> \/ Settled(t) \/ t \notin pool[n]
                     \/ \E p \in Nodes : <<p, t>> \in refused
                     \/ \A p \in Nodes : t \in pool[p]

=============================================================================
