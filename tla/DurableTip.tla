----------------------------- MODULE DurableTip -----------------------------
(***************************************************************************)
(* What the chain store promises across crashes: the tip a node would      *)
(* start from moves in whole blocks.  A commit puts one block on top of    *)
(* some block of the chain that was there; a truncation goes back along    *)
(* it; nothing else moves it.                                              *)
(***************************************************************************)
EXTENDS BlockTree

VARIABLE tip   \* the tip a restart finds; NoBlock before the first start

\* b and its ancestors.
Chain(b) ==
  IF b = NoBlock THEN {} ELSE {Ancestor(b, k) : k \in 0..Height(b)}

Init == tip = NoBlock

Create == tip = NoBlock /\ tip' = Genesis

Commit ==
  \E b \in Blocks : Parent(b) \in Chain(tip) /\ tip' = b

Truncate ==
  \E b \in Chain(tip) : tip' = b

Next == Create \/ Commit \/ Truncate

Spec == Init /\ [][Next]_tip

=============================================================================
