------------------------------ MODULE MCTxPool ------------------------------
(***************************************************************************)
(* Transactions for model checking TxPool: a sender's letter and a nonce;  *)
(* a0x is another transaction of a with nonce 0.                           *)
(***************************************************************************)
EXTENDS TxPool

MCFrom == [t \in Txs |-> IF t = "b0" THEN "b" ELSE "a"]

MCNonce == [t \in Txs |-> IF t = "a1" THEN 1 ELSE 0]

=============================================================================
