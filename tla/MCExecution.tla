----------------------------- MODULE MCExecution -----------------------------
(***************************************************************************)
(* Transactions for model checking Execution: the main king m pays a and b *)
(* and they pay on.                                                        *)
(***************************************************************************)
EXTENDS Execution

Pay(from, to, value, number, fee) ==
  [from |-> from, to |-> to, value |-> value, nonce |-> number, fee |-> fee,
   data |-> FALSE]

\* The second payment of m offers more than its first, those of a cost more
\* than a has together, b spends what it earned by mining the fee of m, and one
\* payment funds the address of all zeroes.
MCTx ==
  [m0 |-> Pay("m", "a", 12, 0, 5), m1 |-> Pay("m", "b", 3, 1, 6),
   a0 |-> Pay("a", "b", 5, 0, 7), a1 |-> Pay("a", "a", 6, 1, 3),
   b0 |-> Pay("b", "m", 2, 0, 1), z0 |-> Pay("m", "0", 2, 0, 1),
   d0 |-> [Pay("m", "b", 3, 1, 2) EXCEPT !.data = TRUE]]

MCPlans ==
  {[txs |-> {"m0", "a0", "a1"}, miners |-> {"b"}],
   [txs |-> {"m0", "m1", "a0"}, miners |-> {"a"}],
   [txs |-> {"m0", "b0"}, miners |-> {"b"}],
   [txs |-> {"z0", "d0"}, miners |-> {"a", "b"}]}

MCKings == <<"a", "b">>

=============================================================================
