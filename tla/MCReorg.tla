------------------------------ MODULE MCReorg ------------------------------
(***************************************************************************)
(* Block trees for model checking ReorgManager.  The name of a block gives *)
(* its branch and its height; a tree is chosen by the set of names.        *)
(***************************************************************************)
EXTENDS ReorgInvariant, TLC

AllPaths ==
  [A1 |-> <<"A1">>, A2 |-> <<"A1", "A2">>, A3 |-> <<"A1", "A2", "A3">>,
   A4 |-> <<"A1", "A2", "A3", "A4">>,
   B1 |-> <<"B1">>, B2 |-> <<"A1", "B2">>, B3 |-> <<"A1", "B2", "B3">>,
   D2 |-> <<"A1", "D2">>,
   C2 |-> <<"A1", "C2">>, C3 |-> <<"A1", "C2", "C3">>]

MCPath == [b \in Blocks |-> AllPaths[b]]

\* B2 outweighs A2, and C2 outweighs B2 and A2 to A4 together; B2 with B3
\* outweighs C2, and C2 with C3 outweighs B2 with B3.  A1 with D2 outweighs B1,
\* and lies within a margin of 1.
Weights ==
  [A1 |-> 1, A2 |-> 1, A3 |-> 1, A4 |-> 1, B1 |-> 2, B2 |-> 2, B3 |-> 3, C2 |-> 4,
   C3 |-> 2, D2 |-> 2]

MCDifficulty == [b \in Blocks |-> Weights[b]]

Ranks ==
  [A1 |-> 3, A2 |-> 3, A3 |-> 3, A4 |-> 3, B1 |-> 2, B2 |-> 2, B3 |-> 2, C2 |-> 1,
   C3 |-> 1, D2 |-> 3]

MCRank == [b \in Blocks |-> Ranks[b]]

\* Every block leads to a state of its own.
DistinctRoots == [b \in Blocks |-> b]

\* A1 and B1 are empty blocks of one miner: they lead to the same state.
SharedRoots == [b \in Blocks |-> IF b = "B1" THEN "A1" ELSE b]

\* The submitters run the same code.
SubmitterSymmetry == Permutations(Submitters)

=============================================================================
