------------------------------ MODULE MCStore ------------------------------
(***************************************************************************)
(* Block trees for model checking ChainStore, named as in MCReorg.         *)
(***************************************************************************)
EXTENDS StoreInvariant

AllPaths ==
  [A1 |-> <<"A1">>, A2 |-> <<"A1", "A2">>, A3 |-> <<"A1", "A2", "A3">>,
   A4 |-> <<"A1", "A2", "A3", "A4">>,
   A5 |-> <<"A1", "A2", "A3", "A4", "A5">>,
   B2 |-> <<"A1", "B2">>, B3 |-> <<"A1", "B2", "B3">>,
   B4 |-> <<"A1", "B2", "B3", "B4">>,
   C3 |-> <<"A1", "A2", "C3">>, C4 |-> <<"A1", "A2", "C3", "C4">>]

MCPath == [b \in Blocks |-> AllPaths[b]]
MCDifficulty == [b \in Blocks |-> 1]
MCRank == [b \in Blocks |-> 1]
DistinctRoots == [b \in Blocks |-> b]

=============================================================================
