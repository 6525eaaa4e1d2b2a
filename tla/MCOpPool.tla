------------------------------ MODULE MCOpPool ------------------------------
(* Instances of OpPool for TLC.                                            *)
EXTENDS OpPool, TLC

Symmetry == Permutations(Threads) \union Permutations(Procs)
              \union Permutations(Handles)
=============================================================================
