--------------------------- MODULE MCAttrRegistry ---------------------------
(* Instances of AttrRegistry for TLC.                                      *)
EXTENDS AttrRegistry, TLC

Symmetry == Permutations(Threads) \union Permutations(Procs)
=============================================================================
