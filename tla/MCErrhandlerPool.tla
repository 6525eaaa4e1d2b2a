-------------------------- MODULE MCErrhandlerPool --------------------------
(* Instances of ErrhandlerPool for TLC.                                    *)
EXTENDS ErrhandlerPool, TLC

Symmetry == Permutations(Threads) \union Permutations(Procs)
              \union Permutations(Handles)
=============================================================================
