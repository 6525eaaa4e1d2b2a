--------------------------- MODULE MCCallbackBox ----------------------------
(* Instances of CallbackBox for TLC.                                       *)
EXTENDS CallbackBox, TLC

CONSTANTS p1, p2, p3

\* Two requests, and the roles of each, can be told apart by their procedures;
\* a datarep may have a predefined conversion.
MCGrequestFns ==
  {[query |-> p1, free |-> p2, cancel |-> p3],
   [query |-> p2, free |-> p3, cancel |-> p1]}
MCDatarepFns ==
  {[read |-> p1, write |-> p2, extent |-> p3],
   [read |-> p3, write |-> Predefined, extent |-> p1]}

Symmetry == Permutations(Threads) \union Permutations(Addrs)
              \union Permutations(Requests)
=============================================================================
