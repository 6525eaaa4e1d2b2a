----------------------------- MODULE MCWrapper ------------------------------
(* The instance of Wrapper with every routine, strings with blanks in every  *)
(* place and words with a leading blank or nothing else.                     *)
EXTENDS Wrapper

MCRoutines == WrapperRoutines
MCStrings == UNION {[1 .. n -> {Blank, "a"}] : n \in 0 .. 3}
MCWords == {<<Blank, "a">>, <<Blank, Blank>>}
=============================================================================
