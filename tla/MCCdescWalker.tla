--------------------------- MODULE MCCdescWalker ----------------------------
(* Instances of CdescWalker for TLC.                                       *)
EXTENDS CdescWalker

\* Bytes: an element, its reverse, gaps, and the row pitch of a padded array.
SignedStrides == {-4, 2, 4, 8}
=============================================================================
