---------------------------- MODULE MCFeedControl ----------------------------
(***************************************************************************)
(* Small instances of FeedControl.                                         *)
(***************************************************************************)
EXTENDS FeedControl, TLC

Symmetry == Permutations(Wallets)
=============================================================================
