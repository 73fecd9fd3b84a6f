--------------------------- MODULE MCRecipientCache ---------------------------
(***************************************************************************)
(* Small instances of RecipientCache.                                      *)
(***************************************************************************)
EXTENDS RecipientCache, TLC

Symmetry == Permutations(Users \ {Main})
=============================================================================
