--------------------------- MODULE MCEmitPipeline ---------------------------
(***************************************************************************)
(* Small instances of EmitPipeline.  Two observations share a cooldown key *)
(* (two fills of one whale) in SharedCooldown; in OwnCooldown each has its *)
(* own.                                                                    *)
(***************************************************************************)
EXTENDS EmitPipeline, TLC

SharedCooldown == [k \in Keys |-> CHOOSE c \in CoolKeys : TRUE]

OwnCooldown ==
  CHOOSE f \in [Keys -> CoolKeys] : \A j, k \in Keys : f[j] = f[k] => j = k

\* Emitters are interchangeable, and so are observations of one cooldown key.
Symmetry == Permutations(Emitters) \cup Permutations(Keys)
=============================================================================
