----------------------------- MODULE MCRuntime -----------------------------
(***************************************************************************)
(* Bounds for Runtime: the database may miss two attempts and two updates  *)
(* may wait, so that one is handled while stop waits for the other.        *)
(***************************************************************************)
EXTENDS Runtime
=============================================================================
