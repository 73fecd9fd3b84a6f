------------------------ MODULE MCPositionTracking --------------------------
(***************************************************************************)
(* A small instance of PositionTracking.                                   *)
(***************************************************************************)
EXTENDS PositionTracking, TLC

CONSTANTS loop, worker

TwoCoins == 1..2
=============================================================================
