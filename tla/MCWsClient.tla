------------------------------ MODULE MCWsClient ------------------------------
(***************************************************************************)
(* A small instance of WsClient.                                           *)
(***************************************************************************)
EXTENDS WsClient, TLC

CONSTANTS btc, eth, loop, handler
=============================================================================
