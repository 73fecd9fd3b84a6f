-------------------------- MODULE MCOrderTracking ---------------------------
(***************************************************************************)
(* A small instance of OrderTracking.                                      *)
(***************************************************************************)
EXTENDS OrderTracking, TLC

CONSTANTS o1, o2

\* o1 can be filled in part; o2 cannot.
Placed == [o \in Oids |-> IF o = o1 THEN 3 ELSE 1]
=============================================================================
