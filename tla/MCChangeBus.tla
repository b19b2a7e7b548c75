---------------------------- MODULE MCChangeBus ----------------------------
(* Instances of ChangeBus for TLC. *)
EXTENDS ChangeBus, TLC

CONSTANTS t1, t2, v1, v2, v3
=============================================================================
