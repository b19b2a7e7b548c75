---------------------------- MODULE MCBrokerLocks ----------------------------
(* Instances of BrokerLocks for TLC: every operation in any task. *)
EXTENDS BrokerLocks, TLC

CONSTANTS t1, t2, t3

AllOperations == DOMAIN Program
Symmetry == Permutations(Task)
=============================================================================
