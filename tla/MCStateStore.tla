---------------------------- MODULE MCStateStore ----------------------------
(* StateStore for TLC: the daemon alone, or the daemon and one CLI command. *)
EXTENDS StateStore

ASSUME BoundAssumption == Cardinality(Name) \in 1 .. 2 /\ Cardinality(Proc) \in 1 .. 2
=============================================================================
