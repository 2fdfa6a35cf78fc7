---------------------------- MODULE MCServiceBus ----------------------------
(* The values of ServiceBus's constants for TLC come from the .cfg files. *)
EXTENDS ServiceBus

ASSUME BoundAssumption == MaxSec >= 2 /\ Cardinality(Subscriptions) <= 2
=============================================================================
