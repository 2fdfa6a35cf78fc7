--------------------------- MODULE MCMessageQueue ---------------------------
(* The values of MessageQueue's constants for TLC come from the .cfg files. *)
EXTENDS MessageQueue

ASSUME BoundAssumption == MaxSec >= 1
=============================================================================
