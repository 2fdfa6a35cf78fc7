----------------------------- MODULE MCEventHub -----------------------------
(* The values of EventHub's constants for TLC come from the .cfg files. *)
EXTENDS EventHub

ASSUME EnoughAssumption == MaxPublish > Max(PageSizes) /\ MaxEpoch >= 2
=============================================================================
