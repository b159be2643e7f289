-------------------------- MODULE MCIncidentGraph --------------------------
(* Instances of IncidentGraph for TLC. *)
EXTENDS IncidentGraph
============================================================================
