--------------------------- MODULE MC_IncidentSwitch ---------------------------
(***************************************************************************)
(* Small instances of IncidentSwitch: a device and two incidents.          *)
(***************************************************************************)
EXTENDS IncidentSwitch, TLC

CONSTANTS i1, i2

Incidents == Permutations(Incident)
=============================================================================
