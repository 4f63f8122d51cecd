-------------------------- MODULE HourlyIncidentMC -------------------------
(* A broad signal and one of the queue alone; the DNS runs never fit.  Two *)
(* issues are enough for a canonical one beside history, three actions of  *)
(* people for an issue closed, opened and closed again within one run.      *)
EXTENDS HourlyIncident
=============================================================================
