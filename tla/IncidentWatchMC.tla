--------------------------- MODULE IncidentWatchMC --------------------------
(* Three builds are enough for a pending, a confirmed and a late one; one    *)
(* retry makes any of them finish again.                                     *)
EXTENDS IncidentWatch
=============================================================================
