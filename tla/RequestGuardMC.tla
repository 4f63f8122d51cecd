--------------------------- MODULE RequestGuardMC ---------------------------
(* Three processes, one of them with hidden retries, share a small allowance. *)
EXTENDS RequestGuard

CONSTANTS p1, p2, p3
=============================================================================
