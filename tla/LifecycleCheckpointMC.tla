----------------------- MODULE LifecycleCheckpointMC ------------------------
(* Two builds, pages of two rows, a lookback of three ticks, four units. *)
EXTENDS LifecycleCheckpoint

CONSTANTS b1, b2
=============================================================================
