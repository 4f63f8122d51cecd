-------------------------- MODULE DashboardStateMC --------------------------
(* Two overlapping canonical runs on a small pool of state commits. *)
EXTENDS DashboardState

CONSTANTS r1, r2, f1, f2, f3, f4, m1, x1

\* f: fully valid; m: metadata only; x: corrupt.
MCFull == {f1, f2, f3, f4}
MCProven == MCFull \cup {m1}
MCCommit == MCProven \cup {x1}
=============================================================================
