--------------------------- MODULE StartAllowance ---------------------------
(***************************************************************************)
(* What scripts/vllm/buildkite_request_guard.py promises: the processes of *)
(* one job start at most Allowance transports between them, one at a time, *)
(* and none before the job was granted an attempt.                         *)
(***************************************************************************)
EXTENDS Naturals

CONSTANT Allowance

VARIABLES granted, starts

Init == granted = FALSE /\ starts = 0
Grant == granted' = TRUE /\ starts' = starts
Start == granted /\ starts < Allowance /\ starts' = starts + 1 /\ granted' = granted
Next == Grant \/ Start
Spec == Init /\ [][Next]_<<granted, starts>>
=============================================================================
