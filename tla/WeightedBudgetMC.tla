-------------------------- MODULE WeightedBudgetMC --------------------------
(* Two jobs, weights of 1 and 2, and telemetry below and above the cap. *)
EXTENDS WeightedBudget

MCWeight == [metrics |-> 1, details |-> 2, scan |-> 2]
MCInterval == [metrics |-> 1, details |-> 2, scan |-> 0]

Seed(i, t, n) == [id |-> i, kind |-> "legacy_seed", at |-> t, starts |-> n]
MCSeedFile == {{Seed(11, 0, 5)}, {Seed(11, 0, 1), Seed(12, 1, 1)}}
=============================================================================
