--------------------------- MODULE AttemptBudgetMC --------------------------
(* Two runs and two seeds on a four-tick window. *)
EXTENDS AttemptBudget

SeedRow(i, t, s) ==
    [id |-> i, at |-> t, source |-> "legacy", succeeded |-> s,
     evidence |-> IF s = NoTime THEN NoEvidence ELSE <<"seed">>]

MCEvidence == {<<"seed">>, <<"state">>}
MCSeedFile == {{SeedRow(11, 0, NoTime)},
               {SeedRow(11, 0, NoTime), SeedRow(12, 1, 1)}}
=============================================================================
