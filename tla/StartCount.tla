----------------------------- MODULE StartCount -----------------------------
(***************************************************************************)
(* The weight of a set of reservations: the sum of their request starts,   *)
(* as the number of starts they allow.  (A sum that proofs can count.)     *)
(***************************************************************************)
EXTENDS Integers, FiniteSets

CONSTANT MaxStarts  \* no reservation has more: max_legacy_seed_request_starts

Units(S) == {p \in S \X (1..MaxStarts) : p[2] <= p[1].starts}
Starts(S) == Cardinality(Units(S))
=============================================================================
