--------------------------- MODULE WeightedPermit ---------------------------
(***************************************************************************)
(* What scripts/vllm/queue_request_budget.py and dns_request_budget.py     *)
(* promise: a rolling permit that never forgets a charge.  A charge is a   *)
(* reservation of every kind of request a job asks for, each of its own    *)
(* weight.  With it the window that ends there holds at most Cap starts,   *)
(* legacy telemetry included; the last reservation of a kind lies          *)
(* Interval[kind] back, and one of the same attempt id a whole window.     *)
(***************************************************************************)
EXTENDS StartCount

CONSTANTS Run, Kind, Time, SeedFile, Window, Cap, Weight, Interval

VARIABLE charged

\* The reservations of the kinds that attempt r makes at time t.
Reservations(r, kinds, t) ==
    {[id |-> r, kind |-> k, at |-> t, starts |-> Weight[k]] : k \in kinds}

Account(seeds) == charged = {} /\ charged' = seeds

Charge(r, kinds, t) ==
    /\ kinds # {}
    /\ \A c \in charged : c.kind \in kinds => c.at + Interval[c.kind] <= t
    /\ \A c \in charged : c.id = r /\ c.kind \in kinds => c.at + Window <= t
    /\ Starts({c \in charged : c.at > t - Window} \cup Reservations(r, kinds, t)) <= Cap
    /\ charged' = charged \cup Reservations(r, kinds, t)

Init == charged = {}
Next ==
    \/ \E seeds \in SeedFile : Account(seeds)
    \/ \E r \in Run, kinds \in SUBSET Kind, t \in Time : Charge(r, kinds, t)
Spec == Init /\ [][Next]_charged
=============================================================================
