---------------------------- MODULE RollingPermit ---------------------------
(***************************************************************************)
(* What scripts/vllm/request_bearing_attempt_budget.py promises: a rolling *)
(* permit counter that never forgets a charge.  A charge is made at a time *)
(* at least RetryInterval after every earlier one, at least Window after   *)
(* an earlier one of the same attempt id, and only when fewer than Cap     *)
(* charges lie in the window that ends at it.                              *)
(***************************************************************************)
EXTENDS Integers, FiniteSets

CONSTANTS Run, Time, Window, Cap, RetryInterval

VARIABLE charged

Charge(r, t) ==
    /\ \A c \in charged : c.at + RetryInterval <= t
    /\ \A c \in charged : c.id = r => c.at + Window <= t
    /\ Cardinality({c \in charged : c.at > t - Window}) < Cap
    /\ charged' = charged \cup {[id |-> r, at |-> t]}

Init == charged = {}
Next == \E r \in Run, t \in Time : Charge(r, t)
Spec == Init /\ [][Next]_charged
=============================================================================
