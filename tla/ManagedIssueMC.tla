--------------------------- MODULE ManagedIssueMC ---------------------------
(* Two signals, one of them with two versions of its evidence. *)
EXTENDS ManagedIssue

CONSTANTS f1, f2, c1, c2

MCAlert == {[fp |-> f1, content |-> c1], [fp |-> f1, content |-> c2],
            [fp |-> f2, content |-> c1]}
=============================================================================
