------------------------ MODULE PublicationRecoveryMC ------------------------
(***************************************************************************)
(* PublicationRecovery with generations of the queue data that never stop. *)
(* What a step does depends only on which of two generations is the newer, *)
(* so all of them may be counted from the oldest one in use: MaxGen then   *)
(* bounds how far the generations in use lie apart, not how many there are.*)
(***************************************************************************)
EXTENDS PublicationRecovery, FiniteSetsExt

QueueRuns(rows) == {r \in rows : r.phase # "none" /\ r.key.reason = "queue"}

\* The generations that somebody still holds.
InUse ==
    {durable, state.queue, pages.queue} \cup monitor
    \cup (IF lease = Free THEN {} ELSE {lease.queue})
    \cup {r.key.target : r \in QueueRuns(ended \cup {pending["queue"], active["queue"]})}

Rebase ==
    LET low == Min(InUse)
        Down(r) == IF r \in QueueRuns({r}) THEN [r EXCEPT !.key.target = @ - low] ELSE r
    IN  /\ low > 0
        /\ durable' = durable - low
        /\ state' = [state EXCEPT !.queue = @ - low]
        /\ pages' = [pages EXCEPT !.queue = @ - low]
        /\ monitor' = {g - low : g \in monitor}
        /\ lease' = IF lease = Free THEN Free ELSE [lease EXCEPT !.queue = @ - low]
        /\ pending' = [k \in Kind |-> Down(pending[k])]
        /\ active' = [k \in Kind |-> Down(active[k])]
        /\ ended' = {Down(r) : r \in ended}
        /\ UNCHANGED <<late, due, line, upsets>>

RebasedNext == RecoveryNext \/ Rebase

RebasedSpec == RecoveryInit /\ [][RebasedNext]_recoveryVars /\ RecoveryFairness
=============================================================================
