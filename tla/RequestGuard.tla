---------------------------- MODULE RequestGuard ----------------------------
(***************************************************************************)
(* The cross-process guard on Buildkite transports                         *)
(* (scripts/vllm/buildkite_request_guard.py).                              *)
(*                                                                         *)
(* A counter file is created once for the reserved attempt of a job.  Every *)
(* python process of the job patches requests.Session.send when it starts; *)
(* a send to a Buildkite host then takes an exclusive flock on the file,   *)
(* reads and validates it, writes the next count, syncs, drops the lock,   *)
(* and only then goes to the transport.  A process, or a thread of one,    *)
(* may die between any two of these steps.                                 *)
(***************************************************************************)
EXTENDS Naturals, FiniteSets

CONSTANTS
    Process,    \* processes and pool threads that share one guard file
    Hidden,     \* those whose adapters retry below Session.send
    Allowance,  \* request_start_allowance of the attempt
    Nobody,     \* the lock is free
    NoFile,     \* the counter file does not exist
    MaxCalls    \* BOUND: sends of one process

ASSUME GuardAssumption ==
    /\ IsFiniteSet(Process) /\ Hidden \subseteq Process
    /\ Allowance \in Nat /\ MaxCalls \in Nat
    /\ Nobody \notin Process /\ NoFile \notin Nat

VARIABLES
    file,     \* the count in the file, or NoFile
    holder,   \* who holds the exclusive flock
    pc,       \* pc[p]: what process p is doing
    seen,     \* seen[p]: the count p read under the lock
    calls,    \* calls[p]: sends of p so far
    starts,   \* transports started by all processes
    charges,  \* history: charges written since the file was created
    reported  \* the count the report step printed, or NoFile

vars == <<file, holder, pc, seen, calls, starts, charges, reported>>

Steps == {"down", "ready", "send", "locked", "read", "written", "charged", "dead"}

Init ==
    /\ file = NoFile /\ holder = Nobody
    /\ pc = [p \in Process |-> "down"]
    /\ seen = [p \in Process |-> 0] /\ calls = [p \in Process |-> 0]
    /\ starts = 0 /\ charges = 0 /\ reported = NoFile

Go(p, step) == pc' = [pc EXCEPT ![p] = step]

\* MUTANT of Create: the file of an earlier initialize is replaced.
CreateAnyway ==
    /\ holder = Nobody
    /\ file' = 0
    /\ UNCHANGED <<holder, pc, seen, calls, starts, charges, reported>>

\* initialize: O_CREAT with O_EXCL, then the canonical zero state.
Create ==
    /\ file = NoFile
    /\ file' = 0
    /\ UNCHANGED <<holder, pc, seen, calls, starts, charges, reported>>

\* install: read_count under a shared lock, or exit 78 before the body runs.
Install(p) ==
    /\ pc[p] = "down" /\ holder = Nobody
    /\ Go(p, IF file = NoFile THEN "dead" ELSE "ready")
    /\ UNCHANGED <<file, holder, seen, calls, starts, charges, reported>>

\* MUTANT of Send: the retry policy of the adapter is not looked at.
SendUnchecked(p) ==
    /\ pc[p] = "ready" /\ calls[p] < MaxCalls
    /\ calls' = [calls EXCEPT ![p] = @ + 1]
    /\ Go(p, "send")
    /\ UNCHANGED <<file, holder, seen, starts, charges, reported>>

\* guarded_send refuses an adapter with hidden retries, and charges any other.
Send(p) ==
    /\ pc[p] = "ready" /\ calls[p] < MaxCalls
    /\ calls' = [calls EXCEPT ![p] = @ + 1]
    /\ Go(p, IF p \in Hidden THEN "dead" ELSE "send")
    /\ UNCHANGED <<file, holder, seen, starts, charges, reported>>

\* MUTANT of Acquire: every process opens the file without locking it.
AcquireUnlocked(p) ==
    /\ pc[p] = "send"
    /\ holder' = p
    /\ Go(p, "locked")
    /\ UNCHANGED <<file, seen, calls, starts, charges, reported>>

\* _open_locked: flock(LOCK_EX) waits until nobody holds it.
Acquire(p) ==
    /\ pc[p] = "send" /\ holder = Nobody
    /\ holder' = p
    /\ Go(p, "locked")
    /\ UNCHANGED <<file, seen, calls, starts, charges, reported>>

\* Read and validate.
Read(p) ==
    /\ pc[p] = "locked"
    /\ seen' = [seen EXCEPT ![p] = file]
    /\ Go(p, "read")
    /\ UNCHANGED <<file, holder, calls, starts, charges, reported>>

\* The allowance check of consume.
Exhausted(n) == n >= Allowance

\* BuildkiteRequestAllowanceExhausted: the lock is dropped, nothing is sent.
Refuse(p) ==
    /\ pc[p] = "read" /\ Exhausted(seen[p])
    /\ holder' = Nobody
    /\ Go(p, "ready")
    /\ UNCHANGED <<file, seen, calls, starts, charges, reported>>

\* Write, truncate, flush and sync.
Write(p) ==
    /\ pc[p] = "read" /\ ~Exhausted(seen[p])
    /\ file' = seen[p] + 1
    /\ charges' = charges + 1
    /\ Go(p, "written")
    /\ UNCHANGED <<holder, seen, calls, starts, reported>>

\* MUTANT of Release: the lock file is kept open.
ReleaseNot(p) ==
    /\ pc[p] = "written"
    /\ Go(p, "charged")
    /\ UNCHANGED <<file, holder, seen, calls, starts, charges, reported>>

\* The handle is closed.
Release(p) ==
    /\ pc[p] = "written"
    /\ holder' = Nobody
    /\ Go(p, "charged")
    /\ UNCHANGED <<file, seen, calls, starts, charges, reported>>

\* The original Session.send.  A hidden retry is one more transport that comes
\* back here; a redirect hop re-enters guarded_send.
Transport(p) ==
    /\ pc[p] = "charged"
    /\ starts' = starts + 1
    /\ \/ Go(p, "ready") /\ UNCHANGED calls
       \/ /\ calls[p] < MaxCalls
          /\ calls' = [calls EXCEPT ![p] = @ + 1]
          /\ Go(p, IF p \in Hidden THEN "charged" ELSE "send")
    /\ UNCHANGED <<file, holder, seen, charges, reported>>

\* The process ends or is killed; the kernel drops its lock.
Die(p) ==
    /\ pc[p] \notin {"down", "dead"}
    /\ holder' = IF holder = p THEN Nobody ELSE holder
    /\ Go(p, "dead")
    /\ UNCHANGED <<file, seen, calls, starts, charges, reported>>

\* The report step of the workflow reads the count under a shared lock.
Report ==
    /\ file # NoFile /\ holder = Nobody
    /\ reported' = file
    /\ UNCHANGED <<file, holder, pc, seen, calls, starts, charges>>

Charging(p) == Acquire(p) \/ Read(p) \/ Refuse(p) \/ Write(p) \/ Release(p)

ProcessStep(p) ==
    Install(p) \/ Send(p) \/ Charging(p) \/ Transport(p) \/ Die(p)

Next == Create \/ Report \/ \E p \in Process : ProcessStep(p)

Spec == Init /\ [][Next]_vars

\* A live process runs, and a waiting flock is granted: every process makes
\* finitely many sends, so waiting for a free lock is enough.
FairSpec == Spec /\ \A p \in Process : WF_vars(Charging(p)) /\ WF_vars(Transport(p))

-----------------------------------------------------------------------------
Critical == {"locked", "read", "written"}

\* The processes that were charged for a transport they have not started.
Pending == {p \in Process : pc[p] \in {"written", "charged"}}

\* Type correctness; the counter in the file never passes the allowance.
TypeOK ==
    /\ file \in 0..Allowance \cup {NoFile}
    /\ holder \in Process \cup {Nobody}
    /\ pc \in [Process -> Steps]
    /\ seen \in [Process -> Nat] /\ calls \in [Process -> Nat]
    /\ starts \in Nat /\ charges \in Nat
    /\ reported \in 0..Allowance \cup {NoFile}

\* No charge is lost: the file holds exactly the number of charges written,
\* whatever processes interleave or die.
CountExact == IF file = NoFile THEN charges = 0 ELSE file = charges

\* Every transport, also one about to start, was charged before.
ChargedBefore == starts + Cardinality(Pending) <= charges

\* The count the job reports covers every transport started up to then.
ReportCovers == [][reported' # reported => reported' >= starts]_vars

\* The guard implements the start allowance of one granted attempt.
Allowed == INSTANCE StartAllowance WITH granted <- file # NoFile
AllowanceSpec == Allowed!Spec

\* A send that begins ends: it is transported, refused, or its process ends.
SendEnds == \A p \in Process : pc[p] = "send" ~> pc[p] \in {"ready", "dead"}
=============================================================================
