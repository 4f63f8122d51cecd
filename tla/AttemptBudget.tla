--------------------------- MODULE AttemptBudget ---------------------------
(***************************************************************************)
(* The ledger of request-bearing attempts                                  *)
(* (scripts/vllm/request_bearing_attempt_budget.py).                       *)
(*                                                                         *)
(* A git branch that holds one parentless commit with one file is the      *)
(* durable record of every attempt that was allowed to spend Buildkite     *)
(* requests during the last Window hours.  A command looks the branch up   *)
(* (ls-remote), fetches it, decides on what it fetched, pushes a           *)
(* replacement under a lease on the commit it looked up, and reads the     *)
(* branch again.  Nothing but the lease orders the commands of different   *)
(* runs.                                                                   *)
(*                                                                         *)
(* The commit has no parent, a fixed author and dates taken from the file, *)
(* so its name is a function of the ledger: the model identifies a commit  *)
(* with the ledger it holds.  Times are ticks of one clock.                *)
(***************************************************************************)
EXTENDS Integers, FiniteSets

CONSTANTS
    Run,              \* attempt ids of the runs that call the tool
    LegacyId,         \* attempt ids given to seeds, "legacy-<run>-<attempt>"
    SeedFile,         \* the seed files an operator may pass to initialize
    Evidence,         \* <<durable ref, actual request starts>> of a success
    Window,           \* window_hours
    Cap,              \* max_request_bearing_attempts
    SuccessInterval,  \* success_interval_minutes
    RetryInterval,    \* failed_retry_interval_minutes
    Overlap,          \* max_migration_overlap_attempts
    MigrationCap,     \* max_migration_runtime_attempts
    SeedLimit,        \* max_legacy_seed_attempts
    StartTime,        \* the clock when the model starts
    MaxTime           \* BOUND: the clock stops here

\* What load_policy demands of a configuration, and what the two checked-in
\* configurations add: both cadences are shorter than the window.
ASSUME PolicyAssumption ==
    /\ Window \in Nat \ {0}
    /\ Cap \in Nat \ {0}
    /\ SuccessInterval \in Nat /\ RetryInterval \in Nat \ {0}
    /\ RetryInterval <= SuccessInterval /\ SuccessInterval < Window
    /\ Overlap \in Nat /\ MigrationCap \in Nat \ {0} /\ SeedLimit \in Nat
    /\ Cap <= Overlap /\ MigrationCap <= Cap /\ Overlap <= SeedLimit

ASSUME DomainAssumption ==
    /\ Run \subseteq Nat /\ LegacyId \subseteq Nat /\ Run \cap LegacyId = {}
    /\ StartTime \in Nat /\ MaxTime \in Nat /\ StartTime <= MaxTime
    /\ <<>> \notin Evidence

NoTime == -1
NoEvidence == <<>>

\* One row of the ledger.  A runtime row always has its request bound proven
\* and a legacy row never has, so the flag is the source.
Row == [id : Run \cup LegacyId, at : Nat, source : {"runtime", "legacy"},
        succeeded : Nat \cup {NoTime}, evidence : Evidence \cup {NoEvidence}]

\* Every row of a seed file becomes a legacy row.
ASSUME SeedAssumption ==
    \A seeds \in SeedFile :
        /\ IsFiniteSet(seeds) /\ seeds \subseteq Row
        /\ \A x \in seeds : x.source = "legacy" /\ x.id \in LegacyId

Ledger == [updated : Nat \cup {NoTime}, rows : SUBSET Row]

\* The branch does not exist: ls-remote prints no row.
NoLedger == [updated |-> NoTime, rows |-> {}]

VARIABLES
    now,        \* the clock
    store,      \* the ledger the remote branch points to, or NoLedger
    cmd,        \* cmd[r]: the command run r executes
    granted,    \* the runs whose job holds request_mode=reserved
    reported,   \* reported[r]: the evidence mark-success answered it recorded
    charged     \* history: every reservation the branch ever accepted

vars == <<now, store, cmd, granted, reported, charged>>

\* A command in progress: the time it took when it started, the ledger its
\* ls-remote named, and the evidence a mark-success carries.
Command == [pc : {"idle", "look", "fetch", "push", "verify"},
            op : {"reserve", "mark"}, clock : Nat, seen : Ledger,
            claim : Evidence \cup {NoEvidence}]

Idle == [pc |-> "idle", op |-> "reserve", clock |-> 0, seen |-> NoLedger,
         claim |-> NoEvidence]

RuntimeRows(rows) == {x \in rows : x.source = "runtime"}
LegacyRows(rows)  == {x \in rows : x.source = "legacy"}

\* MUTANT of Active: the window loses its last tick.
ActiveShort(rows, t) == {x \in rows : x.at > t - Window + 1}

\* _active_attempts: what is still inside the window at time t.
Active(rows, t) == {x \in rows : x.at > t - Window}

\* Rows are ordered by (reserved_at, id); the latest is the greatest.
NotAfter(x, y) == x.at < y.at \/ (x.at = y.at /\ x.id <= y.id)
Latest(rows) == CHOOSE x \in rows : \A y \in rows : NotAfter(y, x)

Interval(x) == IF x.succeeded # NoTime THEN SuccessInterval ELSE RetryInterval

\* The cadence gate of _request_mode: start to start from the latest row.
IntervalGated(rows, t) ==
    /\ rows # {}
    /\ t < Latest(rows).at + Interval(Latest(rows))

\* The cap gates of _request_mode.
OverlapBlocks(rows) ==
    LegacyRows(rows) # {} /\ Cardinality(rows) >= Overlap
RuntimeBlocks(rows) ==
    Cardinality(RuntimeRows(rows)) >=
        (IF LegacyRows(rows) # {} THEN MigrationCap ELSE Cap)
CapGated(rows) == OverlapBlocks(rows) \/ RuntimeBlocks(rows)

Reservable(rows, t) == ~IntervalGated(rows, t) /\ ~CapGated(rows)

\* _normalize_attempt and _normalize_ledger: the ledgers the tool will commit
\* and the only ones it will read.
ValidRow(x, updated) ==
    /\ x.at <= updated /\ x.at > updated - Window
    /\ \/ x.succeeded = NoTime /\ x.evidence = NoEvidence
       \/ x.succeeded \in x.at..updated /\ x.evidence # NoEvidence

ValidLedger(L) ==
    /\ L.rows # {} /\ Cardinality(L.rows) <= SeedLimit
    /\ \A x \in L.rows : ValidRow(x, L.updated)
    /\ \A x, y \in L.rows : x.id = y.id => x = y
    /\ IF LegacyRows(L.rows) # {}
       THEN /\ Cardinality(L.rows) <= Overlap
            /\ Cardinality(RuntimeRows(L.rows)) <= MigrationCap
       ELSE Cardinality(RuntimeRows(L.rows)) <= Cap

RuntimeRow(r, t) ==
    [id |-> r, at |-> t, source |-> "runtime",
     succeeded |-> NoTime, evidence |-> NoEvidence]

\* MUTANT of Unmarked: a row already marked is marked again.
AnyOwnRow(c, r) ==
    {x \in RuntimeRows(Active(c.seen.rows, c.clock)) : x.id = r}

\* The row a mark_success call finds, and the row it leaves.
Unmarked(c, r) ==
    {x \in RuntimeRows(Active(c.seen.rows, c.clock)) :
        x.id = r /\ x.succeeded = NoTime}
MarkRow(x, c) == [x EXCEPT !.succeeded = c.clock, !.evidence = c.claim]

\* The ledger command c of run r commits: _new_ledger of the active rows.
Draft(c, r) ==
    LET rows == Active(c.seen.rows, c.clock)
    IN [updated |-> c.clock,
        rows |-> IF c.op = "reserve"
                 THEN rows \cup {RuntimeRow(r, c.clock)}
                 ELSE (rows \ Unmarked(c, r))
                        \cup {MarkRow(x, c) : x \in Unmarked(c, r)}]

-----------------------------------------------------------------------------
Init ==
    /\ now = StartTime
    /\ store = NoLedger
    /\ cmd = [r \in Run |-> Idle]
    /\ granted = {}
    /\ reported = [r \in Run |-> NoEvidence]
    /\ charged = {}

Tick ==
    /\ now < MaxTime
    /\ now' = now + 1
    /\ UNCHANGED <<store, cmd, granted, reported, charged>>

\* initialize: push the seeds under an empty lease.  A branch is never removed,
\* so finding none and leasing none is one atomic test; the time was taken
\* earlier.
Initialize(t, seeds) ==
    /\ store = NoLedger
    /\ t <= now
    /\ ValidLedger([updated |-> t, rows |-> seeds])
    /\ store' = [updated |-> t, rows |-> seeds]
    /\ UNCHANGED <<now, cmd, granted, reported, charged>>

Call(r, command, e) ==
    /\ cmd[r].pc = "idle"
    /\ cmd' = [cmd EXCEPT ![r] = [pc |-> "look", op |-> command, clock |-> now,
                                  seen |-> NoLedger, claim |-> e]]
    /\ UNCHANGED <<now, store, granted, reported, charged>>

\* A job without a permit asks for one; one whose earlier answer was lost or
\* negative may ask again under the same attempt id.
CallReserve(r) == r \notin granted /\ Call(r, "reserve", NoEvidence)

\* A job with a permit reports its durable publication, any number of times.
CallMark(r, e) == r \in granted /\ Call(r, "mark", e)

\* _remote_sha before the decision.
Look(r) ==
    /\ cmd[r].pc = "look"
    /\ store # NoLedger
    /\ cmd' = [cmd EXCEPT ![r].pc = "fetch", ![r].seen = store]
    /\ UNCHANGED <<now, store, granted, reported, charged>>

\* _fetch_observed succeeds only on the commit ls-remote named, and
\* _active_attempts refuses a ledger from the future.
Fetched(c) ==
    /\ c.pc = "fetch"
    /\ store = c.seen
    /\ ValidLedger(c.seen)
    /\ c.seen.updated <= c.clock

\* reserve refuses an attempt id that is still active.
FreshId(c, r) == \A x \in Active(c.seen.rows, c.clock) : x.id # r

\* What reserve and mark_success demand before they create a commit.
MayCommit(c, r) ==
    IF c.op = "reserve"
    THEN FreshId(c, r) /\ Reservable(Active(c.seen.rows, c.clock), c.clock)
    ELSE Unmarked(c, r) # {}

\* The rest of reserve and of mark_success up to the push; _create_commit
\* creates only what _normalize_ledger accepts.
Decide(r) ==
    /\ Fetched(cmd[r])
    /\ MayCommit(cmd[r], r)
    /\ ValidLedger(Draft(cmd[r], r))
    /\ cmd' = [cmd EXCEPT ![r].pc = "push"]
    /\ UNCHANGED <<now, store, granted, reported, charged>>

\* mark_success found its own evidence already recorded.
AlreadyMarked(r) ==
    /\ cmd[r].op = "mark" /\ Fetched(cmd[r])
    /\ \E x \in RuntimeRows(Active(cmd[r].seen.rows, cmd[r].clock)) :
         x.id = r /\ x.succeeded # NoTime /\ x.evidence = cmd[r].claim
    /\ reported' = [reported EXCEPT ![r] = cmd[r].claim]
    /\ cmd' = [cmd EXCEPT ![r] = Idle]
    /\ UNCHANGED <<now, store, granted, charged>>

\* MUTANT of LeaseHolds: a plain forced push.
NoLease(c) == TRUE

\* What the lease of _push compares.
LeaseHolds(c) == store = c.seen

\* git push --force-with-lease lands.
Push(r) ==
    /\ cmd[r].pc = "push"
    /\ LeaseHolds(cmd[r])
    /\ store' = Draft(cmd[r], r)
    /\ charged' = IF cmd[r].op = "reserve"
                  THEN charged \cup {[id |-> r, at |-> cmd[r].clock]}
                  ELSE charged
    /\ cmd' = [cmd EXCEPT ![r].pc = "verify"]
    /\ UNCHANGED <<now, granted, reported>>

\* The ls-remote after the push agrees, and the command succeeds.
Verify(r) ==
    /\ cmd[r].pc = "verify"
    /\ store = Draft(cmd[r], r)
    /\ IF cmd[r].op = "reserve"
       THEN granted' = granted \cup {r} /\ UNCHANGED reported
       ELSE /\ reported' = [reported EXCEPT ![r] = cmd[r].claim]
            /\ UNCHANGED granted
    /\ cmd' = [cmd EXCEPT ![r] = Idle]
    /\ UNCHANGED <<now, store, charged>>

\* The command ends without effect: a gate answered success_gated, retry_gated
\* or cap_gated, git failed, the branch moved, the ledger is from the future,
\* the permit is a reused one, the evidence differs, or the answer to a push
\* that landed was lost.
Return(r) ==
    /\ cmd[r].pc # "idle"
    /\ cmd' = [cmd EXCEPT ![r] = Idle]
    /\ UNCHANGED <<now, store, granted, reported, charged>>

\* The runner is cancelled or lost, with the permit it had.
Crash(r) ==
    /\ r \in granted
    /\ cmd' = [cmd EXCEPT ![r] = Idle]
    /\ granted' = granted \ {r}
    /\ reported' = [reported EXCEPT ![r] = NoEvidence]
    /\ UNCHANGED <<now, store, charged>>

RunStep(r) ==
    \/ CallReserve(r)
    \/ \E e \in Evidence : CallMark(r, e)
    \/ Look(r) \/ Decide(r) \/ AlreadyMarked(r) \/ Push(r) \/ Verify(r)
    \/ Return(r) \/ Crash(r)

Next ==
    \/ Tick
    \/ \E t \in 0..MaxTime, seeds \in SeedFile : Initialize(t, seeds)
    \/ \E r \in Run : RunStep(r)

Spec == Init /\ [][Next]_vars

-----------------------------------------------------------------------------
\* Type correctness; a decoded ledger, a command in flight and the history of charges.
TypeOK ==
    /\ now \in Nat
    /\ store \in Ledger
    /\ cmd \in [Run -> Command]
    /\ granted \in SUBSET Run
    /\ reported \in [Run -> Evidence \cup {NoEvidence}]
    /\ charged \in SUBSET [id : Run, at : Nat]

\* Whatever was pushed can be read again: the branch always holds a ledger
\* that _normalize_ledger accepts, so no legal sequence of commands wedges it.
LedgerReadable == store # NoLedger => ValidLedger(store)

\* The ledger forgets, the past does not: over everything ever charged, no
\* window of Window hours contains more than Cap reservations
\* (max_request_bearing_attempts).
InWindow(t) == {c \in charged : t - Window < c.at /\ c.at <= t}
RollingCap == \A c \in charged : Cardinality(InWindow(c.at)) <= Cap

\* A permit is exposed only for a charge the branch accepted for that run, and
\* two charges of one attempt id are a whole window apart: an answer lost
\* after the push costs the attempt, it never yields a second permit.
PermitsCharged ==
    /\ \A r \in granted : \E c \in charged : c.id = r
    /\ \A c, d \in charged :
         c.id = d.id /\ c.at < d.at => d.at - c.at >= Window

\* No command drops a charge that is still in the window, or changes a success
\* once recorded, whatever commands interleave with it.
Persists(x) ==
    x.at > store'.updated - Window =>
        \E y \in store'.rows :
            /\ y.id = x.id /\ y.at = x.at
            /\ x.succeeded # NoTime => y = x
ChargesPersist == [][\A x \in store.rows : Persists(x)]_vars

\* Start-to-start cadence at the moment the charge takes effect, not at the
\* moment it was decided: SuccessInterval after an attempt that is by then
\* marked successful, RetryInterval after any other.
CadenceKept ==
    [][charged' # charged =>
         \A x \in store.rows : \A c \in charged' \ charged :
             c.at >= x.at + (IF x = Latest(store.rows) THEN Interval(x)
                                                       ELSE RetryInterval)]_vars

\* What the callers of the tool rely on, over the whole history of charges
\* although the ledger forgets all but one window of it.
Permits == INSTANCE RollingPermit WITH Time <- 0..MaxTime
PermitSpec == Permits!Spec
=============================================================================
