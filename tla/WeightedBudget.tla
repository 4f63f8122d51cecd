--------------------------- MODULE WeightedBudget ---------------------------
(***************************************************************************)
(* The weighted request ledgers of the queue monitor and of the DNS scan   *)
(* (scripts/vllm/queue_request_budget.py, dns_request_budget.py), and the  *)
(* jobs of queue-monitor.yml and dns-health.yml that spend what they have  *)
(* reserved.                                                               *)
(*                                                                         *)
(* Each is a branch with one parentless commit that holds the reservations *)
(* of the last Window hours, each with its number of request starts.  A    *)
(* job of the queue reserves the starts of a metrics poll and, when they   *)
(* are due, of a details scan in one push; a job of DNS reserves those of  *)
(* one scan, unless its scanner state is young.  The workflows run one job *)
(* at a time, the tools rely on the lease of the push alone: here the jobs *)
(* overlap.  As in AttemptBudget a commit is the ledger it holds.  The two *)
(* tools never meet; tool says which one a behaviour is about.             *)
(***************************************************************************)
EXTENDS StartCount

CONSTANTS
    Run,           \* attempt ids of the jobs
    SeedId,        \* ids of legacy rows
    SeedFile,      \* the sets of rows an operator may pass to initialize
    Window,        \* window_hours
    Cap,           \* max_request_starts
    Weight,        \* request starts of a reservation of each kind
    Interval,      \* of each kind, the minimum interval the ledger keeps
    ScanInterval,  \* --minimum-interval-hours of the DNS scan
    MaxRows,       \* max_reservations
    JobTimeout,    \* timeout-minutes of the job
    Day,           \* the rolling window the documentation bounds
    MaxTime        \* BOUND: the clock stops here

Kind == {"metrics", "details", "scan"}

\* What load_policy demands, and what the checked-in configurations add: every
\* interval is shorter than the window, which covers a day and a job.
ASSUME PolicyAssumption ==
    /\ Window \in Nat \ {0} /\ Cap \in Nat /\ MaxRows \in Nat /\ MaxStarts \in Nat
    /\ Weight \in [Kind -> 1..MaxStarts]
    /\ Interval \in [Kind -> 0..Window] /\ Interval["scan"] = 0
    /\ ScanInterval \in Nat
    /\ JobTimeout \in Nat /\ Day \in Nat /\ Day + JobTimeout <= Window

ASSUME DomainAssumption ==
    /\ Run \cap SeedId = {} /\ MaxTime \in Nat

Row == [id : Run \cup SeedId, kind : Kind \cup {"legacy_seed"}, at : Nat,
        starts : 1..MaxStarts]

\* _parse_seed: a row of telemetry.
ASSUME SeedAssumption ==
    \A seeds \in SeedFile :
        /\ IsFiniteSet(seeds) /\ seeds \subseteq Row
        /\ \A x \in seeds : x.kind = "legacy_seed" /\ x.id \in SeedId

NoTime == -1
Ledger == [updated : Nat \cup {NoTime}, debt : BOOLEAN, rows : SUBSET Row]
NoLedger == [updated |-> NoTime, debt |-> FALSE, rows |-> {}]

VARIABLES
    tool,     \* "queue" or "dns"
    now,
    store,    \* the ledger of the branch, or NoLedger
    scan,     \* DNS: generated_at of the durable scanner state, or NoTime
    cmd,      \* cmd[r]: the reserve command of job r, then its collection
    charged,  \* HISTORY: every reservation the branch accepted, seeds too
    spent     \* HISTORY: reservations whose requests were started, and when

vars == <<tool, now, store, scan, cmd, charged, spent>>

\* base is the generated_at of the state that the job restored, permit the kinds
\* of request_mode, done those the collector has asked for.
Command == [pc : {"idle", "look", "fetch", "push", "verify", "job"}, clock : Nat,
            base : Nat \cup {NoTime}, seen : Ledger, permit : SUBSET Kind,
            done : SUBSET Kind]

Idle == [pc |-> "idle", clock |-> 0, base |-> NoTime, seen |-> NoLedger,
         permit |-> {}, done |-> {}]

Active(rows, t) == {x \in rows : x.at > t - Window}  \* _active_rows

\* Without a row of a kind the legacy rows stand for it.
LastRows(rows, k) ==
    IF \E x \in rows : x.kind = k
    THEN {x \in rows : x.kind = k}
    ELSE {x \in rows : x.kind = "legacy_seed"}

Due(rows, k, t) == \A x \in LastRows(rows, k) : t - x.at >= Interval[k]

\* _scanner_requires_requests
ScanDue(base, t) == base = NoTime \/ t - base >= ScanInterval

Rows(c) == Active(c.seen.rows, c.clock)

IntervalGated(c) ==
    IF tool = "queue" THEN ~Due(Rows(c), "metrics", c.clock)
                      ELSE ~ScanDue(c.base, c.clock)

\* The kinds a job asks for in one reservation.
Asked(c) ==
    IF tool = "dns" THEN {"scan"}
    ELSE {"metrics"} \cup {k \in {"details"} : Due(Rows(c), k, c.clock)}

Reservation(r, k, t) == [id |-> r, kind |-> k, at |-> t, starts |-> Weight[k]]
Reserved(c, r) == {Reservation(r, k, c.clock) : k \in Asked(c)}

\* The ledger that reserve_budget commits.
Draft(c, r) ==
    [updated |-> c.clock, debt |-> FALSE, rows |-> Rows(c) \cup Reserved(c, r)]

CapacityGated(c, r) == Starts(Rows(c) \cup Reserved(c, r)) > Cap

\* Permit reuse is refused.
FreshId(c, r) == \A x \in Rows(c) : ~(x.id = r /\ x.kind \in Asked(c))

\* _normalize_ledger
ValidLedger(L) ==
    /\ L.rows # {} /\ Cardinality(L.rows) <= MaxRows
    /\ \A x \in L.rows : /\ x.at <= L.updated /\ x.at > L.updated - Window
                         /\ x.kind \in Kind => x.starts = Weight[x.kind]
    /\ \A x, y \in L.rows : x.id = y.id /\ x.kind = y.kind => x = y
    /\ L.debt <=> Starts(L.rows) > Cap
    /\ L.debt => \A x \in L.rows : x.kind = "legacy_seed"

-----------------------------------------------------------------------------
Init ==
    /\ tool \in {"queue", "dns"}
    /\ now = 0 /\ store = NoLedger /\ scan = NoTime
    /\ cmd = [r \in Run |-> Idle]
    /\ charged = {} /\ spent = {}

Tick ==
    /\ now < MaxTime
    /\ now' = now + 1
    /\ UNCHANGED <<tool, store, scan, cmd, charged, spent>>

\* initialize_budget: telemetry of more than Cap starts is a debt.
Initialize(t, seeds) ==
    LET L == [updated |-> t, debt |-> Starts(seeds) > Cap, rows |-> seeds]
    IN  /\ store = NoLedger /\ t <= now
        /\ ValidLedger(L)
        /\ store' = L
        /\ charged' = seeds
        /\ UNCHANGED <<tool, now, scan, cmd, spent>>

\* The job restores the scanner state and calls reserve.
Call(r) ==
    /\ cmd[r].pc = "idle"
    /\ cmd' = [cmd EXCEPT ![r] = [Idle EXCEPT !.pc = "look", !.clock = now, !.base = scan]]
    /\ UNCHANGED <<tool, now, store, scan, charged, spent>>

Look(r) ==
    /\ cmd[r].pc = "look" /\ store # NoLedger
    /\ cmd' = [cmd EXCEPT ![r].pc = "fetch", ![r].seen = store]
    /\ UNCHANGED <<tool, now, store, scan, charged, spent>>

\* The commit that was looked up, none from the future, nor a scanner state.
Fetched(c) ==
    /\ c.pc = "fetch"
    /\ store = c.seen /\ ValidLedger(c.seen)
    /\ c.seen.updated <= c.clock
    /\ tool = "dns" => c.base <= c.clock

\* interval_gated: the DNS job goes on, to publish the last generation again.
Gate(r) ==
    /\ tool = "dns" /\ Fetched(cmd[r]) /\ IntervalGated(cmd[r])
    /\ cmd' = [cmd EXCEPT ![r].pc = "job"]
    /\ UNCHANGED <<tool, now, store, scan, charged, spent>>

MayCommit(c, r) ==
    /\ ~IntervalGated(c) /\ ~CapacityGated(c, r) /\ FreshId(c, r)
    /\ ValidLedger(Draft(c, r))

Decide(r) ==
    /\ Fetched(cmd[r]) /\ MayCommit(cmd[r], r)
    /\ cmd' = [cmd EXCEPT ![r].pc = "push"]
    /\ UNCHANGED <<tool, now, store, scan, charged, spent>>

\* MUTANT: a plain forced push.
NoLease(c) == TRUE
LeaseHolds(c) == store = c.seen

Push(r) ==
    /\ cmd[r].pc = "push" /\ LeaseHolds(cmd[r])
    /\ store' = Draft(cmd[r], r)
    /\ charged' = charged \cup Reserved(cmd[r], r)
    /\ cmd' = [cmd EXCEPT ![r].pc = "verify"]
    /\ UNCHANGED <<tool, now, scan, spent>>

Verify(r) ==
    /\ cmd[r].pc = "verify" /\ store = Draft(cmd[r], r)
    /\ cmd' = [cmd EXCEPT ![r].pc = "job", ![r].permit = Asked(cmd[r])]
    /\ UNCHANGED <<tool, now, store, scan, charged, spent>>

\* MUTANT: the DNS collector reads the clock again.
CollectsByOwnClock(c) ==
    IF tool = "queue" THEN c.permit ELSE {k \in {"scan"} : ScanDue(c.base, now)}

\* What the collector of the job will ask Buildkite for: the queue job names the
\* request_mode, the DNS collector decides again, by the clock of the decision.
Collects(c) ==
    IF tool = "queue" THEN c.permit ELSE {k \in {"scan"} : ScanDue(c.base, c.clock)}

\* The requests of one kind, no later than the timeout of the job.  The guard of the
\* job, which would refuse them without a permit, is left out.
Spend(r, k) ==
    LET c == cmd[r]
    IN  /\ c.pc = "job" /\ k \in Collects(c) \ c.done
        /\ now <= c.clock + JobTimeout
        /\ cmd' = [cmd EXCEPT ![r].done = @ \cup {k}]
        /\ spent' = spent \cup {[row |-> Reservation(r, k, c.clock), at |-> now,
                                 starts |-> Weight[k]]}
        /\ UNCHANGED <<tool, now, store, scan, charged>>

\* The scanner state of a scan becomes durable.
PublishScan(r) ==
    /\ tool = "dns" /\ "scan" \in cmd[r].done
    /\ scan' = cmd[r].clock
    /\ cmd' = [cmd EXCEPT ![r] = Idle]
    /\ UNCHANGED <<tool, now, store, charged, spent>>

\* The job ends: a gate, a refusal, an answer of a push that was lost, a failed
\* collection, the loss of its runner, or all is done.
End(r) ==
    /\ cmd[r].pc # "idle"
    /\ cmd' = [cmd EXCEPT ![r] = Idle]
    /\ UNCHANGED <<tool, now, store, scan, charged, spent>>

RunStep(r) ==
    \/ Call(r) \/ Look(r) \/ Gate(r) \/ Decide(r) \/ Push(r) \/ Verify(r)
    \/ \E k \in Kind : Spend(r, k)
    \/ PublishScan(r) \/ End(r)

Next ==
    \/ Tick
    \/ \E t \in 0..MaxTime, seeds \in SeedFile : Initialize(t, seeds)
    \/ \E r \in Run : RunStep(r)

Spec == Init /\ [][Next]_vars

-----------------------------------------------------------------------------
\* Type correctness.
TypeOK ==
    /\ tool \in {"queue", "dns"}
    /\ now \in 0..MaxTime
    /\ store \in Ledger
    /\ scan \in Nat \cup {NoTime}
    /\ cmd \in [Run -> Command]
    /\ charged \in SUBSET Row
    /\ spent \in SUBSET [row : Row, at : Nat, starts : 1..MaxStarts]

\* The requests started in the day that ends at time t.
SpentIn(t) == {s \in spent : t - Day < s.at /\ s.at <= t}

\* Whatever jobs overlap, fail or lose their answers, and although the collector of
\* DNS decides on its own: no rolling day sees more than Cap request starts.
DailyStarts == \A t \in 0..MaxTime : Starts(SpentIn(t)) <= Cap

\* The ledger, which forgets what is older than its window, keeps the promise of a
\* permit that never does.
Permits == INSTANCE WeightedPermit WITH Time <- 0..MaxTime
PermitSpec == Permits!Spec
=============================================================================
