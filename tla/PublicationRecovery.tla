------------------------ MODULE PublicationRecovery -------------------------
(***************************************************************************)
(* How the public site catches up: with the queue data, which is collected *)
(* on a branch of its own, and after anything that went wrong.             *)
(*                                                                         *)
(* The queue monitor (queue-monitor.yml, plan_queue_publication_reconcile) *)
(* and the watchdog (publication-watchdog.yml, plan_publication_watchdog)  *)
(* publish nothing.  They look at the site and at the list of workflow     *)
(* runs, and dispatch a run of Data Collection (hourly-master.yml) or of   *)
(* Deploy to GitHub Pages (deploy-pages.yml).  The runs of one concurrency *)
(* group, here one for each kind, wait for each other, and a newer one     *)
(* replaces the pending one; the jobs that write the site queue for one    *)
(* lease; every run may fail, and the list may show as active what is dead.*)
(* Nobody remembers what was dispatched but the titles of the runs, which  *)
(* hold a key.  The kinds are the two recoveries that Data Collection runs *)
(* and the deploy-only one; a run of the schedule is a single step.        *)
(***************************************************************************)
EXTENDS Integers, Sequences

CONSTANTS
    Active,    \* active_run_max_age_minutes
    Cooldown,  \* retry_cooldown_minutes
    MaxGen,    \* BOUND: the last generation of the queue data (see PublicationRecoveryMC)
    MaxUpset   \* BOUND: failures, lost answers, orphans, damage

ASSUME Limits == Active \in Nat /\ Cooldown \in 0..Active

Kind == {"queue", "watchdog", "deploy"}
Collectors == Kind \ {"deploy"}

None == [phase |-> "none"]
Free == [by |-> "nobody"]

VARIABLES
    durable,   \* generation of the branch queue-data
    late,      \* that generation is more than five hours old
    state,     \* the dashboard state: its queue generation, affected or not
    pages,     \* the site: what it shows, and whether that is the state
    due,       \* the attempt ledger grants a collection
    pending,   \* of each kind, the run that waits for its group
    active,    \* of each kind, the run of the group
    line,      \* kinds whose run waits for the lease gh-pages-deploy
    lease,     \* the run that holds it and what it has built
    ended,     \* rows of failed runs, and of dead ones shown as active
    monitor,   \* target of the reconciliation job of the queue monitor, if one is to come
    upsets

runs == <<pending, active, line, lease, ended>>
recoveryVars == <<durable, late, state, pages, due, runs, monitor, upsets>>

Upset == upsets < MaxUpset /\ upsets' = upsets + 1
Calm == UNCHANGED upsets

(***************************************************************************)
(* Runs.  A row is what the list of runs shows of one.                     *)
(***************************************************************************)
NewRun(phase, key) == [phase |-> phase, key |-> key, age |-> 0]
Row(kind, r, phase) == [kind |-> kind, key |-> r.key, age |-> r.age, phase |-> phase]

\* Only the watchdog asks for failed runs, those of its own recoveries.
Failed(kind, r) ==
    IF kind = "queue" THEN {} ELSE {[Row(kind, r, "failed") EXCEPT !.age = 0]}

\* The newer run of a group replaces the pending one, which ends as cancelled.  A
\* deploy-only run is in the queue of the lease from the start.
Dispatch(kind, key) ==
    IF kind = "deploy"
    THEN /\ active' = [active EXCEPT ![kind] = NewRun("waiting", key)]
         /\ line' = Append(line, kind)
         /\ UNCHANGED <<pending, lease, ended>>
    ELSE /\ pending' = [pending EXCEPT ![kind] = NewRun("pending", key)]
         /\ ended' = ended \cup IF pending[kind] = None THEN {} ELSE Failed(kind, pending[kind])
         /\ UNCHANGED <<active, line, lease>>

\* The run is no more; with it goes its place in the queue, or the lease.
Leaves(k) ==
    /\ active' = [active EXCEPT ![k] = None]
    /\ line' = SelectSeq(line, LAMBDA j : j # k)
    /\ lease' = IF lease.by = k THEN Free ELSE lease
    /\ UNCHANGED pending

Ends(k) == Leaves(k) /\ UNCHANGED ended

\* target_reconciliation_reason: why a generation is not on the site yet.
Missing(target) ==
    pages.shows = "damage" \/ pages.affected \/ pages.queue < target

Idle(k) == pending[k] # None /\ active[k] = None

\* What the preflight of a run asks.
Wanted(k) == IF k = "queue" THEN Missing(pending[k].key.target) ELSE due

\* The group takes up its pending run.  A queue run goes on when its preflight
\* fails, a watchdog run does not.
Begin(k) ==
    /\ Idle(k)
    /\ \/ Wanted(k) /\ Calm
       \/ k = "queue" /\ Upset
    /\ pending' = [pending EXCEPT ![k] = None]
    /\ active' = [active EXCEPT ![k] = [pending[k] EXCEPT !.phase = "waiting"]]
    /\ line' = Append(line, k)
    /\ UNCHANGED <<durable, late, state, pages, due, lease, ended, monitor>>

NotWanted(k) ==
    /\ Idle(k) /\ ~Wanted(k)
    /\ pending' = [pending EXCEPT ![k] = None]
    /\ UNCHANGED <<durable, late, state, pages, due, active, line, lease, ended, monitor, upsets>>

\* The lease has queue max: first in, first out.
First(k) == lease = Free /\ line # <<>> /\ Head(line) = k

Holds(k, q, affected) ==
    /\ lease' = [by |-> k, phase |-> "built", queue |-> q, affected |-> affected]
    /\ line' = Tail(line)
    /\ active' = [active EXCEPT ![k].phase = "leased"]
    /\ UNCHANGED <<pending, ended>>

\* MUTANT: a queue run publishes the generation it was dispatched for.
QueueDataTarget(k) == IF k = "queue" THEN active[k].key.target ELSE durable
\* The data of the branch is read when the run holds the lease.
QueueData(k) == durable

\* A run that collects takes a grant of the ledger, and falls back to the queue data
\* of the state when that of the branch cannot be read.
Collect(k) ==
    /\ First(k) /\ k \in Collectors
    /\ IF k = "queue"
       THEN Calm /\ Holds(k, QueueData(k), FALSE) /\ UNCHANGED due
       ELSE /\ due /\ due' = FALSE
            /\ \/ Calm /\ Holds(k, QueueData(k), FALSE)
               \/ Upset /\ Holds(k, state.queue, TRUE)
    /\ UNCHANGED <<durable, late, state, pages, monitor>>

\* Without a grant of the ledger nothing is collected and nothing published.
Gated(k) ==
    /\ First(k) /\ k = "watchdog" /\ ~due
    /\ Ends(k)
    /\ UNCHANGED <<durable, late, state, pages, due, monitor, upsets>>

RotateState(k) ==
    /\ lease.by = k /\ lease.phase = "built"
    /\ state' = [queue |-> lease.queue, affected |-> lease.affected]
    /\ pages' = [pages EXCEPT !.shows = IF @ = "damage" THEN @ ELSE "old"]
    /\ lease' = [lease EXCEPT !.phase = "rotated"]
    /\ UNCHANGED <<durable, late, due, pending, active, line, ended, monitor, upsets>>

\* A collector projects what it rotated, a deploy-only run the state it finds.  (A
\* state that cannot be deployed, and its rollback, are those of DashboardState.)
Deploy(k) ==
    /\ IF k = "deploy" THEN First(k) ELSE lease.by = k /\ lease.phase = "rotated"
    /\ pages' = [queue |-> state.queue, affected |-> state.affected, shows |-> "state"]
    /\ Ends(k)
    /\ UNCHANGED <<durable, late, state, due, monitor, upsets>>

\* A step of the run fails, or its runner is lost.
Fail(k) ==
    /\ active[k] # None /\ Upset
    /\ Leaves(k) /\ ended' = ended \cup Failed(k, active[k])
    /\ UNCHANGED <<durable, late, state, pages, due, monitor>>

\* The run is dead, and the list shows it as queued or active for ever.
Orphan(k) ==
    /\ Upset
    /\ \/ active[k] # None /\ Leaves(k) /\ ended' = ended \cup {Row(k, active[k], "orphan")}
       \/ /\ pending[k] # None
          /\ pending' = [pending EXCEPT ![k] = None]
          /\ ended' = ended \cup {Row(k, pending[k], "orphan")}
          /\ UNCHANGED <<active, line, lease>>
    /\ UNCHANGED <<durable, late, state, pages, due, monitor>>

\* What the list shows as queued or active, with its age.
Shown == {r \in ended : r.phase = "orphan"}
         \cup {Row(k, pending[k], "pending") : k \in {j \in Kind : pending[j] # None}}
         \cup {Row(k, active[k], "active") : k \in {j \in Kind : active[j] # None}}

\* MUTANT: what the list shows as active is active.
ListedForEver == Shown

\* Active, and not for too long.
Listed == {r \in Shown : r.age <= Active}

(***************************************************************************)
(* The queue monitor: one snapshot job, then one reconciliation job.       *)
(***************************************************************************)
NewGeneration ==
    /\ monitor = {} /\ durable < MaxGen
    /\ durable' = durable + 1 /\ late' = FALSE
    /\ monitor' = {durable'}
    /\ UNCHANGED <<state, pages, due, runs, upsets>>

\* A run that is granted no request looks again at the durable generation, unless that
\* is too old.  (A run that the end of a watchdog run woke up does not: no step.)
GatedLook ==
    /\ monitor = {} /\ ~late
    /\ monitor' = {durable}
    /\ UNCHANGED <<durable, late, state, pages, due, runs, upsets>>

\* Five hours pass without a newer generation, or not.
Expire ==
    /\ ~late /\ late' = TRUE
    /\ UNCHANGED <<durable, state, pages, due, runs, monitor, upsets>>

QueueKey(g) == [reason |-> "queue", target |-> g]

\* reconciliation_dispatch_decision.  A site that cannot be read counts as one
\* that misses the target, and a list that cannot be read does not suppress.
Reconcile ==
    \E g \in monitor :
        LET known == \E r \in Listed : r.key = QueueKey(g)
        IN  /\ monitor' = {}
            /\ \/ (~Missing(g) \/ known) /\ Calm /\ UNCHANGED runs
               \/ Missing(g) /\ ~known /\ Calm /\ Dispatch("queue", QueueKey(g))
               \/ Upset /\ Dispatch("queue", QueueKey(g))
            /\ UNCHANGED <<durable, late, state, pages, due>>

MonitorLost ==
    /\ monitor # {} /\ Upset
    /\ monitor' = {}
    /\ UNCHANGED <<durable, late, state, pages, due, runs>>

(***************************************************************************)
(* The watchdog: which recovery, and whether it is under way.              *)
(***************************************************************************)
\* MUTANT: the collector is to repair the site.
MismatchTargetCollector == "watchdog"
MismatchTarget == "deploy"  \* state_pages_mismatch_target

SameWorkflow(r, kind) == (r.kind = "deploy") = (kind = "deploy")

\* watchdog_decision: a failed attempt counts only for its own incident.  The
\* generation in the key of an incident is left out: this suppresses more.
Suppressed(kind, key) ==
    \/ \E r \in Listed : SameWorkflow(r, kind)
    \/ \E r \in ended : r.phase = "failed" /\ r.key = key /\ r.kind = kind

\* BOUND: one deploy-only run that is not over.
Recover(kind, reason) ==
    LET key == [reason |-> reason, target |-> 0]
    IN  /\ ~Suppressed(kind, key)
        /\ kind = "deploy" => active["deploy"] = None
        /\ Dispatch(kind, key)
        /\ UNCHANGED <<durable, late, state, pages, due, monitor>>

\* A failed site health check counts after a second quorum.  The age of the
\* publication is left out: when no collection is due either, the run it asks for
\* is ended by its preflight.
Watchdog ==
    IF pages.shows # "state"
    THEN Calm /\ Recover(MismatchTarget, "state-pages-mismatch")
    ELSE \/ Upset /\ Recover("deploy", "site-health-failed")
         \/ due /\ Calm /\ Recover("watchdog", "buildkite-collection-due")

(***************************************************************************)
(* The world.                                                              *)
(***************************************************************************)
\* The schedule may be late or dropped.  A routine run was in the queue before those
\* of line.  BOUND: it is over at once; it collects and publishes as a watchdog run
\* does.
Routine ==
    /\ due /\ due' = FALSE
    /\ lease = Free
    /\ state' = [queue |-> durable, affected |-> FALSE]
    /\ pages' = [queue |-> durable, affected |-> FALSE, shows |-> "state"]
    /\ UNCHANGED <<durable, late, runs, monitor, upsets>>

\* The ledger grants the next attempt after an interval.
Mature ==
    /\ ~due /\ due' = TRUE
    /\ UNCHANGED <<durable, late, state, pages, runs, monitor, upsets>>

DamagePages ==
    /\ pages.shows # "damage" /\ Upset
    /\ pages' = [pages EXCEPT !.shows = "damage"]
    /\ UNCHANGED <<durable, late, state, due, runs, monitor>>

Older(r) == IF r = None THEN r ELSE [r EXCEPT !.age = IF @ > Active THEN @ ELSE @ + 1]

\* A failed run is of no interest after the cooldown, a dead one when it is too old.
Tick ==
    /\ pending' = [k \in Kind |-> Older(pending[k])]
    /\ active' = [k \in Kind |-> Older(active[k])]
    /\ ended' = {r \in {Older(r) : r \in ended} :
                   r.age <= IF r.phase = "failed" THEN Cooldown ELSE Active + 1}
    /\ <<pending, active, ended>>' # <<pending, active, ended>>
    /\ UNCHANGED <<durable, late, state, pages, due, line, lease, monitor, upsets>>

RecoveryInit ==
    /\ durable = 0 /\ state = [queue |-> 0, affected |-> FALSE]
    /\ pages = [queue |-> 0, affected |-> FALSE, shows |-> "state"]
    /\ due = FALSE
    /\ pending = [k \in Kind |-> None] /\ active = [k \in Kind |-> None]
    /\ line = <<>> /\ lease = Free /\ ended = {}
    /\ late = FALSE /\ monitor = {} /\ upsets = 0

Progress(k) ==
    Begin(k) \/ NotWanted(k) \/ Collect(k) \/ Gated(k) \/ RotateState(k) \/ Deploy(k)

MonitorStep == NewGeneration \/ GatedLook \/ Reconcile

RecoveryNext ==
    \/ \E k \in Kind : Progress(k) \/ Fail(k) \/ Orphan(k)
    \/ MonitorStep \/ MonitorLost \/ Watchdog
    \/ Routine \/ Mature \/ Expire \/ DamagePages \/ Tick

RecoverySpec == RecoveryInit /\ [][RecoveryNext]_recoveryVars

\* The planners run again and again, the queue monitor also by schedule or by hand; a
\* group works on its runs, time passes.  Nothing is assumed of the schedule of the
\* collection itself, nor of how often the queue monitor is granted a request.
RecoveryFairness ==
    /\ WF_recoveryVars(MonitorStep) /\ WF_recoveryVars(Watchdog) /\ WF_recoveryVars(Tick)
    /\ \A k \in Kind : WF_recoveryVars(Progress(k))

----------------------------------------------------------------------------
\* How many generations the site is behind the branch queue-data.
Behind == durable - pages.queue

\* The site shows the durable generation.
CaughtUp == pages.shows # "damage" /\ Behind = 0

\* Whatever runs were replaced, failed or orphaned, the site shows the durable
\* generation of the queue data again and again, or it goes on to a newer one again
\* and again, so that every generation is on the site in the end, it or a later one.
\* The one exception is in the code: the last generation is given up when it is more
\* than five hours old and no newer one ever comes.
QueueReaches ==
    \/ []<>CaughtUp
    \/ []<><<Behind' < Behind>>_recoveryVars
    \/ <>[]late

\* The site shows the durable state again after any damage or half publication.  A
\* collection that is due is attempted without the schedule, or new generations of the
\* queue data come for ever: their runs suppress the watchdog as any run does.
Recovers ==
    /\ []<>(pages.shows = "state")
    /\ []<>~due \/ []<><<Behind' > Behind>>_recoveryVars

\* The site never goes back to older queue data, whichever runs publish, in
\* whatever order they were dispatched and for whichever generation.
NeverOlder ==
    [][pages' # pages => Behind' <= Behind]_recoveryVars
=============================================================================
