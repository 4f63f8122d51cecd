# Verification of the vLLM project dashboard

This directory models the control of the dashboard's automation in TLA+, checks
it with TLC on small instances, and proves the central results with TLAPS for
every value of the constants. Paths below are relative to the repository; line
numbers of every definition are in `PROJECT.json`, under `map`.

1. [The system](#1-the-system)
2. [Plan](#2-plan)
3. [Modules and the code they model](#3-modules-and-the-code-they-model)
4. [Runs: what is checked, bounds, fairness](#4-runs)
5. [Proofs](#5-proofs)
6. [Findings](#6-findings)
7. [What is not modelled](#7-what-is-not-modelled)

## 1. The system

There is no server. The program is a set of GitHub Actions workflows that run
python (and one JavaScript file) every few minutes, each on a fresh machine.
They collect evidence about vLLM's CI from Buildkite and GitHub, publish a
static site on GitHub Pages, and keep GitHub issues in step with what they
found. Whatever outlives a run is a git ref, a workflow cache, a GitHub issue
or the site itself. So the hard behaviour is that of a distributed system:
runs of different workflows overlap, any run may end between two requests, an
answer may be lost after the request took effect, people act on the same
issues, and the only locks are workflow concurrency groups, `--force-with-lease`
pushes and `flock`.

### Components

| Component | State it keeps | Operations | Interacts with |
|---|---|---|---|
| Attempt ledger (`request_bearing_attempt_budget.py`) | one branch per producer with one JSON file of attempts, 25-hour window | initialize, reserve, mark-success, observe | every job that may spend Buildkite requests; leased push |
| Request guard (`buildkite_request_guard.py`, `sitecustomize.py`) | a counter file of one job | initialize, install, consume, report | all python processes and threads of the job; `flock` |
| Hourly pipeline (`hourly-master.yml`) | the lease `gh-pages-deploy`, a worktree | restore, reserve, collect, watch, audit, rotate, mark, deploy, confirm, recover | all of the components here |
| Dashboard state (`dashboard_state.py`) | refs `dashboard-state` and `dashboard-state-previous` | probe, repair, validate, promote, materialize, create, rotate | hourly pipeline; other writers by atomic leased push |
| Queue lifecycle (`collect_queue_lifecycle.py`, `queue-lifecycle.yml`) | a checkpoint in a cache, a ledger on a branch | plan, page, split, save, merge, publish, clear | attempt ledger, guard, Buildkite |
| Managed issues (`ci/managed_issue.py`) | the watcher's state in the dashboard state, one issue | read, discover, close siblings, label, update, open, close | six watchers; people; GitHub |
| Failure watchers (`amd_main_failure_watcher.py`, `ci/incident_transitions.py`) | per group: watermark, streak, incident | select builds, fence, advance, prune | build catalog; managed issues |
| Hourly incident (`hourly_incident_recovery.js`, `hourly-master.yml`, `health-check.yml`) | the body, labels and state of one issue | find, report, recover, retire others | four kinds of runs; people; the site monitor |
| Queue and DNS request ledgers (`queue_request_budget.py`, `dns_request_budget.py`) | weighted reservations on a branch each | initialize, reserve, validate-ref | `queue-monitor.yml`, `dns-health.yml`, their collectors |
| Publication watchdog and reconcilers (`plan_*.py`) | none: they read the site, the state refs and the list of workflow runs | decide, preflight | dispatch the hourly and the deploy-only workflow |
| Surface selection (`select_publication_surfaces.py`) | clocks, manifest, streaks and incident policy of degraded surfaces, in the published tree | migrate, restore, audit, widen, publish | hourly pipeline and refreshes of one surface |
| Caches (`ci/analytics_cache.py`, `ci/dns_classification_cache.py`, `ci/backfill_checkpoint.py`) | files in workflow caches | load, merge, record, reset | collectors |
| Collectors, analysis, audit, snapshot, front end | none, or append-only data | transform | files |

### What is hard in it, and what makes it correct

* **Ledger.** Two runs decide on the same observed commit. *Correct:* no
  25-hour window ever holds more than the cap of charges, an attempt id is never
  granted twice, what one command recorded no other drops, and an answer lost
  after a push never yields a second permit.
* **Guard.** Many processes, killed at any instant, share a counter. *Correct:*
  no transport without a charge, never more than the allowance, and the number
  the job reports covers all that was started.
* **State refs.** Repair acts on metadata alone, full validation comes later,
  promotion and rotation are further pushes. *Correct:* the pair is never half
  moved, nothing is built from a state that did not validate, no publication
  overwrites one it did not see, a valid state is never lost and in the end
  current.
* **Lifecycle.** One query of thousands of builds takes several runs over
  hours, during which builds finish, and the ledger has byte limits. *Correct:* no
  build falls between two cohorts, pages, runs or generations, what the limits leave
  out is named by its day, and the query terminates.
* **Managed issues.** Issue changes are immediate, the state that remembers
  them durable only much later. *Correct:* no duplicate issue, no change of
  an issue that is not ours, an alert that was dismissed on an issue whose record
  is settled stays dismissed, an ended one is closed, a standing one is heard.
* **Failure watchers.** Builds finish out of order and run again. *Correct:*
  each counts once and in order; incidents are what the policy says.
* **Hourly incident.** Each recovery credit is for one publication, and others
  publish in between. *Correct:* recovery is earned, only people mute.
* **Surface selection.** What a run restores, and for how long it may, is known
  only from what earlier runs published; audits widen the fallback pass by pass.
  *Correct:* every publication can be read by the next run, no clock restarts, a
  restored surface stays the one that was attested, the second failure in a row of
  one collector step is heard, and the site is current once nothing fails.
* **Watchdog and reconcilers.** They remember nothing: what was dispatched is a
  title in a list of runs that may be replaced, failed, or dead and still listed.
  *Correct:* the site keeps up with generations of the queue data that never stop
  coming (the last one may be given up when it is more than five hours old and no
  newer one comes), it never goes back, and it recovers without the schedule.
* **Weighted ledgers.** A job asks for one or two kinds of requests of different
  weight, beside telemetry that may exceed the cap. *Correct:* the ledgers keep
  the promise of a permit that never forgets, and no day sees more than the cap
  of request starts, although the DNS collector decides a second time.

The full list of hazards, each at its line and with the properties that would
catch it, is `hazards` in `PROJECT.json`.

## 2. Plan

Ordered by what would hurt most if it were wrong; done unless marked.

1. `RollingPermit` (abstract) and `AttemptBudget`, which implements it.
2. `DashboardState`.
3. `StartAllowance` (abstract) and `RequestGuard`, which implements it;
   `GuardedCollection` composes the two abstract specifications.
4. `LifecycleCheckpoint`.
5. `ManagedIssue` and `IncidentWatch`.
6. `HourlyIncident`.
7. `SurfaceSelection`, the selection over several runs.
8. `PublicationRecovery`, the planners with the runs they dispatch and their lease.
9. `WeightedPermit` (abstract) and `WeightedBudget`, which implements it.
10. *Next:* `BackfillCheckpoint`, `AnalyticsCache`, `PerfEvalRetention`: files of one
    job in a workflow cache, whose hazards are a restart between two writes and a
    merge that drops an entry.
11. *Proofs, done:* every safety property that a passing run checks, and the
    refinements of the three abstract specifications. *Next:* that
    `GuardedCollection` is implemented by the two detailed modules together, and
    the safety of the modules of item 10.

Every module is written to be proved about: parameters are CONSTANTS with named
assumptions, one action stands for one operation, recursion is avoided.

## 3. Modules and the code they model

A module is one component; `*MC` gives it model values for TLC, `*Proofs` holds its
theorems. Two proof modules hold those of several components: `HourlyJobProofs`
extends `GuardedCollection`, `RequestGuard` and `SurfaceSelection`, and
`DashboardStateProofs` extends `DashboardState` and `PublicationRecovery`. Modules
that are extended together share no name, which is why some have a `CollectionSpec`,
`SelectionSpec` or `RecoverySpec` instead of a `Spec`, and why theorems there begin
with `Guard`, `Selection` or `Site`. `RollingPermit`, `StartAllowance` and
`WeightedPermit` are abstract specifications. Variables marked HISTORY record what
happened for the properties; no action reads them except to update them. Definitions
marked MUTANT are plausible errors of the definition that follows them; nothing uses
them, and with one in the place of the definition the property that `PROJECT.json`
lists beside it fails.

**`AttemptBudget`** — `request_bearing_attempt_budget.py`. `store` is the branch,
`cmd[r]` the command that run *r* executes. `CallReserve` and `CallMark` start
one, `Look` is `git ls-remote`, `Decide` fetches what was looked up and computes
the draft, `Push` is the push with its lease and may succeed without an answer,
`Verify` reads the branch again, `Return` tells the workflow, `Crash` ends the run
at any point. The commit has no parent and fixed dates, so that its id is a
function of the ledger; the model identifies the two. Clocks are read once per
command, as in the code, and may be old when the push arrives.

**`RollingPermit`** — what the ledger promises: no run is charged twice within the
window, never more than `Cap` charges in a window, two of them at least
`RetryInterval` apart. It never forgets a charge; the ledger forgets those older
than the window, and implements it.

**`DashboardState`** — `dashboard_state.py` and the restore, repair, promotion,
candidate and publication steps of `hourly-master.yml`. `current` and `previous`
are the refs; a run has seen one pair of them and leases every push on it.
`ProbeCurrent` and `ProbePrevious` are two reads, so that the pair a run has seen
may never have existed. A commit is immutable: `Full` are those that pass
`validate-ref`, `Proven` those that pass the metadata and ancestry proofs. The
code's ancestry proof is against a main branch that advances; here it is fixed
per commit. The checked-in `bootstrap_allowed` is false; the run uses TRUE, which
only adds behaviours.

**`RequestGuard`** — `buildkite_request_guard.py`. One process (or thread) charges
in `Acquire`, `Read`, `Write` or `Refuse`, and `Release`, and only then has its
`Transport`. `Die` may come between any two of them and frees the lock. `Hidden`
processes have an adapter that retries below `Session.send`, which the guard
refuses. **`StartAllowance`** — its promise: once granted, at most `Allowance`
transports.

**`GuardedCollection`** — the job of `hourly-master.yml` that reserves an attempt
and then collects: the two abstract specifications composed under the timeout of
the job, for the bound the provider's quota is about: transports of any day.

**`LifecycleCheckpoint`** — `collect_queue_lifecycle.py` and `queue-lifecycle.yml`.
`wip` is the checkpoint in the file of the run, `cache` the one in the workflow
cache, `ledger` the one on the branch, `base` what the run restored.
`Discover` loads or begins a checkpoint, `ShortPage` and `FullPage` answer the
next request and write the file, `Publish` merges and pushes with a lease on
`base`, `Clear` and `Save` write the cache. `Kill`, `Evict`, `ForeignPush` and
`QueuesChange` are what happens to it. Builds are created and finish between all
of these. `Published` is the generation that is pushed: the rows that were merged,
or those of them that fit the byte limits. Which these are depends on sizes, so
`Fitting` allows every choice that the eviction of the code can make: whole UTC days
(`DayLength` ticks) from the oldest on, and within a newest day that is too large
alone, its oldest rows. `Omitted` is what the summary says of it: the days that lost
rows, and until the next full query those that earlier generations left out and the
window still holds. `AtCapacity` is the checkpoint that comes near its own limit. A
build stands for its jobs and is its last event; a parent build that runs again
after it finished is not modelled, nor are the recipients of the data. `Fail` is every
failure of the run. The local publication (two renames and a summary, rolled back
when one of them fails) is one step that succeeds or is such a failure: a failed
collector neither validates nor pushes, and the next run restores the branch and the
cache alone, so that a half rolled-back directory is read by nobody.

**`ManagedIssue`** — `reconcile_managed_issue`. `durable` is the state of the watcher
in the dashboard state, `st` the copy of the run, `issue` GitHub. Each request is
an action and has a refused twin; `Publish` makes `st` durable, and a run that is
lost leaves GitHub changed and `durable` as it was. People close, reopen and
disown issues in any state of a run. An alert is a fingerprint and a content. `closer`
and `mutedBy` are histories: who closed an issue, and whose close the last mute was
made of. They tell apart what the code cannot, a close by people and one by a run
that was lost before its state was durable. `Settled(n)` is the precondition of the
promise about dismissals: the durable state has the number of the issue and the
fingerprint of the present signal, and a run under way, if any, was started for
that signal (section 6 has what happens otherwise).

**`IncidentWatch`** — `advance_incidents` and `incident_transitions.py` for one test
group. `Begin` takes a catalog of the builds that are finished, `Take` folds one
build into the working copy, `Done` and `Publish` make it durable. Builds finish
in any order, run again, and leave the catalog for age. The world moves only
between two runs, because a run reads one catalog file.

**`HourlyIncident`** — `hourly_incident_recovery.js`, the incident steps of
`hourly-master.yml`, the finalizer of the queue and the job
`confirm-hourly-recovery` of `health-check.yml`. A run holds the lease
`gh-pages-deploy`, and `todo` is the list of its requests. What it writes is
computed from `seen`, what it looked up; people change the issue meanwhile. The
credits of a body are publications, and the code compares them with one only,
the one that is on Pages: `credited` and `named` are the issues with a credit for
it, the streak the number of all. `Worlds` are how the issues begin: none, legacy
issues that are migrated, and a closed owner slot beside an open legacy issue.
People act in the clean world.

**`SurfaceSelection`** — `select_publication`. `base` is the published tree with the
state the selector keeps in it, `run` the run that holds the lease, `health` what
its collectors will get. `Start` reads the collectors, `SourceAudit`,
`CandidateAudit` and `FinalAudit` are the passes of audits, each of which may
`Widen` the set of restored surfaces until nothing is found or nothing is left to
restore; `Publish` writes the next baseline, `Stop` ends a run that publishes
nothing. `Split` is the migration of a baseline of an older contract, in which one
surface became several; `Reading` is a baseline as the present contract reads it,
after every migration since its own. Content is the time it was collected and whether it is
weak. Which files a surface owns and which finding blames which surface are
abstracted; an audit of a mixed tree may blame any surface that disagrees with an
older one. A collector of a surface has several steps, and the code keys a failure by
surface, collector and step: `health` says which step fails, and streaks are kept by
surface and step, here `config` and `collect`, so that a failure at another step begins
again at one. `refused` and `fails` are the history, by surface and by surface and
step, that the clocks and streaks of the code have to agree with.

**`PublicationRecovery`** — `plan_queue_publication_reconcile.py`,
`plan_publication_watchdog.py` and the runs they dispatch. `durable`, `state` and
`pages` are the generation of the queue data on its branch, in the dashboard state and
on the site. Each kind of run has a `pending` and an `active` place, as in its
concurrency group; `line` is the queue of the lease, `monitor` the target of the
reconciliation job that is to come, and `ended` what the list of runs still shows of
runs that are over: failures, and dead runs shown as active. A snapshot of the queue
monitor that is granted a request begins a `NewGeneration`; one that is gated looks
again at the durable generation (`GatedLook`) until that is `late`, more than five
hours old, which `Expire` may say at any moment of a generation; one that the end of a
watchdog run woke up gives no target. A planner reads the site and the list in one
step. The watchdog is also woken by the end of a collection; its fairness needs the
schedule only. Left out: the age of a publication as a reason to dispatch, and the
generation in the key of an incident (without it more is suppressed); the repair of a
state slot (`DashboardState`); and the DNS planner, which follows the protocol of the
queue planner. A run of the schedule is a single step, which may come before the runs
that wait.

`PublicationRecoveryMC` lets generations go on for ever. A step compares and copies
generations and adds one to the newest, nothing else, so a state in which every
generation is lower by the same number has the same behaviours. `Rebase` does this
renumbering when the oldest generation in use is not 0; `MaxGen` then bounds how far
generations in use lie apart and no longer how many there are. The properties are
stated with `Behind`, the distance of the site from the branch, which a renumbering
does not change.

**`WeightedBudget`** — `queue_request_budget.py` and `dns_request_budget.py`, two
tools of one shape that never meet: `tool` says which one a behaviour is about. A
command is that of `AttemptBudget` without a mark: `Call`, `Look`, `Decide`, `Push`,
`Verify`, and then the job, whose collector `Spend`s a reservation of each kind.
The queue job is told the kinds; the DNS collector decides again from the state it
restored, by the clock of the ledger (`--now` of `dns-health.yml`), also when the
ledger has answered `interval_gated` (`Gate`). The transport guard, which would
stop a collector that is wrong, is left out of the model: the bound holds without
it. The workflows run one job at a time; the model lets jobs overlap, because the
tools rely on the lease of the push alone. `available_at` of a full ledger is only
printed: it is the time at which the present amount fits, and the queue may be
refused again then, if its details have become due meanwhile.

**`WeightedPermit`** — what both promise: one charge of every kind asked for, within
`Cap` starts of a window, legacy telemetry included, each kind its interval after
the last, no attempt id twice in a window. **`StartCount`** — the weight of a set of
reservations as the cardinality of a set, which proofs can count.

## 4. Runs

States are distinct ones, times are of two workers.

| Run | Bounds | Fairness | States, time | Shows |
|---|---|---|---|---|
| `attempt_budget` | 2 runs, 2 seed files, window 3, cap 1, clock 6 | none | 730,474, 23 s | no permit without a charge, no charge or success forgotten in its window, the cadence of starts, refinement of `RollingPermit` |
| `dashboard_state` | 2 runs, 6 commits, 2 foreign writes, 1 fault | each step of a run | 852,702, 43 s | a consistent pair, no lost update, no state built from an invalid one, recovery |
| `request_guard` | 3 processes, 1 hidden, allowance 3, 2 sends each | charging, transport | 10,768, 2 s | charge before transport, a report that covers, refinement of `StartAllowance`, no send hangs |
| `guarded_collection` | 4 runs, cap 2, allowance 2, window 3, day 2, job 1 | none | 154,470, 5 s | at most cap x allowance transports in any day |
| `lifecycle_checkpoint` | 2 builds, lookback 3, page of 2, 4 units, day of 2, retention 2, clock 5, 3 generations, 1 upset | steps of a run | 1,381,118, 88 s | no build falls through, the ledger forgets nothing in its window without naming its day, generations end |
| `managed_issue` | 4 issues, 3 changes, 2 upsets, 2 acts of people | steps of a run | 1,779,245, 69 s | no duplicates, only owned issues change, settled dismissals hold, ended alerts close, a standing one is heard or muted by a close of people or of a lost run |
| `incident_watch` | 3 builds, both settings, 1 retry, 1 lost run | runs begin, fold, publish | 1,447,860, 71 s | each build once and in order, incidents as the policy says, the newest counts |
| `hourly_incident` | 2 signals, 2 issues, 3 acts of people, 1 lost run | strong for hourly runs, weak for requests | 135,671, 10 s | only people mute, recovery is earned, a lasting signal is heard |
| `surface_selection` | 3 surfaces in 2 contracts, 1 of them refreshable, 2 collector steps, 1 of them failing in a run, ages 2 and 1, 2 changes for the worse, clock 3 | steps of a run, strong for hourly runs | 1,896,333, 130 s | readable publications, the 36-hour limit, restored surfaces stay as attested, at most one quiet failure of a step in a row, recovery |
| `publication_recovery` | generations without end, at most 2 apart, 3 kinds of runs, cooldown and listing age 0, 1 upset | planners, time, steps of runs; not the schedule | 1,753,404, 168 s | the site never goes back, keeps up with generations, recovers |
| `weighted_budget` | 2 jobs, weights 1, 2 and 2, cap 4, telemetry of 5 and 2, window 3, clock 5 | none | 206,417, 45 s | no day over the cap, refinement of `WeightedPermit` |
| `hourly_incident_slots` | as in the cfg | none | | the finding of section 6 |

**Why the bounds are enough.** Two runs are enough for every race on a ref or a
ledger, since a third one only sees what a second could have left; four in
`guarded_collection`, so that the cap is reached in two overlapping windows. A window
of 3 has charges inside it, at its edge and out of it. Six state commits are the pair
of the start, two that the runs build, one that is merely proven and one that is
neither. In `request_guard` three processes with two sends each ask for six transports
of an allowance of three. Two builds and a page of two make full pages, hence splits,
and one build may finish while the other is paged; the three generations are a full
one, an incremental one and a full reconciliation. An upset may be a ledger over its
limits, with an incremental generation after it that has to carry the omitted day; a
day of 2 ticks puts two builds in one day or in two. Four issues are the canonical
one, a duplicate that people reopen, a foreign one and a new one. Three builds give a
slow one, a newer one and one that confirms. Three acts of people close, open and
close again one issue within one run. In `surface_selection` the pair of the retry
transaction, a dated surface and a refreshable one are all there, and a clock of 3
passes the age limit of 2. Two collector steps are enough for a failure at another
step between two of the same; one of them fails in a run (`Together`), for a collector
is skipped when an earlier one has failed its surface; the theorems hold for any
number. In `publication_recovery` generations in use are at most two apart, one that a
run was dispatched for and one that overtakes it, and they never end
(`PublicationRecoveryMC`): a watchdog suppressed by queue runs for ever, and a site
that is always some generation behind, are behaviours of the run. One upset is any
single failure, dead run, unreadable list or damaged site, at any moment, after which
the system has to come back. In `weighted_budget` a cap of 4 holds a metrics and a
details reservation but not two of each, and telemetry of 5 exceeds it; with a clock
of 6 the result is the same (746,073 states).

**Deadlock** is checked where the system never stops by itself (`attempt_budget`,
`dashboard_state`, `surface_selection`, `publication_recovery`, `weighted_budget`);
the other models stop at their bounds, with every run over, every process ended or
every clock at its end, and say so.

**Fairness.** The workflows are scheduled for ever, and the steps of a job follow one
another: that is weak fairness of the steps of a run, and nothing more is assumed of
it. No fairness is assumed of people, of crashes, of foreign pushes or of builds. In
`publication_recovery` not even the schedule of the collection is assumed, only that
of the planners, and not how often the queue monitor is granted a request. What its
liveness rests on is in the properties: `QueueReaches` excuses a last generation that
is five hours old without a newer one, because the code gives it up
(queue-monitor.yml:363-370). `Recovers` demands the attempt of a due collection only
if generations do not advance for ever, because every listed run of Data Collection
suppresses the watchdog (plan_publication_watchdog.py:311-325), and queue runs can
come for ever; the schedule of the hourly workflow, which is not assumed, is then what
ends the starvation. The hourly run alone gets strong fairness: the concurrency group
`gh-pages-deploy` is declared with `queue: max`, first in first out and without
cancellation, so that a waiting hourly run gets the lease although other runs take it
in between. `Advances` speaks of generations up to a bound and excuses one that is
recorded as terminal, which the code never retries by itself.

## 5. Proofs

The theorems hold for every value of the constants under the named assumptions
of each module (what `load_policy` demands of a configuration; that the window
of 25 hours covers a day and the 50 minutes of a job; finiteness of the sets of
processes). A component is proved by an inductive invariant `IInv`: `Initially`,
one lemma per action or group of actions, `Invariance`, and from it the rest (in a
module with several components, `CollectionInv`, `GuardInv`, `SelectionInv` and
`SiteInv`). TLC checked each invariant before it was proved.

* **`AttemptBudgetProofs`** — `RollingCap` is not inductive: the code counts the
  rows of a ledger, and the property is about charges that the ledger may have
  pruned. The invariant adds that every charge that is still in the window of the
  ledger's last update is a runtime row of it (`Remembered`), that the branch
  holds an acceptable ledger, and what a command knows at each of its steps. A
  push that finds its lease is then a decision on the present ledger.
  `ImplementsPermit` shows that each such push is a charge of `RollingPermit`;
  `ChargesPersistHolds` and `CadenceKeptHolds` compare the ledger before and after
  such a push, row by row.
* **`DashboardStateProofs`** — the invariant says of each run what the pair that
  it has seen allows it at its step: a lease that holds makes what it has seen
  the present pair. Pair consistency, no lost update, the survival of the last
  full state and the condition of a bootstrap follow. The same module proves
  `PublicationRecovery`: a queue run publishes what the branch holds when it gets
  the lease, not what it was dispatched for. The invariant orders the site, the
  state, what the holder of the lease has built, and the branch; one holder at a
  time makes every write of the site a step forward (`SiteNeverOlder`).
* **`HourlyJobProofs`**, `GuardedCollection` — each transport of a day is numbered
  within its job, whose charge lies within a day and a job, hence within one
  window; the transports are injected into charges x 1..JobAllowance.
  `RequestGuard` — the holder of the lock is in its critical section and the file is
  what it has read; so the file counts all charges, and the transports and those
  about to start are at most that many. `GuardImplementsAllowance` is the
  refinement. `SurfaceSelection` — see below.
* **`IncidentWatchProofs`** — two fences keep a build from counting late: the
  watermark of the group, and the `through` of the watcher for groups whose
  watermark was pruned. The invariant says that what either covers was counted
  or will never be, for the durable and the working state. `ExplainedHolds` is about
  histories of any length without an induction over them: `Told` describes the
  builds since the last pass by their newest pass, hard and second soft result,
  and one more build changes these three in a way that the policy follows.
* **`LifecycleCheckpointProofs`** — `AliveSeen` speaks of a complete query only. The
  invariant says of every checkpoint, at any page, in a run or in the cache, that
  a build in its scope was observed or is still asked for by a pending unit of the
  right cohort, while the build may be created or finish at any time between the
  pages. `FinishedKnown` needs that a checkpoint on its way to the ledger was
  started from that very ledger and ends after it: that is what the generation in
  it and the lease of the push give. Both hold for any choice of the rows that fit
  (`Fitting`): a finished build is in the ledger, or its day is in `omitted`, and
  `PublishKnows` shows that an incremental generation carries the day forward as long
  as the window has it. `MonotoneHolds` follows.
* **`ManagedIssueProofs`** — a run acts on what it read some steps ago. The
  invariant says what each step may still rely on, apart from the issues people
  touched since the run began: the issue it writes to has its marker (`OnlyOwned`),
  and a lookup that led to no issue is still right (`NoDuplicate`). A dismissed
  signal is followed from the recorded issue, through every run that finds it
  closed, to the mute that replaces it (`DismissedStays`). `Settled` gives its
  beginning: with a run under way for the same signal, the invariant follows the
  number or the mute in the working state too (`MidRun`), so that neither its
  publication nor its loss forgets the dismissal (`RemembersInv`).
* **`HourlyIncidentProofs`** — a run computes from an old lookup, so the
  invariant relates the lookup to the issue as it is now: if it is closed and was
  not a recovered one when it was looked up, a person has closed it. With it, no
  write leaves a closed issue that mutes its signal unless a person closed it,
  and every credit is counted in its streak. `Earned` needs a second invariant,
  `EInv`. `Shape`: what the issues of each beginning can become, so that a lookup
  finds one issue, the `Slot`, or is ambiguous. `Knows`: from the lookup to the
  write, the streak, the signal and the mark that a run saw are still those of the
  slot, for people only open and close. `Earning`: the streak of an issue that has
  not recovered is at most the publications credited since the last unhealthy
  run, and the publication on Pages is one of these only if the issue has its
  credit.
  From the same invariant, in a repository without legacy issues there is never a
  second issue (`NeverDuplicated`), and the finding of section 6 needs the
  beginning it has (`OneSlotUnlessStale`).
* **`HourlyJobProofs`**, `SurfaceSelection` — `Reading` is a recursive function from
  the contract of a baseline to the present one. What every migration keeps (the
  clocks of a surface pass to the surfaces it became, streaks stay at their surface
  and step) holds along
  the chain by the least contract at which it would fail, from
  the well-ordering of the naturals; no induction over data is needed. The
  invariant says that the fallback lane of a run is what it restored and attested
  at each pass, that both lanes hold what has to be in them and nothing without a
  reason, and that the published clocks are those the history of refusals gives.
  `SelectionAssumption` takes `Persist` from 1..2: the code has 2, and with 3
  `QuietOnce` would fail, because the policy keeps one bit and not the number of
  failures.
* **`WeightedBudgetProofs`** — as in `AttemptBudgetProofs` every charge that is still
  in the window of the ledger is one of its rows, so that a push that finds its
  lease has counted it, telemetry included; a job that collects has a charge for
  every kind its collector will decide on, also for the DNS collector, whose
  second decision agrees with the first because its clock and its state do. The
  starts of a day are then injected into those of the reservations of one window.

**Only model-checked.** Liveness: `SelfHealing`, `SendEnds`, `Advances`, `EndedCloses`,
`StandingHeard`, `NewestCounts`, `Heard`, `SelfHeals`, `QueueReaches` and `Recovers`.
They need fairness, hence ENABLED, which the prover does not reason about.
`OneSlot` is violated (section 6).

## 6. Findings

`hourly_incident_slots` — `hourly_incident_recovery.js:374`. When an open legacy
issue exists, only open issues are looked up, and a closed current owner slot
stays as it is. Once the adopted issue closes there are two closed slots, every
later lookup is ambiguous and fails closed, and neither a failure nor a
recovery is reported. Line 426 describes the label as "Single incident slot
owned by hourly-master", and `test_hourly_incident_recovery.py:484` has the
start of this run as a case that must work.

`PROJECT.json` quotes the lines.

Limits of the managed issues that showed while modelling are stated in the model.
The docstring (`managed_issue.py:5`) says that a manually closed issue stays
suppressed; `DismissedStays` holds of issues whose record is settled, and the code
keeps no more than that:

* The run that opened the issue is lost before it publishes: the number is not on
  record, and when a person closes the issue the next run does not look for it and
  opens another one.
* A run renders another signal into the recorded issue and is lost, or is under way
  for another signal: a close of the issue mutes the recorded, old signal (669-670),
  and a later run opens another issue for the new one.
* The reverse: a run closes the issue of an ended alert and is lost, and the alert
  returns. The next run finds the recorded issue closed, takes that for a person's
  close ("manually closed", 671), and mutes the signal although nobody dismissed it.
  `StandingHeard` names this case (`mutedBy` is then `"lost"`) and excludes every
  other mute without a person.
* A number found by its marker is kept in the state (777-781) when ensuring its
  labels is refused (793), before its content was brought up to date.

They are listed here and are not runs of their own: each needs a lost run between
the request and the publication of the state.

## 7. What is not modelled

The reasons are with each component in `PROJECT.json`. In short:

* *Planned* (section 2, item 10): caches, retention and the backfill checkpoint.
* *Data transformation*: the analyzers, statistics, audit, snapshot and
  projection turn files into files. They keep no state between runs, and what
  could go wrong in them is arithmetic and parsing that unit tests reach.
* *Pure I/O or rendering*: the proofs of git objects, the project board, the
  site build and the front end.
* Inside modelled components: the text of issues and bodies, digests (a digest
  is identified with what it is taken of), the bisection range of an incident,
  how findings become a fingerprint, the sizes and encoding of ledger segments, the
  local renames of `_publish_generation`, the 2-of-3 quorum of a probe, and the
  separate site-health issue of `health-check.yml`.
