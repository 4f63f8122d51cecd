------------------------ MODULE LifecycleCheckpoint -------------------------
(***************************************************************************)
(* The resumable queue-lifecycle collection                                *)
(* (scripts/vllm/collect_queue_lifecycle.py, run by                        *)
(* .github/workflows/queue-lifecycle.yml).                                 *)
(*                                                                         *)
(* A generation asks for every parent build of a frozen query horizon.  It *)
(* covers three cohorts by half-open created-time units, asks for page one *)
(* of each unit in turn, accepts a short page and splits the unit of a     *)
(* full one, and writes the checkpoint after every page.  A run that uses  *)
(* up its allowance or its time saves the checkpoint in a cache, and a     *)
(* later run goes on where it stopped; builds go on being created and      *)
(* finishing meanwhile.  A complete checkpoint is merged into the ledger   *)
(* on the durable branch, whose watermark starts the next generation.  A   *)
(* ledger over its byte limits drops its oldest days and records which.    *)
(*                                                                         *)
(* Units are kept as a set: their order in the file is that of cohort and  *)
(* start.  Times are ticks of one clock.                                   *)
(***************************************************************************)
EXTENDS Integers, FiniteSets

CONSTANTS
    Build,        \* parent builds
    Lookback,     \* RETENTION_DAYS + PARENT_BUILD_LOOKBACK_DAYS
    Retention,    \* RETENTION_DAYS
    Overlap,      \* INCREMENTAL_OVERLAP_HOURS
    FullInterval, \* FULL_RECONCILIATION_INTERVAL_HOURS
    DayLength,    \* ticks of a UTC day
    PageSize,     \* REST_PAGE_SIZE
    MaxUnits,     \* MAX_CHECKPOINT_QUERY_UNITS
    MaxTime,      \* BOUND: the clock stops here
    MaxGeneration,\* BOUND: publications
    MaxUpset      \* BOUND: kills, failures, evictions, foreign pushes, new queue ids,
                  \* ledgers and checkpoints over their byte limits

ASSUME LifecycleAssumption ==
    /\ Lookback \in Nat \ {0} /\ Overlap \in Nat /\ FullInterval \in Nat \ {0}
    /\ Retention \in Nat /\ Retention <= Lookback
    /\ DayLength \in Nat \ {0} /\ PageSize \in Nat \ {0} /\ MaxUnits \in Nat
    /\ MaxTime \in Nat /\ MaxGeneration \in Nat /\ MaxUpset \in Nat
    /\ IsFiniteSet(Build)

Never == -1
NoCheckpoint == [base |-> Never]

Cohort == {"recent_created", "older_active", "older_finished"}
Rank == [k \in Cohort |-> CASE k = "recent_created" -> 1
                            [] k = "older_active" -> 2
                            [] k = "older_finished" -> 3]

VARIABLES
    now,
    created, finished, \* when a build was created and when it finished
    queues,     \* the identity of the target queues
    ledger,     \* the durable branch: generation, watermarks, builds known
                \* finished, days of which it has dropped builds
    cache,      \* the checkpoint in the cache of the workflow
    pc,         \* the step of the run in progress, or "idle"
    clock,      \* when that run started
    base,       \* the ledger that run restored
    wip,        \* its checkpoint file
    advanced,   \* it has been answered a page
    upsets

builds == <<created, finished>>
run == <<pc, clock, base, wip, advanced>>
vars == <<now, builds, queues, ledger, cache, run, upsets>>

-----------------------------------------------------------------------------
\* _collection_query_plan: a full query when there is no watermark or the last
\* full one is old, otherwise from the watermark less the overlap.
IsFull(l, end) == l.watermark = Never \/ end - l.full >= FullInterval

Larger(a, b) == IF a >= b THEN a ELSE b

QueryStart(l, end) ==
    IF IsFull(l, end) THEN end - Lookback
    ELSE Larger(end - Lookback, l.watermark - Overlap)

Unit(k, from, to) == [cohort |-> k, from |-> from, to |-> to, complete |-> FALSE]

\* _lifecycle_cohorts: everything recent in any state, and of the older builds
\* those unfinished and those finished since.
Roots(start, end) ==
    {Unit("recent_created", start, end)} \cup
    (IF end - Lookback < start
     THEN {Unit(k, end - Lookback, start) : k \in {"older_active", "older_finished"}}
     ELSE {})

\* _new_checkpoint.
NewCheckpoint(l, end) ==
    [base |-> l.generation, start |-> QueryStart(l, end), end |-> end,
     queues |-> queues, units |-> Roots(QueryStart(l, end), end),
     terminal |-> FALSE, seen |-> {}, done |-> {}]

Complete(c) == \A u \in c.units : u.complete

\* MUTANT of Before: finished builds are asked for before active ones.
BeforeSwapped(u, v) ==
    Rank[v.cohort] < Rank[u.cohort] \/ (u.cohort = v.cohort /\ u.from < v.from)

\* The order of units in the file.
Before(u, v) ==
    Rank[u.cohort] < Rank[v.cohort] \/ (u.cohort = v.cohort /\ u.from < v.from)

\* The first unit that is not complete.
Pending(c) == {u \in c.units : ~u.complete}
FirstPending(c, u) == u \in Pending(c) /\ \A v \in Pending(c) : ~Before(v, u)

\* What the organization builds endpoint holds for a unit: created inside the
\* half-open interval and in the states of the cohort.
Rows(c, u) ==
    {b \in Build :
        /\ created[b] # Never /\ u.from <= created[b] /\ created[b] < u.to
        /\ CASE u.cohort = "recent_created" -> TRUE
             [] u.cohort = "older_active" -> finished[b] = Never
             [] u.cohort = "older_finished" ->
                  finished[b] # Never /\ finished[b] >= c.start}

Halves(u) ==
    LET mid == u.from + (u.to - u.from) \div 2
    IN {Unit(u.cohort, u.from, mid), Unit(u.cohort, mid, u.to)}

Splittable(u) == u.from + (u.to - u.from) \div 2 > u.from

\* The unit is complete and its observations are merged, in one write.  What
\* happens at or after the horizon is left to the next generation.
Accept(c, u, rows) ==
    [c EXCEPT !.units = (@ \ {u}) \cup {[u EXCEPT !.complete = TRUE]},
              !.seen = @ \cup rows,
              !.done = @ \cup {b \in rows : finished[b] # Never /\ finished[b] < c.end}]

\* _split_checkpoint_unit.
Split(c, u) == [c EXCEPT !.units = (@ \ {u}) \cup Halves(u)]

-----------------------------------------------------------------------------
Init ==
    /\ now = Lookback
    /\ created \in [Build -> {Never, 0}] /\ finished = [b \in Build |-> Never]
    /\ queues = 0 /\ upsets = 0
    /\ ledger = [generation |-> 0, watermark |-> Never, full |-> Never, done |-> {},
                 omitted |-> {}]
    /\ cache = NoCheckpoint
    /\ pc = "idle" /\ clock = now /\ base = ledger /\ wip = NoCheckpoint
    /\ advanced = FALSE

Tick == /\ now < MaxTime /\ now' = now + 1
        /\ UNCHANGED <<builds, queues, ledger, cache, run, upsets>>

BuildCreated(b) ==
    /\ created[b] = Never
    /\ created' = [created EXCEPT ![b] = now]
    /\ UNCHANGED <<now, finished, queues, ledger, cache, run, upsets>>

BuildFinished(b) ==
    /\ created[b] # Never /\ finished[b] = Never
    /\ finished' = [finished EXCEPT ![b] = now]
    /\ UNCHANGED <<now, created, queues, ledger, cache, run, upsets>>

\* The reserved run restores the durable branch and the newest cache.
Begin ==
    /\ pc = "idle" /\ ledger.generation < MaxGeneration
    /\ pc' = "load" /\ clock' = now /\ base' = ledger /\ wip' = cache
    /\ advanced' = FALSE
    /\ UNCHANGED <<now, builds, queues, ledger, cache, upsets>>

\* _validate_checkpoint_context.
Usable(c) ==
    /\ c # NoCheckpoint /\ c.base = base.generation /\ c.end <= clock
    /\ c.start = QueryStart(base, c.end)

\* _load_checkpoint: an unusable checkpoint is discarded, a terminal one fails
\* the run, and a complete one needs no request.
Load ==
    /\ pc = "load"
    /\ wip' = IF Usable(wip) THEN wip ELSE NoCheckpoint
    /\ pc' = IF ~Usable(wip) THEN "discover"
             ELSE IF wip.terminal THEN "save"
             ELSE IF Complete(wip) THEN "ready" ELSE "discover"
    /\ UNCHANGED <<now, builds, queues, ledger, cache, clock, base, advanced, upsets>>

\* The target queues are resolved again; a checkpoint bound to others restarts.
Discover ==
    /\ pc = "discover"
    /\ wip' = IF wip = NoCheckpoint \/ wip.queues # queues
              THEN NewCheckpoint(base, clock) ELSE wip
    /\ pc' = "query"
    /\ UNCHANGED <<now, builds, queues, ledger, cache, clock, base, advanced, upsets>>

\* A page shorter than PageSize completes the unit.
ShortPage ==
    /\ pc = "query"
    /\ \E u \in wip.units :
        /\ FirstPending(wip, u)
        /\ Cardinality(Rows(wip, u)) < PageSize
        /\ wip' = Accept(wip, u, Rows(wip, u))
    /\ advanced' = TRUE
    /\ pc' = IF Complete(wip') THEN "ready" ELSE "query"
    /\ UNCHANGED <<now, builds, queues, ledger, cache, clock, base, upsets>>

\* A full page splits the unit, or ends the query for good.
FullPage ==
    /\ pc = "query"
    /\ \E u \in wip.units :
        /\ FirstPending(wip, u)
        /\ Cardinality(Rows(wip, u)) >= PageSize
        /\ IF Splittable(u) /\ Cardinality(wip.units) < MaxUnits
           THEN wip' = Split(wip, u) /\ pc' = "query"
           ELSE wip' = [wip EXCEPT !.terminal = TRUE] /\ pc' = "save"
    /\ advanced' = TRUE
    /\ UNCHANGED <<now, builds, queues, ledger, cache, clock, base, upsets>>

\* The allowance (exit 75) or the wall clock (exit 76) ends the run after at
\* least one page.
Yield ==
    /\ pc \in {"query", "ready"} /\ advanced
    /\ pc' = "save"
    /\ UNCHANGED <<now, builds, queues, ledger, cache, clock, base, wip, advanced,
                   upsets>>

Upset == upsets < MaxUpset /\ upsets' = upsets + 1

\* The checkpoint comes near its byte limit: checkpoint_capacity is terminal too.
AtCapacity ==
    /\ pc = "query" /\ Upset
    /\ wip' = [wip EXCEPT !.terminal = TRUE]
    /\ pc' = "save"
    /\ UNCHANGED <<now, builds, queues, ledger, cache, clock, base, advanced>>

\* A lookup, a page, the publication in the files of the run, which is rolled
\* back, the validation, the push or, after the push, the success marker fails:
\* the run fails, skips the steps up to the cache, and saves what it had.
Fail ==
    /\ pc \in {"discover", "query", "ready", "clear"} /\ Upset
    /\ pc' = "save"
    /\ UNCHANGED <<now, builds, queues, ledger, cache, clock, base, wip, advanced>>

\* The lease of the push on the restored baseline.
Leased == ledger.generation = base.generation

\* A job is retained while one of its events is in the retention window; the
\* last event of a finished build is its end.
Retained(done, end) == {b \in done : finished[b] >= end - Retention}

\* MUTANT of Merged: the query replaces the ledger.
MergedAlone(l, c) == Retained(c.done, c.end)

\* merge_and_prune_jobs.
Merged(l, c) == Retained(l.done \cup c.done, c.end)

Day(t) == t \div DayLength
Window(end) == {Day(t) : t \in (end - Retention)..(end - 1)}

\* _prepare_job_segments: what is left of the rows under the byte limits.  Whole
\* days go first, the oldest of them first, and of a newest day that is too large
\* alone the latest rows stay.  (Nothing is left when the rows that stay are of
\* jobs that have not ended.)
Fitting(rows) ==
    {kept \in SUBSET rows :
        \A a \in rows \ kept, b \in kept :
            \/ Day(finished[a]) < Day(finished[b])
            \/ /\ finished[a] <= finished[b]
               /\ \A k \in kept : Day(finished[k]) = Day(finished[b])}

\* MUTANT of Omitted: the days dropped before are not carried forward.
OmittedNow(l, c, kept) == {Day(finished[b]) : b \in Merged(l, c) \ kept}

\* _ledger_retention_metadata: the days of the rows left out, and until a full
\* query those that earlier generations left out and the window still has.
Omitted(l, c, kept) ==
    {Day(finished[b]) : b \in Merged(l, c) \ kept} \cup
    (IF IsFull(l, c.end) THEN {} ELSE l.omitted \cap Window(c.end))

\* MUTANT of Published: the watermark is the wall clock of the publishing run.
PublishedAtClock(l, c, kept) ==
    [generation |-> l.generation + 1, watermark |-> clock,
     full |-> IF IsFull(l, c.end) THEN c.end ELSE l.full,
     done |-> kept, omitted |-> Omitted(l, c, kept)]

\* The generation that is pushed: what fits, and the provenance of its summary.
Published(l, c, kept) ==
    [generation |-> l.generation + 1, watermark |-> c.end,
     full |-> IF IsFull(l, c.end) THEN c.end ELSE l.full,
     done |-> kept, omitted |-> Omitted(l, c, kept)]

Publish ==
    /\ pc = "ready"
    /\ \/ /\ Leased
          /\ \E kept \in Fitting(Merged(base, wip)) :
               /\ IF kept = Merged(base, wip) THEN UNCHANGED upsets ELSE Upset
               /\ ledger' = Published(base, wip, kept)
          /\ pc' = "clear"
       \/ /\ ~Leased
          /\ pc' = "save" /\ UNCHANGED <<ledger, upsets>>
    /\ UNCHANGED <<now, builds, queues, cache, clock, base, wip, advanced>>

\* clear_lifecycle_checkpoint.
Clear ==
    /\ pc = "clear"
    /\ wip' = NoCheckpoint /\ pc' = "save"
    /\ UNCHANGED <<now, builds, queues, ledger, cache, clock, base, advanced, upsets>>

EndRun == /\ pc' = "idle" /\ wip' = NoCheckpoint /\ base' = ledger
          /\ clock' = now /\ advanced' = FALSE

\* MUTANT of Save: the cache is saved only after a publication.
SaveWhenPublished ==
    /\ pc = "save"
    /\ cache' = IF wip = NoCheckpoint THEN wip ELSE cache
    /\ EndRun
    /\ UNCHANGED <<now, builds, queues, ledger, upsets>>

\* The cache step runs always(), after whatever failed.
Save ==
    /\ pc = "save"
    /\ cache' = wip
    /\ EndRun
    /\ UNCHANGED <<now, builds, queues, ledger, upsets>>

\* The job loses its runner, or the cache cannot be written.
Kill ==
    /\ pc # "idle" /\ Upset
    /\ EndRun
    /\ UNCHANGED <<now, builds, queues, ledger, cache>>

\* The cache is evicted.
Evict == /\ cache # NoCheckpoint /\ Upset
         /\ cache' = NoCheckpoint
         /\ UNCHANGED <<now, builds, queues, ledger, run>>

\* Somebody else pushes the same observations to the durable branch.
ForeignPush ==
    /\ Upset /\ ledger.generation < MaxGeneration
    /\ ledger' = [ledger EXCEPT !.generation = @ + 1]
    /\ UNCHANGED <<now, builds, queues, cache, run>>

\* A target queue is recreated under another id.
QueuesChange ==
    /\ Upset
    /\ queues' = queues + 1
    /\ UNCHANGED <<now, builds, ledger, cache, run>>

Step == Begin \/ Load \/ Discover \/ ShortPage \/ FullPage \/ Publish \/ Clear \/ Save

Next ==
    \/ Step \/ Yield \/ AtCapacity \/ Fail \/ Kill \/ Evict \/ ForeignPush \/ QueuesChange \/ Tick
    \/ \E b \in Build : BuildCreated(b) \/ BuildFinished(b)

Spec == Init /\ [][Next]_vars

\* The schedule starts runs for ever, and a run takes its next step.
FairSpec == Spec /\ WF_vars(Step)

-----------------------------------------------------------------------------

\* A complete query observed every build of the lookback that was alive at its
\* horizon, though builds finish between its pages and between its runs.
AliveSeen ==
    pc = "ready" =>
        \A b \in Build :
            /\ created[b] # Never
            /\ wip.end - Lookback <= created[b] /\ created[b] < wip.end
            /\ finished[b] = Never \/ finished[b] >= wip.end
            => b \in wip.seen

\* The ledger knows the end of every build of the lookback that finished in the
\* retention window before its watermark, or says that it has left out builds of
\* that day, across full and incremental generations, interrupted and discarded
\* checkpoints, foreign pushes and ledgers cut to their byte limits.
FinishedKnown ==
    ledger.watermark # Never =>
        \A b \in Build :
            /\ created[b] # Never /\ ledger.watermark - Lookback <= created[b]
            /\ finished[b] # Never /\ finished[b] < ledger.watermark
            /\ ledger.watermark - Retention <= finished[b]
            => b \in ledger.done \/ Day(finished[b]) \in ledger.omitted

\* The ledger forgets no build inside the retention window except on a day that it
\* then says is incomplete, calls such a day complete again only after a full
\* query, and its watermark never moves back.
Monotone ==
    [][ledger' # ledger =>
        /\ \A b \in Retained(ledger.done, ledger'.watermark) :
              b \in ledger'.done \/ Day(finished[b]) \in ledger'.omitted
        /\ \/ ledger.omitted \cap Window(ledger'.watermark) \subseteq ledger'.omitted
           \/ ledger'.full = ledger'.watermark
        /\ ledger.watermark <= ledger'.watermark]_vars

Stopped == cache # NoCheckpoint /\ cache.terminal

\* Bounded runs add up: each generation is published in the end, unless a
\* terminal failure is on record.
Advances ==
    \A g \in 0..(MaxGeneration - 1) :
        ledger.generation = g ~> (ledger.generation > g \/ Stopped)
=============================================================================
