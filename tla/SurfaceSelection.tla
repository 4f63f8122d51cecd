-------------------------- MODULE SurfaceSelection --------------------------
(***************************************************************************)
(* Which generation of each data surface a publication carries             *)
(* (scripts/vllm/select_publication_surfaces.py, select_publication).      *)
(*                                                                         *)
(* A run collects a candidate tree, and then widens a set of surfaces to   *)
(* restore from the last published tree, the baseline: failed collectors   *)
(* first, then what the source audit, the candidate audit and each final   *)
(* audit blame, until an audit finds nothing or nothing is left to         *)
(* restore.  A refresh-only run attempts one surface and carries the lanes *)
(* of the others.  The published state is the memory of the next run:      *)
(* clocks, manifests, failure streaks and the incident policy.             *)
(*                                                                         *)
(* Content is the time it was collected and whether it is weak: good       *)
(* enough to be published, as degraded.  An audit reports what is wrong    *)
(* with the tree, and once something is restored it may also find that a   *)
(* surface disagrees with the older generation.                            *)
(* The lease of the workflow keeps the baseline still during a run.        *)
(***************************************************************************)
EXTENDS Naturals, Sequences, FiniteSetsExt

CONSTANTS
    Surface, Full,   \* Full: the attempt of every surface, not a surface
    Refreshable,     \* surfaces a refresh-only run may attempt
    Dated,           \* surfaces whose content an audit can date
    CollectorStep,   \* collectors and steps of the workflow that can fail a surface
    Together,        \* BOUND: steps of a surface that fail in one run; a collector is
                     \* skipped when an earlier one has failed its surface
    RetryOwner,      \* the surface that attests an active retry upstream
    Pair,            \* UPSTREAM_RETRY_TRANSACTION_SURFACES
    Had,             \* per contract: the surfaces it knew
    Splits,          \* per contract change: the surfaces one surface became
    MaxAge,          \* FALLBACK_MAX_AGE_HOURS
    FreshAge,        \* OPERATIONS_SOURCE_MAX_AGE_HOURS
    Persist,         \* TRANSIENT_ALERT_PERSISTENCE_RUNS
    MaxClock,        \* BOUND: time
    MaxUpset,        \* BOUND: changes of the world for the worse
    Beginning        \* BOUND: contract, clocks and fallback of the first baseline

Contract == 1..Len(Had)
\* Persist is 2 in the code; with more, a passing failure after one that is for good
\* would be kept quiet.
ASSUME SelectionAssumption ==
    /\ Full \notin Surface
    /\ Refreshable \cup Dated \cup Pair \cup {RetryOwner} \subseteq Surface
    /\ Had \in Seq(SUBSET Surface) /\ Splits \in Seq([Surface -> SUBSET Surface])
    /\ Len(Had) = Len(Splits) + 1
    /\ MaxAge \in Nat \ {0} /\ FreshAge \in Nat /\ Persist \in 1..2
    /\ MaxClock \in Nat /\ MaxUpset \in Nat
    /\ \A b \in Beginning :
          /\ b.contract \in Contract
          /\ b.fallback \subseteq DOMAIN b.degradedSince
          /\ DOMAIN b.degradedSince \subseteq Surface
          /\ \A s \in DOMAIN b.degradedSince : b.degradedSince[s] \in 0..1

\* What a run finds of a surface, and the steps that record a failure of it.
Finding(kind, steps) == [kind |-> kind, steps |-> steps]
Health ==
    {Finding(kind, {}) : kind \in {"ok", "weak", "bad", "retry"}}
    \cup {Finding(kind, steps) : kind \in {"transient", "hard"},
                                steps \in UNION {kSubset(n, CollectorStep) : n \in 1..Together}}
Attempt == Refreshable \cup {Full}

VARIABLES
    clock, upsets,
    health,   \* of the world: collectors fail, for now or for good, or their data is bad or weak
    base,     \* the published tree and its selector state
    run,      \* the run that holds the lease
    refused,  \* HISTORY: since when a published surface is restored content
    fails     \* HISTORY: attempts of a surface in a row that failed at a step

selectionVars == <<clock, upsets, health, base, run, refused, fails>>

Clocks(S, old, now) == [s \in S |-> IF s \in DOMAIN old THEN old[s] ELSE now]

(***************************************************************************)
(* The baseline as this code reads it.                                     *)
(***************************************************************************)
Expanded(since, Into) ==
    [s \in UNION {Into[o] : o \in DOMAIN since} |->
        Min({since[o] : o \in {p \in DOMAIN since : s \in Into[p]}})]

Split(b, Into) ==
    [b EXCEPT !.contract = @ + 1,
              !.degradedSince = Expanded(@, Into),
              !.fallbackSince = Expanded(@, Into),
              !.manifest = [s \in DOMAIN Expanded(b.fallbackSince, Into) |-> b.content[s]]]

\* One migration for each contract the baseline is behind.
Reading(b) ==
    LET read[c \in b.contract..Len(Had)] ==
            IF c = b.contract THEN b ELSE Split(read[c - 1], Splits[c - 1])
    IN  read[Len(Had)]

Prior == Reading(base)

Fallback(b) == DOMAIN b.fallbackSince
Degraded(b) == DOMAIN b.degradedSince

(***************************************************************************)
(* A run.                                                                  *)
(***************************************************************************)
Attempted(kind) == IF kind = Full THEN Surface ELSE {kind}
Failing == {s \in Attempted(run.kind) : run.health[s].kind \in {"transient", "hard"}}
\* _collector_failure_persistence_identity: what a streak is counted for.
FailedAt == {p \in Surface \X CollectorStep : p[1] \in Failing /\ p[2] \in run.health[p[1]].steps}
Retrying == run.kind = Full /\ run.health[RetryOwner].kind = "retry"
\* MUTANT: only the fresh lanes are carried over.
PreservedFresh == IF run.kind = Full THEN {} ELSE Degraded(Prior) \ (Fallback(Prior) \cup {run.kind})
\* MUTANT: an hourly run carries them too.
PreservedAlways == Degraded(Prior) \ {run.kind}
Preserved == IF run.kind = Full THEN {} ELSE Degraded(Prior) \ {run.kind}
Restored == run.restored

\* MUTANT: the clock is that of the run.
SinceRun(S) == [s \in S |-> run.at]
Since(S) == Clocks(S, Prior.fallbackSince, run.at)
Expired(S, now) == \E s \in S : now > Since(S)[s] + MaxAge
Stale == {s \in Dated :
            clock > run.tree[s].at + (IF s \in Restored THEN MaxAge ELSE FreshAge)}

Idle == [phase |-> "idle"]

Start(kind) ==
    /\ run.phase = "idle"
    /\ run' = [phase |-> "source", kind |-> kind, at |-> clock, health |-> health,
               tree |-> [s \in Surface |->
                           IF s \in Attempted(kind)
                           THEN [at |-> clock, weak |-> health[s].kind = "weak"]
                           ELSE base.content[s]],
               fresh |-> {}, fallback |-> {}, restored |-> {}, manifest |-> <<>>,
               blamed |-> {}, errors |-> {}, notes |-> {}, genuine |-> FALSE]
    /\ UNCHANGED <<clock, upsets, health, base, refused, fails>>

\* MUTANT: the manifest lists what this pass restored.
RestoreListed(r, S) ==
    LET tree == [s \in Surface |-> IF s \in S THEN base.content[s] ELSE r.tree[s]]
    IN  [r EXCEPT !.restored = S, !.tree = tree,
                  !.manifest = [s \in S \ r.restored |-> tree[s]]]

\* MUTANT: a widened fallback keeps the files of the first pass.
RestoreOnce(r, S) ==
    [r EXCEPT !.restored = S,
              !.tree = [s \in Surface |-> IF s \in S /\ r.restored = {} THEN base.content[s]
                                          ELSE r.tree[s]],
              !.manifest = [s \in S |-> base.content[s]]]

\* restore_active_fallback on the surfaces not yet restored.
Restore(r, S) ==
    LET tree == [s \in Surface |-> IF s \in S THEN base.content[s] ELSE r.tree[s]]
    IN  [r EXCEPT !.restored = S, !.tree = tree,
                  !.manifest = [s \in S |-> tree[s]]]

\* The errors and degradations of one audit; errors have no fresh lane.
Widen(r, E, D) ==
    [r EXCEPT !.fallback = @ \cup E, !.fresh = (@ \cup D) \ (r.fallback \cup E),
              !.blamed = E, !.errors = @ \cup E, !.notes = @ \cup D]

\* Some defects show when the files are parsed, and all of them when the source
\* of a retried build is audited before it is restored.
Bad == {s \in Attempted(run.kind) \ Restored : run.health[s].kind = "bad"}
Weak == {s \in Surface : run.tree[s].weak}
Parsed(S) == IF Retrying THEN {S} ELSE SUBSET S

\* Fallback starts as what is preserved, failed or under retry.
SourceAudit ==
    run.phase = "source" /\ \E E \in Parsed(Bad), D \in Parsed(Weak) :
        LET forced == (Preserved \cap Fallback(Prior)) \cup Failing
                          \cup (IF Retrying THEN Pair ELSE {})
            r == Widen([run EXCEPT !.phase = "candidate", !.genuine = (E \cup D # {}),
                                   !.fallback = forced,
                                   !.fresh = Preserved \ Fallback(Prior)], E, D)
        IN  /\ run' = IF Expired(r.fallback, run.at) THEN Idle
                      ELSE Restore(r, r.fallback)
            /\ UNCHANGED <<clock, upsets, health, base, refused, fails>>

\* The derived read model cannot be built: restore everything, and once more.
RebuildFails ==
    LET r == Widen(run, Surface, {})
    IN  /\ run.phase \in {"candidate", "final"}
        /\ upsets < MaxUpset
        /\ run' = IF Expired(Surface, run.at) THEN Idle ELSE Restore(r, Surface)
        /\ upsets' = upsets + 1
        /\ UNCHANGED <<clock, health, base, refused, fails>>

\* What an audit of the rebuilt tree may report, as errors and degradations.
Audited(E, D) == Widen(run, E \cup Stale \cup Bad, D \cup Weak)

\* The restored generation disagrees with another surface.
Skew == IF Restored = {} THEN {} ELSE UNION {{<<{s}, {}>>, <<{}, {s}>>} : s \in Surface}

\* An aged fallback is an error without a surface, and ends the run.
Select(r) == IF Expired(Restored, clock) THEN Idle ELSE [r EXCEPT !.phase = "selected"]

Widened(r) ==
    IF Expired(Restored, clock) \/ Expired(r.fallback, run.at) THEN Idle
    ELSE [Restore(r, r.fallback) EXCEPT !.phase = "final"]

Conclude(r) ==
    run' = IF run.phase = "candidate"
           THEN IF r.fallback = {} THEN Select(r) ELSE Widened(r)
           ELSE IF r.blamed = {} THEN Select(r)
                ELSE IF r.fallback = Restored THEN Idle ELSE Widened(r)

Audits ==
    \/ UNCHANGED upsets /\ Conclude(Audited({}, {}))
    \/ /\ upsets < MaxUpset /\ upsets' = upsets + 1
       /\ \E x \in Skew : Conclude(Audited(x[1], x[2]))

CandidateAudit ==
    /\ run.phase = "candidate" /\ Audits
    /\ UNCHANGED <<clock, health, base, refused, fails>>

FinalAudit ==
    /\ run.phase = "final" /\ Audits
    /\ UNCHANGED <<clock, health, base, refused, fails>>

(***************************************************************************)
(* What the publication remembers, and whether it is reported.             *)
(***************************************************************************)
Capped(n) == Min({n, Persist})
Count(b, p) == IF p \in DOMAIN b.streak THEN b.streak[p] ELSE 0

\* MUTANT: a failure is always the first.
StreakFirst == [p \in FailedAt |-> 1]

Streak ==
    [p \in FailedAt \cup (DOMAIN Prior.streak \cap (Preserved \X CollectorStep)) |->
        IF p \in FailedAt THEN Capped(Count(Prior, p) + 1) ELSE Prior.streak[p]]

Typed == {p[1] : p \in DOMAIN Streak}

Retries == IF Retrying THEN Capped(Prior.retries + 1)
           ELSE IF run.kind = Full THEN 0 ELSE Prior.retries

Found == run.errors \cup run.notes

\* _apply_upstream_retry_reporting_policy: nothing but one coherent retry.
Reconciling ==
    /\ Retrying /\ Failing = {} /\ ~run.genuine
    /\ run.fallback \subseteq Pair /\ Found \subseteq Pair

CollectorAlert ==
    \/ \E s \in Failing : run.health[s].kind = "hard"
    \/ \E p \in FailedAt : Streak[p] >= Persist

Carried == Preserved # {} /\ Prior.policy

Policy ==
    IF Reconciling THEN Retries >= Persist
    ELSE IF Failing # {} THEN CollectorAlert \/ Carried
    ELSE Preserved = {} \/ Carried

Unexpected ==
    \/ ~Reconciling /\ ~(Found \subseteq Typed)
    \/ Retrying /\ Retries >= Persist

Alert == Unexpected \/ (run.fresh \cup run.fallback # {} /\ Policy)

Published ==
    [contract |-> Len(Had), at |-> clock, content |-> run.tree,
     degradedSince |-> Clocks(run.fresh \cup run.fallback, Prior.degradedSince, run.at),
     fallbackSince |-> Since(run.fallback), manifest |-> run.manifest,
     streak |-> Streak, retries |-> Retries, policy |-> Policy, alert |-> Alert]

\* The live audit has the last word over the tree that is deployed.
Publish ==
    /\ run.phase = "selected"
    /\ IF Stale # {} \/ Expired(Restored, clock)
       THEN UNCHANGED <<base, refused, fails>>
       ELSE /\ base' = Published
            /\ refused' = Clocks(Restored, refused, run.at)
            /\ fails' = [p \in Surface \X CollectorStep |->
                            IF p[1] \notin Attempted(run.kind) THEN fails[p]
                            ELSE IF p \notin FailedAt THEN 0
                            ELSE IF run.health[p[1]].kind = "hard" THEN Persist
                            ELSE Capped(fails[p] + 1)]
    /\ run' = Idle
    /\ UNCHANGED <<clock, upsets, health>>

\* A finding without a route, a failed second rebuild, a lost run.
Stop ==
    /\ run.phase # "idle" /\ upsets < MaxUpset
    /\ run' = Idle /\ upsets' = upsets + 1
    /\ UNCHANGED <<clock, health, base, refused, fails>>

\* BOUND: time passes between runs and before the live audit.
Tick ==
    /\ run.phase \in {"idle", "selected"}
    /\ clock < MaxClock /\ clock' = clock + 1
    /\ UNCHANGED <<upsets, health, base, run, refused, fails>>

\* A run collects when it starts, so that later turns are those of the next.
Turn(s, to) ==
    /\ run.phase = "idle"
    /\ to # health[s] /\ (to.kind = "retry" => s = RetryOwner)
    /\ IF to.kind = "ok" THEN UNCHANGED upsets
       ELSE upsets < MaxUpset /\ upsets' = upsets + 1
    /\ health' = [health EXCEPT ![s] = to]
    /\ UNCHANGED <<clock, base, run, refused, fails>>

(***************************************************************************)
(* The first baseline may be of an older contract, on the surfaces that    *)
(* contract had, with clocks of their own.                                 *)
(***************************************************************************)
First(b) ==
    [contract |-> b.contract, at |-> 1, content |-> [s \in Surface |-> [at |-> 0, weak |-> FALSE]],
     degradedSince |-> b.degradedSince,
     fallbackSince |-> [s \in b.fallback |-> b.degradedSince[s]],
     manifest |-> [s \in b.fallback |-> [at |-> 0, weak |-> FALSE]], streak |-> <<>>, retries |-> 0,
     policy |-> TRUE, alert |-> (DOMAIN b.degradedSince # {})]

SelectionInit ==
    /\ clock = 1 /\ upsets = 0
    /\ health = [s \in Surface |-> Finding("ok", {})]
    /\ base \in {First(b) : b \in Beginning}
    /\ run = Idle
    /\ refused = Prior.fallbackSince
    /\ fails = [p \in Surface \X CollectorStep |-> 0]

Step ==
    SourceAudit \/ CandidateAudit \/ FinalAudit \/ Publish

SelectionNext ==
    \/ \E kind \in Attempt : Start(kind)
    \/ Step
    \/ RebuildFails \/ Stop \/ Tick
    \/ \E s \in Surface, to \in Health : Turn(s, to)

SelectionSpec == SelectionInit /\ [][SelectionNext]_selectionVars

\* Jobs that hold the lease end, and the hourly run gets its turn in the queue.
SelectionFairSpec == SelectionSpec /\ WF_selectionVars(Step) /\ SF_selectionVars(Start(Full))

----------------------------------------------------------------------------
\* What is published can be read by the next run (_baseline_publication_state):
\* the manifest attests exactly the restored surfaces by their content, and no
\* clock is missing, from the future or younger than the degradation it is in.
Readable ==
    /\ Fallback(base) \subseteq Degraded(base)
    /\ base.manifest = [s \in Fallback(base) |-> base.content[s]]
    /\ \A s \in Fallback(base) : base.degradedSince[s] <= base.fallbackSince[s]
    /\ \A s \in Degraded(base) : base.degradedSince[s] <= base.at

\* The hard limit (_raise_if_fallback_expired): a surface is not published as
\* last-known-good for longer than the limit after the run that first restored
\* it, through whatever runs, migrations and lost runs came in between.
HardLimit ==
    \A s \in Fallback(base) \cap DOMAIN refused : base.at <= refused[s] + MaxAge

\* Nothing an audit blamed or a collector failed on reaches the site: such a
\* surface is published with the content the baseline has.
Quarantined ==
    [][base' # base =>
        \A s \in run.errors \cup Failing : base'.content[s] = base.content[s]]_selectionVars

\* A refresh of one surface leaves the others alone: their content, and for a
\* degraded one its lane at least, its clocks and its streak.
RefreshOnly ==
    [][base' # base /\ run.kind # Full =>
        \A s \in Surface \ {run.kind} :
            /\ base'.content[s] = base.content[s]
            /\ s \in Degraded(Prior) =>
                  /\ s \in Degraded(base')
                  /\ base'.degradedSince[s] = Prior.degradedSince[s]
                  /\ \A e \in CollectorStep : Count(base', <<s, e>>) = Count(Prior, <<s, e>>)
            /\ s \in Fallback(Prior) =>
                  /\ s \in Fallback(base')
                  /\ base'.fallbackSince[s] = Prior.fallbackSince[s]]_selectionVars

\* Only a first observation is kept quiet (_emit_outputs): a publication that
\* raises no alert degrades no surface that failed for good, or twice in a row at the
\* same step, and none that this run attempted for any other reason.  A surface that
\* fails at another step each time is quiet: the code counts each step by itself.
QuietOnce ==
    [][base' # base /\ ~base'.alert =>
        \A s \in Degraded(base') :
            /\ \A e \in CollectorStep : fails'[<<s, e>>] < Persist
            /\ s \in Attempted(run.kind) => s \in Failing \cup (IF Retrying THEN Pair ELSE {})]_selectionVars

\* Once nothing fails any more, the site is current again.
SelfHeals == <>[](\A s \in Surface : health[s].kind = "ok") => []<>(Degraded(base) = {})
=============================================================================
