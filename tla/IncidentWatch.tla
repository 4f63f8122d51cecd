---------------------------- MODULE IncidentWatch ---------------------------
(***************************************************************************)
(* How the main-branch failure watchers turn builds into incidents         *)
(* (scripts/vllm/amd_main_failure_watcher.py, advance_incidents) by the    *)
(* policy of scripts/vllm/ci/incident_transitions.py: a hard failure       *)
(* confirms an incident at once, soft failures in two distinct builds do,  *)
(* and only a pass ends one.                                               *)
(*                                                                         *)
(* One test group of one pipeline.  Builds are numbered in the order of    *)
(* creation; they finish in any order, may run again when a job is         *)
(* retried, and age out of the bounded catalog.  A run folds the builds it *)
(* has not processed into the state it restored, oldest first, and its     *)
(* result is durable only if the run publishes.                            *)
(*                                                                         *)
(* Builds are compared by rank: creation, then the last finish.  A retried *)
(* build leaves the catalog while it runs and is forgotten by a run that   *)
(* meets it there, so that the newest build can count again.               *)
(***************************************************************************)
EXTENDS Naturals, Sequences, FiniteSets, FiniteSetsExt, Functions

CONSTANTS
    N,            \* BOUND: builds, created before or unfinished
    FromHistory,  \* settings of initialize_from_history
    MaxRetry,     \* BOUND: finished builds that run again
    MaxLoss       \* BOUND: runs that are lost

ASSUME WatchAssumption ==
    N \in Nat /\ FromHistory \subseteq BOOLEAN /\ MaxRetry \in Nat /\ MaxLoss \in Nat

Build == 1..N
Outcome == {"hard", "soft", "passed"}
Unfinished == "unfinished"   \* not in the catalog
Missing == "missing"         \* in the catalog, without a row for this group

VARIABLES
    history,  \* the setting of this watcher
    result,   \* what the catalog says of a build
    rerun,    \* how often it ran again
    aged,     \* builds up to this one are out of the window
    durable,  \* the durable state of the watcher
    pc,       \* "idle", or "work" while a run folds builds
    st,       \* the working copy of the run
    catalog,  \* the catalog of the run: outcome and rank, by build
    todo,     \* builds it has to look at
    losses

run == <<pc, st, catalog, todo>>
vars == <<history, result, rerun, aged, durable, run, losses>>

\* _build_source_rank, and _watermark_rank of a row of the build.
Rank(b, again) == b * (MaxRetry + 1) + again
Retries == FoldFunction(+, 0, rerun)

Clear == [status |-> "clear", severity |-> "none", peak |-> "none", streak |-> 0,
          last |-> 0, start |-> 0, confirmed |-> 0]

\* taken is a HISTORY: what the incident was advanced by, in that order.
Blank == [initialized |-> FALSE, processed |-> {}, through |-> 0, mark |-> 0,
          incident |-> Clear, taken |-> <<>>]

-----------------------------------------------------------------------------
Hard(s, b) ==
    IF s.status = "confirmed"
    THEN [s EXCEPT !.severity = "hard", !.peak = "hard", !.streak = 0, !.last = b]
    ELSE [status |-> "confirmed", severity |-> "hard", peak |-> "hard", streak |-> 0,
          last |-> b, start |-> IF s.start # 0 THEN s.start ELSE b, confirmed |-> b]

Started(b) == [status |-> "pending_soft", severity |-> "soft", peak |-> "soft",
               streak |-> 1, last |-> b, start |-> b, confirmed |-> 0]

\* MUTANT of Soft: observations are counted instead of builds.
SoftTwice(s, b) ==
    CASE s.status = "confirmed" -> [s EXCEPT !.severity = "soft", !.last = b]
      [] s.status = "pending_soft" ->
           LET streak == s.streak + 1
           IN [s EXCEPT !.streak = streak, !.last = b,
                        !.status = IF streak >= 2 THEN "confirmed" ELSE @,
                        !.confirmed = IF streak >= 2 THEN b ELSE @]
      [] s.status = "clear" -> Started(b)

Soft(s, b) ==
    CASE s.status = "confirmed" -> [s EXCEPT !.severity = "soft", !.last = b]
      [] s.status = "pending_soft" ->
           LET streak == s.streak + (IF s.last # b THEN 1 ELSE 0)
           IN [s EXCEPT !.streak = streak, !.last = b,
                        !.status = IF streak >= 2 THEN "confirmed" ELSE @,
                        !.confirmed = IF streak >= 2 THEN b ELSE @]
      [] s.status = "clear" -> Started(b)

\* advance_incident on the outcomes the watchers pass to it.
Advance(s, outcome, b) ==
    CASE outcome = "hard" -> Hard(s, b)
      [] outcome = "soft" -> Soft(s, b)
      [] outcome = "passed" -> Clear

-----------------------------------------------------------------------------
Nothing == [b \in Build |-> [outcome |-> Unfinished, rank |-> 0]]

Init ==
    /\ history \in FromHistory
    /\ result = [b \in Build |-> Unfinished] /\ aged = 0
    /\ rerun = [b \in Build |-> 0]
    /\ durable = Blank /\ pc = "idle" /\ st = Blank /\ catalog = Nothing /\ todo = {}
    /\ losses = 0

\* A run works on the catalog of its beginning: what happens meanwhile is as
\* if it happened after the run.
World == pc = "idle"

Finish(b) ==
    /\ World /\ result[b] = Unfinished
    /\ \E o \in Outcome \cup {Missing} : result' = [result EXCEPT ![b] = o]
    /\ UNCHANGED <<history, rerun, aged, durable, run, losses>>

\* A job is retried: the build runs again and leaves the catalog meanwhile.
Retry(b) ==
    /\ World /\ result[b] # Unfinished /\ Retries < MaxRetry
    /\ rerun' = [rerun EXCEPT ![b] = @ + 1]
    /\ result' = [result EXCEPT ![b] = Unfinished]
    /\ UNCHANGED <<history, aged, durable, run, losses>>

Age ==
    /\ World /\ aged < N
    /\ aged' = aged + 1
    /\ UNCHANGED <<history, result, rerun, durable, run, losses>>

\* The catalog of this moment: finished builds inside the window.
Catalog == [b \in Build |-> [outcome |-> IF b > aged THEN result[b] ELSE Unfinished,
                             rank |-> Rank(b, rerun[b])]]
Cohort(c) == {b \in Build : c[b].outcome # Unfinished}
Rows(c, S) == {c[b].rank : b \in {x \in S : c[x].outcome \in Outcome}}
Largest(S) == Max(S \cup {0})

\* The first run looks at the newest build only, or at the whole history; a
\* later one at what it has not processed.
ToProcess(s, c) ==
    IF s.initialized THEN Cohort(c) \ s.processed
    ELSE IF history THEN Cohort(c)
    ELSE {b \in Cohort(c) : b = Largest(Cohort(c))}

\* A state without the watermark of any group gets those of its processed
\* builds; the watermarks of other groups are left open.
Migrated(s, c) ==
    IF s.processed = {} \/ s.mark # 0 THEN {s}
    ELSE {s, [s EXCEPT !.mark = Largest(Rows(c, s.processed \cap Cohort(c)))]}

Begin ==
    /\ pc = "idle"
    /\ pc' = "work" /\ catalog' = Catalog
    /\ st' \in Migrated(durable, Catalog)
    /\ todo' = ToProcess(durable, Catalog)
    /\ UNCHANGED <<history, result, rerun, aged, durable, losses>>

\* MUTANT of Historical: late builds are fenced by the group alone.
HistoricalNever(b) == FALSE

\* A build created before the newest one already processed.
Historical(b) == st.initialized /\ catalog[b].rank <= st.through

\* The group has a row of this build or of a newer one.
Fenced(b) == catalog[b].rank <= st.mark

\* The next build of the run, oldest first.
Take ==
    /\ pc = "work" /\ todo # {}
    /\ LET b == Min(todo)
           row == catalog[b]
           skipped == row.outcome = Missing \/ Historical(b) \/ Fenced(b)
       IN /\ todo' = todo \ {b}
          /\ st' = IF skipped THEN st
                   ELSE [st EXCEPT !.mark = row.rank,
                                   !.taken = Append(@, [build |-> b, outcome |-> row.outcome,
                                                        rank |-> row.rank]),
                                   !.incident = Advance(@, row.outcome, b)]
    /\ UNCHANGED <<history, result, rerun, aged, durable, pc, catalog, losses>>

\* The newest row of the group in the catalog of the first run.
Seed == IF st.initialized THEN st.mark ELSE Largest({st.mark} \cup Rows(catalog, Build))

Ranks == {catalog[b].rank : b \in Cohort(catalog)}

\* A watermark older than the catalog is dropped, unless an incident needs it.
Kept(mark) ==
    IF st.incident.status # "clear" \/ Ranks = {} THEN mark
    ELSE IF mark >= Min(Ranks) THEN mark ELSE 0

\* MUTANT of Done: builds that still run are taken for processed.
DoneEarly ==
    [st EXCEPT !.initialized = TRUE, !.mark = Kept(Seed),
               !.processed = Build,
               !.through = Largest({st.through} \cup Ranks)]

Done ==
    [st EXCEPT !.initialized = TRUE, !.mark = Kept(Seed),
               !.processed = Cohort(catalog),
               !.through = Largest({st.through} \cup Ranks)]

EndRun == /\ pc' = "idle" /\ st' = Blank /\ todo' = {}
          /\ catalog' = Nothing

\* The run publishes its state.
Publish ==
    /\ pc = "work" /\ todo = {}
    /\ durable' = Done
    /\ EndRun
    /\ UNCHANGED <<history, result, rerun, aged, losses>>

\* The run is lost, or its publication is.
Lose ==
    /\ pc = "work" /\ losses < MaxLoss
    /\ losses' = losses + 1
    /\ EndRun
    /\ UNCHANGED <<history, result, rerun, aged, durable>>

Next ==
    \/ Age \/ Begin \/ Take \/ Publish \/ Lose
    \/ \E b \in Build : Finish(b) \/ Retry(b)

Spec == Init /\ [][Next]_vars

\* The schedule starts runs for ever, and a run takes its next step.
FairSpec == Spec /\ WF_vars(Begin) /\ WF_vars(Take) /\ WF_vars(Publish)

-----------------------------------------------------------------------------
IncidentType ==
    [status : {"clear", "pending_soft", "confirmed"}, severity : {"none", "soft", "hard"},
     peak : {"none", "soft", "hard"}, streak : Nat, last : Build \cup {0},
     start : Build \cup {0}, confirmed : Build \cup {0}]

Entry == [build : Build, outcome : Outcome, rank : Nat]
Row == [outcome : Outcome \cup {Missing, Unfinished}, rank : Nat]

\* A finished build counts at most once and never after a newer one: neither a
\* late finish, a retry, a dropped watermark nor a lost run brings it back.
\* Only the newest build counts again, when it finishes again.
InOrder ==
    \A s \in {durable, st} : \A i, j \in 1..Len(s.taken) :
        i < j => s.taken[i].rank < s.taken[j].rank

\* What the policy says of a history of builds.
SincePass(h) ==
    {i \in 1..Len(h) : \A j \in i..Len(h) : h[j].outcome # "passed"}
Of(h, o) == {i \in SincePass(h) : h[i].outcome = o}

ByPolicy(h, s) ==
    LET open == SincePass(h)
        secondSoft == {i \in Of(h, "soft") :
                        \E j \in Of(h, "soft") : j < i /\ h[j].build # h[i].build}
        grounds == Of(h, "hard") \cup secondSoft
    IN /\ s.status = (IF open = {} THEN "clear"
                      ELSE IF grounds = {} THEN "pending_soft" ELSE "confirmed")
       /\ s.start = (IF open = {} THEN 0 ELSE h[Min(open)].build)
       /\ s.confirmed = (IF grounds = {} THEN 0 ELSE h[Min(grounds)].build)
       /\ s.severity = (IF open = {} THEN "none" ELSE h[Max(open)].outcome)
       /\ s.peak = (IF open = {} THEN "none"
                    ELSE IF Of(h, "hard") # {} THEN "hard" ELSE "soft")

\* The incident is what the policy says of the builds it was advanced by: its
\* status, severity, first and confirming build.  A build that fails softly
\* twice is no confirmation.
Explained == \A s \in {durable, st} : ByPolicy(s.taken, s.incident)

\* A hard failure of the newest build that ever finishes is in the end a
\* confirmed incident for good, unless a retry hides it or it ages out.
NewestCounts ==
    \A b \in Build :
        <>[](/\ aged < b /\ result[b] = "hard" /\ Retries = 0
             /\ \A k \in (b + 1)..N : result[k] = Unfinished)
        => <>[](durable.incident.status = "confirmed")
=============================================================================
