--------------------------- MODULE HourlyIncident --------------------------
(***************************************************************************)
(* The incident of the hourly publication: one GitHub issue whose body is  *)
(* the durable state of its recovery                                       *)
(* (scripts/vllm/hourly_incident_recovery.js; the incident steps of        *)
(* .github/workflows/hourly-master.yml; the job confirm-hourly-recovery of *)
(* health-check.yml).                                                      *)
(*                                                                         *)
(* Hourly runs, targeted runs, the finalizer of the queue and the          *)
(* confirmation of the site monitor change the issue, each under the lease *)
(* gh-pages-deploy and each in several requests: look the issue up, label  *)
(* it, write its body as computed from what was looked up, retire other    *)
(* issues.  The monitor probes the site without the lease, people close    *)
(* and reopen issues at any time, and a run may end between two requests.  *)
(*                                                                         *)
(* A body names the publications it has credits for.  The code compares    *)
(* such a name with one publication only, the one on Pages: a body is its  *)
(* number of credits, and whether that publication is one of them.         *)
(***************************************************************************)
EXTENDS Naturals, Sequences, FiniteSets, Functions

CONSTANTS
    Signal,     \* fingerprints of failures
    Surface,    \* surfaces with targeted runs; a signal of that name is theirs alone
    Worlds,     \* what the issues begin with: "clean", "migrating", "stale"
    MaxIssue,   \* BOUND: issues
    MaxMeddle,  \* BOUND: actions of people
    MaxLoss     \* BOUND: runs that end early

ASSUME IncidentAssumption ==
    /\ Signal # {} /\ "queue" \in Surface
    /\ {"none", "transient"} \cap (Signal \cup Surface) = {}
    /\ Worlds \subseteq {"clean", "migrating", "stale"}
    /\ MaxIssue \in Nat /\ MaxMeddle \in Nat /\ MaxLoss \in Nat

VARIABLES
    world,
    issues,    \* the owned issues of the repository
    credited,  \* issues with a credit for the publication on Pages
    named,     \* and with a credit that names its code
    clean,     \* whether that publication is healthy and current
    proof,     \* of the monitor: "none", for what is "current" on Pages, or "stale"
    run,       \* the run that holds the lease, and the signal it is about
    todo,      \* the requests it still has to make
    seen,      \* what it looked up: the number, the issue and the other issues
    verdict,   \* HISTORY: what the last hourly run found
    good,      \* HISTORY: publications credited since the last unhealthy run
    byHand,    \* HISTORY: issues whose last closing was a person's
    meddled, losses

credits == <<credited, named>>
site == <<clean, proof>>
lease == <<run, todo, seen>>
history == <<verdict, good>>
vars == <<world, issues, credits, site, lease, history, byHand, meddled, losses>>

Idle == todo = <<>>

-----------------------------------------------------------------------------
(* The body of the issue. *)

Fresh(signal) ==
    [open |-> TRUE, label |-> TRUE, current |-> TRUE, superseded |-> FALSE,
     recovered |-> FALSE, streak |-> 0, signal |-> signal]

Reset(body) == [body EXCEPT !.recovered = FALSE, !.streak = 0]

MarkCurrent(body) == [body EXCEPT !.superseded = FALSE, !.current = TRUE]

\* MUTANT of Transient: every issue is reset.
TransientAlways(body) == Reset(body)

\* MUTANT of Transient: only an open issue is reset.
TransientOpen(body) == IF body.open THEN Reset(body) ELSE body

\* A degradation below its alert threshold breaks a recovery that is under way.
Transient(body) ==
    IF body.open \/ (body.streak > 0 /\ ~body.recovered) THEN Reset(body) ELSE body

\* MUTANT of Muted: the recovery of the signal is ignored.
MutedForEver(body, signal) == ~body.open /\ body.signal = signal

\* A person closed the issue of this signal.
Muted(body, signal) == ~body.open /\ ~body.recovered /\ body.signal = signal

\* One credit for one publication.
Advanced(body, again) == [body EXCEPT !.streak = IF again THEN @ ELSE @ + 1]

Superseded(body) ==
    [body EXCEPT !.superseded = TRUE, !.current = FALSE, !.open = FALSE, !.label = FALSE]

-----------------------------------------------------------------------------
(* findCanonicalIncident. *)

Active == {i \in DOMAIN issues : ~issues[i].superseded}
OpenIssues == {i \in DOMAIN issues : issues[i].open}
Current == {i \in Active : issues[i].current}
Labelled == {i \in DOMAIN issues : issues[i].label}
ClosedSlot == (Current \cap Labelled) \ OpenIssues

Candidates ==
    IF Current \cap OpenIssues # {} THEN Current \cap OpenIssues
    ELSE IF Active \cap OpenIssues # {} THEN Active \cap OpenIssues
    ELSE ClosedSlot

Ambiguous == Cardinality(Candidates) > 1

\* Looked up with the canonical issue: the open ones, or the labelled closed
\* ones when none is open.
Owned ==
    IF Active \cap OpenIssues # {} THEN OpenIssues
    ELSE IF ClosedSlot # {} THEN Labelled \ OpenIssues
    ELSE OpenIssues \cup Labelled

Nothing == [number |-> 0, body |-> Fresh(CHOOSE f \in Signal : TRUE), others |-> {}]

Found ==
    IF Candidates = {} THEN [Nothing EXCEPT !.others = Owned]
    ELSE LET n == CHOOSE i \in Candidates : TRUE
         IN [number |-> n, body |-> issues[n], others |-> Owned \ {n}]

-----------------------------------------------------------------------------
Resting == [kind |-> "none", signal |-> "none", exact |-> FALSE]

\* Issue 568 before the label existed, a second legacy issue, and a closed
\* owner slot beside an open legacy issue.
Legacy(f) == [Fresh(f) EXCEPT !.label = FALSE]
Beginning(w) ==
    CASE w = "clean" -> {<<>>}
      [] w = "migrating" ->
           {<<Legacy(f)>> : f \in Signal}
           \cup {<<[Legacy(f) EXCEPT !.current = FALSE], Fresh(f)>> : f \in Signal}
      [] w = "stale" -> {<<Legacy(f), [Fresh(f) EXCEPT !.open = FALSE]>> : f \in Signal}

Init ==
    /\ world \in Worlds /\ issues \in Beginning(world)
    /\ credited = {} /\ named = {} /\ clean = FALSE /\ proof = "none"
    /\ run = Resting /\ todo = <<>> /\ seen = Nothing
    /\ verdict = "none" /\ good = [count |-> 0, here |-> FALSE]
    /\ meddled = 0 /\ losses = 0
    /\ byHand = {i \in DOMAIN issues : ~issues[i].open}

\* Another publication is on Pages: nothing is a credit or a proof for it.
Publish(healthy) ==
    /\ clean' = healthy /\ credited' = {} /\ named' = {}
    /\ proof' = (IF proof = "none" THEN "none" ELSE "stale")
    /\ good' = [good EXCEPT !.here = FALSE]

Recovering == <<"lookup", "label", "others", "write">>
Reporting == <<"lookup", "label", "write", "others">>

Acquire(kind, signal, exact, plan) ==
    /\ Idle
    /\ run' = [kind |-> kind, signal |-> signal, exact |-> exact] /\ todo' = plan
    /\ UNCHANGED <<world, issues, seen, byHand, meddled, losses>>

\* A reserved hourly run reaches its incident step, after its publication or
\* before it.
HourlyFails ==
    /\ \E f \in Signal : Acquire("hourly", f, FALSE, Reporting) /\ verdict' = f
    /\ \/ \E healthy \in BOOLEAN : Publish(healthy)
       \/ UNCHANGED <<credits, site, good>>

HourlyDegrades ==
    /\ Acquire("hourly", "transient", FALSE, Reporting) /\ verdict' = "transient"
    /\ Publish(FALSE)

\* The publication is exact on Pages and its code was tested, by this run or,
\* up to bot commits, by a separate one.
HourlyRecovers ==
    /\ \E exact \in BOOLEAN : Acquire("healthy", "none", exact, Recovering)
    /\ verdict' = "healthy"
    /\ Publish(TRUE)

\* A targeted run published a healthy state with the surface it was asked for.
TargetedRecovers ==
    /\ \E f \in Surface : Acquire("targeted", f, TRUE, Recovering)
    /\ Publish(TRUE)
    /\ UNCHANGED verdict

\* The generation of the queue is on Pages already.
QueueFinalizer ==
    /\ clean /\ Acquire("targeted", "queue", TRUE, Recovering)
    /\ UNCHANGED <<credits, site, history>>

\* Any other publication: a targeted run that fails, one without tested code.
PublishOnly ==
    /\ Idle
    /\ \E healthy \in BOOLEAN : Publish(healthy)
    /\ UNCHANGED <<world, issues, lease, verdict, byHand, meddled, losses>>

\* The monitor probes the site: no lease, no change.
Probe ==
    /\ clean /\ proof = "none"
    /\ proof' = "current"
    /\ UNCHANGED <<world, issues, credits, clean, lease, history, byHand, meddled, losses>>

\* Under the lease: the proof counts if the same publication is still on Pages.
Confirm ==
    /\ proof # "none" /\ proof' = "none"
    /\ IF proof = "current"
       THEN Acquire("site", "none", TRUE, Recovering)
       ELSE Idle /\ UNCHANGED <<world, issues, lease, byHand, meddled, losses>>
    /\ UNCHANGED <<credits, clean, history>>

-----------------------------------------------------------------------------
(* The requests of a run. *)

Request(name) == todo # <<>> /\ Head(todo) = name

Release == run' = Resting /\ todo' = <<>> /\ seen' = Nothing
Step == IF Len(todo) = 1 THEN Release ELSE todo' = Tail(todo) /\ UNCHANGED <<run, seen>>

\* The site monitor only closes an open issue that waits for this publication.
Waits(f) == f.body.open /\ f.body.streak >= 1 /\ f.number \in named

Relevant(f) ==
    CASE run.kind = "hourly" -> f.number # 0 \/ run.signal # "transient"
      [] run.kind = "site" -> f.number # 0 /\ Waits(f)
      [] OTHER -> f.number # 0

Lookup ==
    /\ Request("lookup")
    /\ IF Ambiguous \/ ~Relevant(Found)
       THEN Release
       ELSE seen' = Found /\ todo' = Tail(todo) /\ UNCHANGED run
    /\ UNCHANGED <<world, issues, credits, site, history, byHand, meddled, losses>>

OutOfScope == run.kind = "targeted" /\ seen.body.signal # run.signal

Label ==
    /\ Request("label")
    /\ issues' = [i \in DOMAIN issues |->
                    [issues[i] EXCEPT !.label = @ \/ i = seen.number]]
    /\ IF OutOfScope THEN Release ELSE Step
    /\ UNCHANGED <<world, credits, site, history, byHand, meddled, losses>>

\* What a failed run makes of the body it saw.
Report(body) ==
    IF run.signal = "transient" THEN Transient(MarkCurrent(body))
    ELSE IF Muted(body, run.signal) THEN Reset(MarkCurrent(body))
    ELSE Fresh(run.signal)

Needed == IF run.kind \in {"site", "targeted"} THEN 1 ELSE 2

\* What a healthy run, or the monitor, makes of it.
Recover(body) ==
    LET marked == MarkCurrent(body)
        next == IF run.kind = "site" THEN marked
                ELSE Advanced(marked, seen.number \in credited)
    IN IF ~body.open /\ body.recovered THEN marked
       ELSE IF next.streak >= Needed THEN [next EXCEPT !.recovered = TRUE, !.open = FALSE]
       ELSE next

Computed == IF run.kind = "hourly" THEN Report(seen.body) ELSE Recover(seen.body)

\* An update without a state leaves the issue as open as it is.
Written(i) ==
    [Computed EXCEPT !.label = issues[i].label,
                     !.open = IF @ = seen.body.open THEN issues[i].open ELSE @]

\* The credits of an issue go with its streak; a recovered one gets no more.
Credits ==
    LET earns == run.kind \in {"healthy", "targeted"}
                 /\ (seen.body.open \/ ~seen.body.recovered)
        more(S, cond) == {i \in S : issues'[i].streak > 0}
                         \cup {i \in {seen.number} : earns /\ cond}
    IN credited' = more(credited, TRUE) /\ named' = more(named, run.exact)

Counted ==
    IF run.kind = "hourly" THEN [count |-> 0, here |-> FALSE]
    ELSE [count |-> IF good.here \/ good.count = 2 THEN good.count ELSE good.count + 1,
          here |-> TRUE]

Write ==
    /\ Request("write")
    /\ IF seen.number = 0
       THEN /\ Len(issues) < MaxIssue
            /\ issues' = Append(issues, Fresh(run.signal))
       ELSE issues' = [issues EXCEPT ![seen.number] = Written(seen.number)]
    /\ byHand' = byHand \ {i \in DOMAIN issues : issues'[i].open # issues[i].open}
    /\ Credits /\ good' = Counted
    /\ Step
    /\ UNCHANGED <<world, site, verdict, meddled, losses>>

\* Each other issue that was open or current is closed as history, and the
\* label of all of them is retired.
Others ==
    /\ Request("others")
    /\ issues' = [i \in DOMAIN issues |->
                    IF i \in seen.others THEN Superseded(issues[i]) ELSE issues[i]]
    /\ Step
    /\ UNCHANGED <<world, credits, site, history, byHand, meddled, losses>>

\* The run is cancelled, or a request is refused.
Lose ==
    /\ ~Idle /\ losses < MaxLoss
    /\ losses' = losses + 1
    /\ Release
    /\ UNCHANGED <<world, issues, credits, site, history, byHand, meddled>>

-----------------------------------------------------------------------------
\* A person closes or reopens an issue.
Meddle(i) ==
    /\ world = "clean" /\ meddled < MaxMeddle
    /\ meddled' = meddled + 1
    /\ issues' = [issues EXCEPT ![i].open = ~@]
    /\ byHand' = IF issues[i].open THEN byHand \cup {i} ELSE byHand \ {i}
    /\ UNCHANGED <<world, credits, site, lease, history, losses>>

Hourly == HourlyFails \/ HourlyDegrades \/ HourlyRecovers
Requests == Lookup \/ Label \/ Write \/ Others

Next ==
    \/ Hourly \/ TargetedRecovers \/ QueueFinalizer \/ PublishOnly
    \/ Probe \/ Confirm \/ Requests \/ Lose
    \/ \E i \in DOMAIN issues : Meddle(i)

Spec == Init /\ [][Next]_vars

\* The queue of the lease is first in first out, so that the hourly run gets
\* its turn; a run that holds the lease makes its next request.
FairSpec == Spec /\ SF_vars(Hourly) /\ WF_vars(Requests)

-----------------------------------------------------------------------------
Body ==
    [open : BOOLEAN, label : BOOLEAN, current : BOOLEAN, superseded : BOOLEAN,
     recovered : BOOLEAN, streak : Nat, signal : Signal]

\* Type correctness; a credit is counted in the streak of its issue.
TypeOK ==
    /\ world \in Worlds /\ issues \in Seq(Body)
    /\ clean \in BOOLEAN /\ proof \in {"none", "current", "stale"}
    /\ run.kind \in {"none", "hourly", "healthy", "targeted", "site"}
    /\ run.signal \in Signal \cup Surface \cup {"none", "transient"}
    /\ run.exact \in BOOLEAN
    /\ todo \in Seq({"lookup", "label", "others", "write"})
    /\ seen.number \in 0..Len(issues) /\ seen.others \subseteq DOMAIN issues
    /\ seen.body \in Body
    /\ verdict \in Signal \cup {"none", "transient", "healthy"}
    /\ good \in [count : 0..2, here : BOOLEAN]
    /\ byHand \subseteq DOMAIN issues
    /\ meddled \in 0..MaxMeddle /\ losses \in 0..MaxLoss
    /\ named \subseteq credited /\ credited \subseteq DOMAIN issues
    /\ \A i \in credited : issues[i].streak > 0

\* Only a person mutes a signal: a closed issue that is not marked as recovered,
\* which silences its signal, was closed by hand.  No run leaves one behind,
\* in whatever order it and the people act.
MutedByHand ==
    \A i \in Current \ OpenIssues : issues[i].recovered \/ i \in byHand

\* An incident is marked as recovered on evidence since the last unhealthy run:
\* two healthy publications, one that the monitor proved too, or the surface it
\* was about.
Evidence(i) ==
    \/ good'.count = 2
    \/ run.kind = "site" /\ good.here
    \/ run.kind = "targeted" /\ run.signal = issues[i].signal

Earned ==
    [][\A i \in DOMAIN issues :
         ~issues[i].recovered /\ issues'[i].recovered => Evidence(i)]_vars

\* A signal that the hourly runs keep reporting is on an open issue again and
\* again, unless a person closed it.
Heard ==
    \A f \in Signal :
        <>[](verdict = f)
        => []<>(\E i \in Current :
                   issues[i].signal = f /\ (issues[i].open \/ i \in byHand))

\* "Single incident slot owned by hourly-master", the description of the label:
\* between two runs at most one closed issue is the current one and has it.  With
\* two every later lookup is ambiguous, and no failure is reported any more.
OneSlot == Idle => Cardinality(ClosedSlot) <= 1
=============================================================================
