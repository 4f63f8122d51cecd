------------------------ MODULE HourlyIncidentProofs ------------------------
(***************************************************************************)
(* Proofs about HourlyIncident, for every set of signals and surfaces, any *)
(* number of issues, acts of people and lost runs, and each beginning.     *)
(***************************************************************************)
EXTENDS HourlyIncident, SequenceTheorems, FiniteSetTheorems, TLAPS

\* What is left of the plan of a run: a run that can close the issue writes it
\* last.
Plan ==
    IF run.kind = "hourly"
    THEN todo \in {Reporting, <<"label", "write", "others">>, <<"write", "others">>,
                   <<"others">>}
    ELSE todo \in {Recovering, <<"label", "others", "write">>, <<"others", "write">>,
                   <<"write">>, <<>>}

\* What a run knows of the issue it looked up, although people change it
\* meanwhile: if it is closed now and was not a recovered one then, a person
\* has closed it.
Looked ==
    /\ seen.number \notin seen.others
    /\ \/ seen.number = 0 \/ issues[seen.number].open \/ seen.number \in byHand
       \/ ~seen.body.open /\ seen.body.recovered

\* Before its write, a credit it saw is counted in the streak it saw.
Counting ==
    Plan /\ (seen.number \in credited /\ todo # <<"others">> => seen.body.streak > 0)

\* Only a run that found a failure with a signal goes on without an issue.
Aimed ==
    /\ run.kind = "hourly" => run.signal \in Signal \cup {"transient"}
    /\ todo \notin {<<>>, Reporting, Recovering} /\ seen.number = 0
       => run.kind = "hourly" /\ run.signal # "transient"

IInv == TypeOK /\ Counting /\ Looked /\ Aimed /\ MutedByHand

-----------------------------------------------------------------------------
\* A function over the numbers of the issues is a sequence of issues.
LEMMA Renewed ==
    ASSUME NEW s \in Seq(Body), NEW f, f \in [DOMAIN s -> Body]
    PROVE  f \in Seq(Body) /\ Len(f) = Len(s) /\ DOMAIN f = DOMAIN s
<1>1. Len(s) \in Nat /\ DOMAIN s = 1..Len(s)
  OBVIOUS
<1>2. f \in [1..Len(s) -> Body]
  BY <1>1
<1>3. f \in Seq(Body)
  BY <1>1, <1>2, SeqDef
<1> QED
  BY <1>1, <1>2, <1>3

\* The bodies the actions write are bodies.
LEMMA BodyTypes ==
    /\ \A f \in Signal : Fresh(f) \in Body
    /\ \A b \in Body : /\ Reset(b) \in Body /\ MarkCurrent(b) \in Body
                       /\ Transient(b) \in Body /\ Superseded(b) \in Body
                       /\ \A again \in BOOLEAN : Advanced(b, again) \in Body
<1>1. \A f \in Signal : Fresh(f) \in Body
  BY DEF Fresh, Body
<1>2. \A b \in Body : Reset(b) \in Body /\ MarkCurrent(b) \in Body /\ Superseded(b) \in Body
  BY DEF Reset, MarkCurrent, Superseded, Body
<1>3. \A b \in Body : Transient(b) \in Body
  BY <1>2 DEF Transient
<1>4. \A b \in Body, again \in BOOLEAN : Advanced(b, again) \in Body
  BY DEF Advanced, Body
<1> QED
  BY <1>1, <1>2, <1>3, <1>4

\* There is a signal for the body that stands for none.
LEMMA NothingTyped ==
    Nothing.number = 0 /\ Nothing.others = {} /\ Nothing.body \in Body
<1>1. (CHOOSE f \in Signal : TRUE) \in Signal
  BY IncidentAssumption
<1> QED
  BY <1>1, BodyTypes DEF Nothing

-----------------------------------------------------------------------------
\* The issues of each beginning: a closed one was closed by a person.
THEOREM Initially == Init => IInv
<1> SUFFICES ASSUME Init PROVE IInv
  OBVIOUS
<1>1. issues \in Seq(Body)
  <2>1. \A f \in Signal : /\ Legacy(f) \in Body
                          /\ [Legacy(f) EXCEPT !.current = FALSE] \in Body
                          /\ [Fresh(f) EXCEPT !.open = FALSE] \in Body
                          /\ Fresh(f) \in Body
    BY DEF Legacy, Fresh, Body
  <2>0. \A a, b \in Body : <<a>> \in Seq(Body) /\ <<a, b>> \in Seq(Body)
    <3> TAKE a, b \in Body
    <3>1. <<a>> = Append(<<>>, a) /\ <<a, b>> = Append(<<a>>, b)
      OBVIOUS
    <3> QED
      BY <3>1, EmptySeq, AppendProperties
  <2>2. world \in {"clean", "migrating", "stale"} /\ issues \in Beginning(world)
    BY IncidentAssumption DEF Init
  <2>3. CASE world = "clean"
    BY <2>2, <2>3 DEF Beginning
  <2>4. CASE world = "migrating"
    <3>1. issues \in {<<Legacy(f)>> : f \in Signal}
             \cup {<<[Legacy(f) EXCEPT !.current = FALSE], Fresh(f)>> : f \in Signal}
      BY <2>2, <2>4 DEF Beginning
    <3> QED
      BY <2>0, <2>1, <3>1
  <2>5. CASE world = "stale"
    <3>1. issues \in {<<Legacy(f), [Fresh(f) EXCEPT !.open = FALSE]>> : f \in Signal}
      BY <2>2, <2>5 DEF Beginning
    <3> QED
      BY <2>0, <2>1, <3>1
  <2> QED
    BY <2>2, <2>3, <2>4, <2>5
<1>2. TypeOK
  <2>1. seen = Nothing /\ Len(issues) \in Nat
    BY <1>1 DEF Init
  <2>2. byHand \subseteq DOMAIN issues
    BY DEF Init
  <2>3. seen.number \in 0..Len(issues) /\ seen.others \subseteq DOMAIN issues
        /\ seen.body \in Body
    BY <2>1, NothingTyped
  <2>4. /\ run.kind = "none" /\ run.signal = "none" /\ run.exact = FALSE
        /\ todo = <<>> /\ todo \in Seq({"lookup", "label", "others", "write"})
    BY DEF Init, Resting
  <2>5. /\ verdict = "none" /\ good.count = 0 /\ good = [count |-> 0, here |-> FALSE]
        /\ meddled = 0 /\ losses = 0 /\ MaxMeddle \in Nat /\ MaxLoss \in Nat
    BY IncidentAssumption DEF Init
  <2>6. good \in [count : 0..2, here : BOOLEAN] /\ meddled \in 0..MaxMeddle
        /\ losses \in 0..MaxLoss
    BY <2>5
  <2>7. world \in Worlds /\ credited = {} /\ named = {} /\ clean = FALSE /\ proof = "none"
    BY DEF Init
  <2> QED
    BY <1>1, <2>2, <2>3, <2>4, <2>5, <2>6, <2>7 DEF TypeOK
<1>3. Counting
  BY DEF Init, Counting, Plan, Resting
<1>4. Looked
  BY <1>1, NothingTyped DEF Init, Looked
<1>5. MutedByHand
  BY <1>1 DEF Init, MutedByHand, Current, OpenIssues, Active
<1>6. Aimed
  BY DEF Init, Aimed, Resting
<1> QED
  BY <1>2, <1>3, <1>4, <1>5, <1>6 DEF IInv

-----------------------------------------------------------------------------
\* The end of a run leaves nothing looked up.
LEMMA ReleaseKeeps ==
    ASSUME TypeOK', MutedByHand', Release
    PROVE  IInv'
<1>1. /\ run' = Resting /\ todo' = <<>> /\ seen'.number = 0 /\ seen'.others = {}
  BY NothingTyped DEF Release
<1>2. 0 \notin DOMAIN issues' /\ 0 \notin credited'
  BY DEF TypeOK
<1>3. Counting'
  BY <1>1, <1>2 DEF Counting, Plan, Resting
<1>4. Looked'
  BY <1>1, <1>2 DEF Looked
<1>5. Aimed'
  BY <1>1 DEF Aimed, Resting
<1> QED
  BY <1>3, <1>4, <1>5 DEF IInv

\* The types of a lease that is released.
LEMMA ReleaseTyped ==
    ASSUME Release, issues' \in Seq(Body)
    PROVE  /\ run'.kind = "none" /\ run'.signal = "none" /\ run'.exact = FALSE
           /\ todo' \in Seq({"lookup", "label", "others", "write"})
           /\ seen'.number \in 0..Len(issues') /\ seen'.others \subseteq DOMAIN issues'
           /\ seen'.body \in Body
<1>1. run' = Resting /\ todo' = <<>> /\ seen' = Nothing
  BY DEF Release
<1>2. Len(issues') \in Nat
  OBVIOUS
<1> QED
  BY <1>1, <1>2, NothingTyped DEF Resting

\* Both plans are lists of requests.
LEMMA PlansTyped ==
    /\ Reporting \in Seq({"lookup", "label", "others", "write"})
    /\ Recovering \in Seq({"lookup", "label", "others", "write"})
<1> DEFINE N == {"lookup", "label", "others", "write"}
<1>1. \A a, b, c, d \in N : <<a, b, c, d>> \in Seq(N)
  <2> TAKE a, b, c, d \in N
  <2>1. <<a>> = Append(<<>>, a) /\ <<a, b>> = Append(<<a>>, b)
        /\ <<a, b, c>> = Append(<<a, b>>, c) /\ <<a, b, c, d>> = Append(<<a, b, c>>, d)
    OBVIOUS
  <2> HIDE DEF N
  <2> QED
    BY <2>1, EmptySeq, AppendProperties
<1> QED
  BY <1>1 DEF Reporting, Recovering

\* The next request of a run that goes on.
LEMMA NextRequest ==
    ASSUME TypeOK, Counting, todo # <<>>, todo' = Tail(todo), Len(todo) # 1, UNCHANGED run
    PROVE  Plan' /\ todo' \in Seq({"lookup", "label", "others", "write"})
<1>1. todo' \in Seq({"lookup", "label", "others", "write"})
  BY HeadTailProperties DEF TypeOK
<1>2. /\ Tail(Reporting) = <<"label", "write", "others">>
      /\ Tail(<<"label", "write", "others">>) = <<"write", "others">>
      /\ Tail(<<"write", "others">>) = <<"others">>
      /\ Tail(Recovering) = <<"label", "others", "write">>
      /\ Tail(<<"label", "others", "write">>) = <<"others", "write">>
      /\ Tail(<<"others", "write">>) = <<"write">>
  BY DEF Reporting, Recovering
<1>3. todo # <<"others">> /\ todo # <<"write">>
  OBVIOUS
<1>4. Plan /\ Plan'
  BY <1>2, <1>3 DEF Counting, Plan
<1> QED
  BY <1>1, <1>4

\* Where in its plan a run writes, and where it retires other issues.
LEMMA WhereWrite ==
    ASSUME Counting, Request("write")
    PROVE  \/ run.kind = "hourly" /\ todo = <<"write", "others">>
           \/ run.kind # "hourly" /\ todo = <<"write">>
  BY DEF Counting, Plan, Request, Reporting, Recovering

\* A run that retires other issues has nothing left to do, or its write alone.
LEMMA WhereOthers ==
    ASSUME Counting, Request("others")
    PROVE  \/ run.kind = "hourly" /\ todo = <<"others">>
           \/ run.kind # "hourly" /\ todo = <<"others", "write">>
  BY DEF Counting, Plan, Request, Reporting, Recovering

-----------------------------------------------------------------------------
\* Steps that change the site, or give the lease to a run.
LEMMA SiteKeeps ==
    ASSUME IInv, UNCHANGED <<world, issues, seen, byHand, meddled, losses>>,
           UNCHANGED credits \/ (credited' = {} /\ named' = {}),
           clean' \in BOOLEAN, proof' \in {"none", "current", "stale"},
           run'.kind \in {"none", "hourly", "healthy", "targeted", "site"},
           run'.signal \in Signal \cup Surface \cup {"none", "transient"},
           run'.exact \in BOOLEAN,
           run'.kind = "hourly" => run'.signal \in Signal \cup {"transient"},
           Idle,
           \/ todo' = todo /\ run' = run
           \/ todo' = Reporting /\ run'.kind = "hourly"
           \/ todo' = Recovering /\ run'.kind # "hourly",
           verdict' \in Signal \cup {"none", "transient", "healthy"},
           good' \in [count : 0..2, here : BOOLEAN]
    PROVE  IInv'
<1>1. todo' \in Seq({"lookup", "label", "others", "write"})
  BY PlansTyped DEF IInv, TypeOK
<1>2. /\ credited' \subseteq credited /\ named' \subseteq credited'
      /\ \A i \in credited' : issues'[i].streak > 0
  BY DEF IInv, TypeOK, credits
<1>3. TypeOK'
  BY <1>1, <1>2 DEF IInv, TypeOK
<1>4. Counting'
  <2>1. Plan'
    BY DEF IInv, Counting, Plan
  <2>2. seen.number \in credited => seen.body.streak > 0
    BY DEF IInv, Counting, Idle
  <2> QED
    BY <1>2, <2>1, <2>2 DEF Counting
<1>5. Aimed'
  BY DEF Idle, Aimed
<1> QED
  BY <1>3, <1>4, <1>5 DEF IInv, Looked, MutedByHand, Current, Active, OpenIssues

\* The site after another publication.
LEMMA PublishTyped ==
    ASSUME IInv, NEW healthy \in BOOLEAN, Publish(healthy)
    PROVE  /\ credited' = {} /\ named' = {} /\ clean' \in BOOLEAN
           /\ proof' \in {"none", "current", "stale"}
           /\ good' \in [count : 0..2, here : BOOLEAN]
<1>1. good \in [count : 0..2, here : BOOLEAN]
  BY DEF IInv, TypeOK
<1> QED
  BY <1>1 DEF Publish

\* Steps of runs that have the lease for themselves or do not take it.
LEMMA AcquireKeeps ==
    ASSUME IInv,
           HourlyFails \/ HourlyDegrades \/ HourlyRecovers \/ TargetedRecovers
             \/ QueueFinalizer \/ PublishOnly \/ Probe \/ Confirm
    PROVE  IInv'
<1>0. /\ proof \in {"none", "current", "stale"} /\ clean \in BOOLEAN
      /\ verdict \in Signal \cup {"none", "transient", "healthy"}
      /\ good \in [count : 0..2, here : BOOLEAN]
      /\ run.kind \in {"none", "hourly", "healthy", "targeted", "site"}
      /\ run.signal \in Signal \cup Surface \cup {"none", "transient"}
      /\ run.exact \in BOOLEAN
  BY DEF IInv, TypeOK
<1>b. run.kind = "hourly" => run.signal \in Signal \cup {"transient"}
  BY DEF IInv, Aimed
<1>a. ASSUME NEW kind \in {"hourly", "healthy", "targeted", "site"},
             NEW signal \in Signal \cup Surface \cup {"none", "transient"},
             NEW exact \in BOOLEAN, NEW plan, Acquire(kind, signal, exact, plan)
      PROVE  /\ Idle /\ UNCHANGED <<world, issues, seen, byHand, meddled, losses>>
             /\ run'.kind = kind /\ run'.signal = signal /\ run'.exact = exact
             /\ run'.kind \in {"none", "hourly", "healthy", "targeted", "site"}
             /\ run'.signal \in Signal \cup Surface \cup {"none", "transient"}
             /\ run'.exact \in BOOLEAN /\ todo' = plan
  BY <1>a DEF Acquire
<1>1. CASE HourlyFails
  <2>1. PICK f \in Signal : Acquire("hourly", f, FALSE, Reporting) /\ verdict' = f
    BY <1>1 DEF HourlyFails
  <2>2. CASE \E healthy \in BOOLEAN : Publish(healthy)
    BY <2>1, <2>2, SiteKeeps, PublishTyped DEF Acquire
  <2>3. CASE UNCHANGED <<credits, site, good>>
    BY <2>1, <2>3, SiteKeeps DEF Acquire, site, IInv, TypeOK
  <2> QED
    BY <1>1, <2>2, <2>3 DEF HourlyFails
<1>2. CASE HourlyDegrades
  BY <1>2, SiteKeeps, PublishTyped DEF HourlyDegrades, Acquire
<1>3. CASE HourlyRecovers
  <2>1. PICK exact \in BOOLEAN : Acquire("healthy", "none", exact, Recovering)
    BY <1>3 DEF HourlyRecovers
  <2>2. Publish(TRUE) /\ verdict' = "healthy"
    BY <1>3 DEF HourlyRecovers
  <2> QED
    BY <2>1, <2>2, <1>a, SiteKeeps, PublishTyped
<1>4. CASE TargetedRecovers
  <2>1. PICK f \in Surface : Acquire("targeted", f, TRUE, Recovering)
    BY <1>4 DEF TargetedRecovers
  <2>2. Publish(TRUE) /\ verdict' = verdict
    BY <1>4 DEF TargetedRecovers
  <2> QED
    BY <1>0, <1>b, <2>1, <2>2, <1>a, SiteKeeps, PublishTyped
<1>5. CASE QueueFinalizer
  <2>1. /\ Idle /\ UNCHANGED <<world, issues, seen, byHand, meddled, losses>>
        /\ UNCHANGED <<credits, clean, proof, verdict, good>>
        /\ run' = [kind |-> "targeted", signal |-> "queue", exact |-> TRUE]
        /\ todo' = Recovering
    BY <1>5 DEF QueueFinalizer, Acquire, site, history
  <2>2. "queue" \in Surface
    BY IncidentAssumption
  <2> QED
    BY <2>1, <2>2, <1>0, <1>b, SiteKeeps
<1>6. CASE PublishOnly
  BY <1>6, <1>b, SiteKeeps, PublishTyped DEF PublishOnly, lease, IInv, TypeOK
<1>7. CASE Probe
  BY <1>7, <1>0 DEF Probe, lease, history, credits, IInv, TypeOK, Counting, Plan, Looked,
    Aimed, MutedByHand, Current, Active, OpenIssues
<1>8. CASE Confirm
  <2>1. proof' = "none" /\ UNCHANGED <<credits, clean, verdict, good>>
    BY <1>8 DEF Confirm, history
  <2>2. CASE proof = "current"
    <3>1. Acquire("site", "none", TRUE, Recovering)
      BY <1>8, <2>2 DEF Confirm
    <3> QED
      BY <1>0, <1>b, <1>a, <2>1, <3>1, SiteKeeps
  <2>3. CASE proof # "current"
    <3>1. Idle /\ UNCHANGED <<world, issues, lease, byHand, meddled, losses>>
      BY <1>8, <2>3 DEF Confirm
    <3>2. UNCHANGED <<run, todo, seen>>
      BY <3>1 DEF lease
    <3> QED
      BY <1>0, <1>b, <2>1, <3>1, <3>2, SiteKeeps
  <2> QED
    BY <2>2, <2>3
<1> QED
  BY <1>1, <1>2, <1>3, <1>4, <1>5, <1>6, <1>7, <1>8

-----------------------------------------------------------------------------
\* The canonical issue is a candidate, and a closed one is its own slot: a person
\* closed it, unless it has recovered.
LEMMA FoundLooked ==
    ASSUME IInv
    PROVE  /\ Found.number \in 0..Len(issues) /\ Found.others \subseteq DOMAIN issues
           /\ Found.body \in Body /\ Found.number \notin Found.others
           /\ Found.number # 0 => Found.body = issues[Found.number]
           /\ \/ Found.number = 0 \/ issues[Found.number].open \/ Found.number \in byHand
              \/ ~Found.body.open /\ Found.body.recovered
<1>1. issues \in Seq(Body) /\ DOMAIN issues = 1..Len(issues) /\ Len(issues) \in Nat
  BY DEF IInv, TypeOK
<1>2. Owned \subseteq DOMAIN issues
  BY DEF Owned, OpenIssues, Labelled
<1>3. CASE Candidates = {}
  <2>1. Found.number = 0 /\ Found.others = Owned /\ Found.body \in Body
    BY <1>3, NothingTyped DEF Found, Nothing
  <2> QED
    BY <1>1, <1>2, <2>1
<1>4. CASE Candidates # {}
  <2> DEFINE n == CHOOSE i \in Candidates : TRUE
  <2>1. n \in Candidates
    BY <1>4
  <2>2. Found = [number |-> n, body |-> issues[n], others |-> Owned \ {n}]
    BY <1>4 DEF Found
  <2> HIDE DEF n
  <2>3. n \in DOMAIN issues /\ n # 0 /\ n \in 0..Len(issues) /\ issues[n] \in Body
    BY <1>1, <2>1 DEF Candidates, Current, Active, OpenIssues, ClosedSlot
  <2>4. issues[n].open \/ n \in Current
    BY <2>1 DEF Candidates, OpenIssues, ClosedSlot
  <2>5. issues[n].open \/ issues[n].recovered \/ n \in byHand
    BY <2>3, <2>4 DEF IInv, MutedByHand, OpenIssues
  <2>6. issues[n].open \in BOOLEAN
    BY <2>3 DEF Body
  <2> QED
    BY <1>2, <2>2, <2>3, <2>5, <2>6
<1> QED
  BY <1>3, <1>4

\* A lookup changes nothing but what the run knows.
LEMMA LookupKeeps ==
    ASSUME IInv, Lookup
    PROVE  IInv'
<1>1. UNCHANGED <<world, issues, credited, named, clean, proof, verdict, good, byHand,
                  meddled, losses>>
  BY DEF Lookup, credits, site, history
<1>2. MutedByHand'
  BY <1>1 DEF IInv, MutedByHand, Current, Active, OpenIssues
<1>3. CASE Release
  <2>1. TypeOK'
    BY <1>1, <1>3, ReleaseTyped DEF IInv, TypeOK
  <2> QED
    BY <1>2, <1>3, <2>1, ReleaseKeeps
<1>4. CASE seen' = Found /\ todo' = Tail(todo) /\ UNCHANGED run
  <2>1. todo # <<>> /\ Head(todo) = "lookup"
    BY DEF Lookup, Request
  <2>2. todo \in {Reporting, Recovering}
    BY <2>1 DEF IInv, Counting, Plan
  <2>3. Len(todo) # 1
    BY <2>2 DEF Reporting, Recovering
  <2>4. Plan' /\ todo' \in Seq({"lookup", "label", "others", "write"})
    BY <1>4, <2>1, <2>3, NextRequest DEF IInv
  <2>5. TypeOK'
    BY <1>1, <1>4, <2>4, FoundLooked DEF IInv, TypeOK
  <2>6. Counting'
    <3>1. Found.number \in credited => Found.number # 0 /\ issues[Found.number].streak > 0
      BY DEF IInv, TypeOK
    <3> QED
      BY <1>1, <1>4, <2>4, <3>1, FoundLooked DEF Counting
  <2>7. Looked'
    BY <1>1, <1>4, FoundLooked DEF Looked
  <2>8. Aimed'
    <3>1. Relevant(Found) \/ Release
      BY DEF Lookup
    <3>2. Found.number = 0 /\ Relevant(Found) => run.kind = "hourly" /\ run.signal # "transient"
      BY DEF Relevant
    <3>3. run' = run /\ seen'.number = Found.number
      BY <1>4
    <3>4. Release => todo' = <<>>
      BY DEF Release
    <3> QED
      BY <3>1, <3>2, <3>3, <3>4 DEF IInv, Aimed
  <2> QED
    BY <1>2, <2>5, <2>6, <2>7, <2>8 DEF IInv
<1> QED
  BY <1>3, <1>4 DEF Lookup

\* A run that ends early changes no issue.
LEMMA LoseKeeps ==
    ASSUME IInv, Lose
    PROVE  IInv'
<1>1. UNCHANGED <<world, issues, credited, named, clean, proof, verdict, good, byHand,
                  meddled>> /\ Release /\ losses' = losses + 1 /\ losses < MaxLoss
  BY DEF Lose, credits, site, history
<1>2. MutedByHand'
  BY <1>1 DEF IInv, MutedByHand, Current, Active, OpenIssues
<1>3. losses' \in 0..MaxLoss
  BY <1>1, IncidentAssumption DEF IInv, TypeOK
<1>4. TypeOK'
  BY <1>1, <1>3, ReleaseTyped DEF IInv, TypeOK
<1> QED
  BY <1>1, <1>2, <1>4, ReleaseKeeps

\* A run adds the label to the issue that it looked up.
LEMMA LabelKeeps ==
    ASSUME IInv, Label
    PROVE  IInv'
<1>1. /\ UNCHANGED <<world, credited, named, clean, proof, verdict, good, byHand,
                     meddled, losses>>
      /\ todo # <<>> /\ Head(todo) = "label" /\ (Release \/ Step)
      /\ issues' = [i \in DOMAIN issues |->
                      [issues[i] EXCEPT !.label = @ \/ i = seen.number]]
  BY DEF Label, credits, site, history, Request
<1>2. issues \in Seq(Body) /\ \A i \in DOMAIN issues : issues[i] \in Body
  BY DEF IInv, TypeOK
<1>3. \A i \in DOMAIN issues :
        /\ issues'[i] \in Body
        /\ issues'[i].open = issues[i].open /\ issues'[i].streak = issues[i].streak
        /\ issues'[i].recovered = issues[i].recovered
        /\ issues'[i].current = issues[i].current
        /\ issues'[i].superseded = issues[i].superseded
  BY <1>1, <1>2 DEF Body
<1>4. issues' \in Seq(Body) /\ Len(issues') = Len(issues) /\ DOMAIN issues' = DOMAIN issues
  <2>1. issues' \in [DOMAIN issues -> Body]
    BY <1>1, <1>3
  <2> QED
    BY <1>2, <2>1, Renewed
<1>5. MutedByHand'
  BY <1>1, <1>3, <1>4 DEF IInv, MutedByHand, Current, Active, OpenIssues
<1>6. /\ byHand' \subseteq DOMAIN issues' /\ credited' \subseteq DOMAIN issues'
      /\ named' \subseteq credited' /\ \A i \in credited' : issues'[i].streak > 0
  BY <1>1, <1>3, <1>4 DEF IInv, TypeOK
<1>7. CASE Release
  <2>1. TypeOK'
    BY <1>1, <1>4, <1>6, <1>7, ReleaseTyped DEF IInv, TypeOK
  <2> QED
    BY <1>5, <1>7, <2>1, ReleaseKeeps
<1>8. CASE Step /\ ~Release
  <2>1. todo' = Tail(todo) /\ UNCHANGED <<run, seen>> /\ Len(todo) # 1
    BY <1>8 DEF Step
  <2>2. Plan' /\ todo' \in Seq({"lookup", "label", "others", "write"})
    BY <1>1, <2>1, NextRequest DEF IInv
  <2>3. todo \notin {<<>>, Reporting, Recovering, <<"others">>}
    BY <1>1 DEF Reporting, Recovering
  <2>4. TypeOK'
    BY <1>1, <1>4, <1>6, <2>1, <2>2 DEF IInv, TypeOK
  <2>5. Counting'
    BY <1>1, <2>1, <2>2, <2>3 DEF IInv, Counting
  <2>6. Looked'
    <3>1. seen.number = 0 \/ seen.number \in DOMAIN issues
      BY <1>2 DEF IInv, TypeOK
    <3> QED
      BY <1>1, <1>3, <2>1, <3>1 DEF IInv, Looked
  <2>7. Aimed'
    BY <2>1, <2>3 DEF IInv, Aimed
  <2> QED
    BY <1>5, <2>4, <2>5, <2>6, <2>7 DEF IInv
<1> QED
  BY <1>1, <1>7, <1>8

\* The issues that are retired were not the one that was looked up.
LEMMA OthersKeeps ==
    ASSUME IInv, Others
    PROVE  IInv'
<1>1. /\ UNCHANGED <<world, credited, named, clean, proof, verdict, good, byHand,
                     meddled, losses>>
      /\ Request("others") /\ Step
      /\ issues' = [i \in DOMAIN issues |->
                      IF i \in seen.others THEN Superseded(issues[i]) ELSE issues[i]]
  BY DEF Others, credits, site, history
<1>2. issues \in Seq(Body) /\ \A i \in DOMAIN issues : issues[i] \in Body
  BY DEF IInv, TypeOK
<1>3. \A i \in DOMAIN issues :
        /\ issues'[i] \in Body /\ issues'[i].streak = issues[i].streak
        /\ issues'[i] = issues[i] \/ issues'[i].superseded
  <2> TAKE i \in DOMAIN issues
  <2>1. /\ Superseded(issues[i]) \in Body /\ Superseded(issues[i]).superseded
        /\ Superseded(issues[i]).streak = issues[i].streak
    BY <1>2, BodyTypes DEF Superseded, Body
  <2>2. issues'[i] = IF i \in seen.others THEN Superseded(issues[i]) ELSE issues[i]
    BY <1>1
  <2>3. issues[i] \in Body
    BY <1>2
  <2> QED
    BY <2>1, <2>2, <2>3
<1>4. issues' \in Seq(Body) /\ Len(issues') = Len(issues) /\ DOMAIN issues' = DOMAIN issues
  <2>1. issues' \in [DOMAIN issues -> Body]
    BY <1>1, <1>3
  <2> QED
    BY <1>2, <2>1, Renewed
<1>5. MutedByHand'
  <2> SUFFICES ASSUME NEW i \in Current' \ OpenIssues'
               PROVE  issues'[i].recovered \/ i \in byHand'
    BY DEF MutedByHand
  <2>1. i \in DOMAIN issues /\ ~issues'[i].superseded /\ issues'[i].current
        /\ ~issues'[i].open
    BY <1>4 DEF Current, Active, OpenIssues
  <2>2. issues'[i] = issues[i]
    BY <1>3, <2>1
  <2> QED
    BY <1>1, <2>1, <2>2 DEF IInv, MutedByHand, Current, Active, OpenIssues
<1>6. /\ byHand' \subseteq DOMAIN issues' /\ credited' \subseteq DOMAIN issues'
      /\ named' \subseteq credited' /\ \A i \in credited' : issues'[i].streak > 0
  BY <1>1, <1>3, <1>4 DEF IInv, TypeOK
<1>7. CASE Release
  <2>1. TypeOK'
    BY <1>1, <1>4, <1>6, <1>7, ReleaseTyped DEF IInv, TypeOK
  <2> QED
    BY <1>5, <1>7, <2>1, ReleaseKeeps
<1>8. CASE ~Release
  <2>1. todo' = Tail(todo) /\ UNCHANGED <<run, seen>> /\ Len(todo) # 1
    BY <1>1, <1>8 DEF Step
  <2>2. Plan' /\ todo' \in Seq({"lookup", "label", "others", "write"})
    BY <1>1, <2>1, NextRequest DEF IInv, Request
  <2>3. todo = <<"others", "write">>
    BY <1>1, <2>1, WhereOthers DEF IInv
  <2>4. TypeOK'
    BY <1>1, <1>4, <1>6, <2>1, <2>2 DEF IInv, TypeOK
  <2>5. Counting'
    BY <1>1, <2>1, <2>2, <2>3 DEF IInv, Counting
  <2>6. Looked'
    <3>1. seen.number = 0 \/ seen.number \in DOMAIN issues
      BY <1>2 DEF IInv, TypeOK
    <3>2. seen.number \notin seen.others
      BY DEF IInv, Looked
    <3>3. seen.number = 0 \/ issues'[seen.number] = issues[seen.number]
      BY <1>1, <3>1, <3>2
    <3> QED
      BY <1>1, <2>1, <3>3 DEF IInv, Looked
  <2>7. Aimed'
    BY <2>1, <2>3 DEF IInv, Aimed, Recovering, Reporting
  <2> QED
    BY <1>5, <2>4, <2>5, <2>6, <2>7 DEF IInv
<1> QED
  BY <1>7, <1>8

\* Whoever closes an issue by hand is on record, whatever a run has in hand.
LEMMA MeddleKeeps ==
    ASSUME IInv, NEW i \in DOMAIN issues, Meddle(i)
    PROVE  IInv'
<1>1. /\ UNCHANGED <<world, credited, named, clean, proof, run, todo, seen, verdict, good,
                     losses>>
      /\ issues' = [issues EXCEPT ![i].open = ~@]
      /\ byHand' = IF issues[i].open THEN byHand \cup {i} ELSE byHand \ {i}
      /\ meddled < MaxMeddle /\ meddled' = meddled + 1
  BY DEF Meddle, credits, site, history, lease
<1>2. issues \in Seq(Body) /\ \A j \in DOMAIN issues : issues[j] \in Body
  BY DEF IInv, TypeOK
<1>3. \A j \in DOMAIN issues :
        /\ issues'[j] \in Body
        /\ issues'[j].open = (IF j = i THEN ~issues[j].open ELSE issues[j].open)
        /\ issues'[j].streak = issues[j].streak
        /\ issues'[j].recovered = issues[j].recovered
        /\ issues'[j].current = issues[j].current
        /\ issues'[j].superseded = issues[j].superseded
  BY <1>1, <1>2 DEF Body
<1>4. issues' \in Seq(Body) /\ Len(issues') = Len(issues) /\ DOMAIN issues' = DOMAIN issues
  <2>1. issues' \in [DOMAIN issues -> Body]
    BY <1>1, <1>3
  <2> QED
    BY <1>2, <2>1, Renewed
<1>5. \A j \in DOMAIN issues :
        \/ issues'[j].open
        \/ j = i /\ issues[j].open
        \/ j # i /\ ~issues[j].open
  BY <1>2, <1>3 DEF Body
<1>6. \A j \in DOMAIN issues :
        \/ issues'[j].open
        \/ j \in byHand'
        \/ j # i /\ ~issues[j].open
  BY <1>1, <1>5
<1>7. \A j \in byHand : j # i => j \in byHand'
  BY <1>1
<1>8. MutedByHand'
  <2> SUFFICES ASSUME NEW j \in Current' \ OpenIssues'
               PROVE  issues'[j].recovered \/ j \in byHand'
    BY DEF MutedByHand
  <2>1. j \in DOMAIN issues /\ ~issues[j].superseded /\ issues[j].current /\ ~issues'[j].open
    BY <1>3, <1>4 DEF Current, Active, OpenIssues
  <2> QED
    BY <1>3, <1>6, <1>7, <2>1 DEF IInv, MutedByHand, Current, Active, OpenIssues
<1>9. TypeOK'
  <2>1. meddled' \in 0..MaxMeddle
    BY <1>1, IncidentAssumption DEF IInv, TypeOK
  <2>2. byHand' \subseteq DOMAIN issues' /\ \A j \in credited' : issues'[j].streak > 0
    BY <1>1, <1>3, <1>4 DEF IInv, TypeOK
  <2> QED
    BY <1>1, <1>4, <2>1, <2>2 DEF IInv, TypeOK
<1>10. Looked'
  <2>1. seen.number = 0 \/ seen.number \in DOMAIN issues
    BY <1>2 DEF IInv, TypeOK
  <2> QED
    BY <1>1, <1>6, <1>7, <2>1 DEF IInv, Looked
<1>11. Counting' /\ Aimed'
  BY <1>1 DEF IInv, Counting, Plan, Aimed
<1> QED
  BY <1>8, <1>9, <1>10, <1>11 DEF IInv

-----------------------------------------------------------------------------
\* What a run writes: a body; one that earns a credit has a streak; one that is
\* closed without having recovered was closed in what the run saw.
LEMMA ComputedBody ==
    ASSUME IInv, Request("write"), seen.number # 0
    PROVE  /\ Computed \in Body
           /\ \/ Computed.open = seen.body.open
              \/ Computed.open /\ run.kind = "hourly"
              \/ Computed.recovered /\ run.kind # "hourly"
           /\ ~seen.body.open /\ seen.body.recovered
              => Computed.open \/ Computed.recovered
           /\ /\ run.kind \in {"healthy", "targeted"}
              /\ seen.body.open \/ ~seen.body.recovered
              => Computed.streak > 0
<1>1. seen.body \in Body
  BY DEF IInv, TypeOK
<1> DEFINE marked == MarkCurrent(seen.body)
<1>2. /\ marked \in Body /\ marked.open = seen.body.open
      /\ marked.recovered = seen.body.recovered /\ marked.streak = seen.body.streak
  BY <1>1, BodyTypes DEF MarkCurrent, Body
<1> HIDE DEF marked
<1>3. CASE run.kind = "hourly"
  <2>1. run.signal \in Signal \cup {"transient"} /\ Computed = Report(seen.body)
    BY <1>3 DEF IInv, Aimed, Computed
  <2>2. /\ Reset(marked) \in Body /\ Reset(marked).open = seen.body.open
        /\ Transient(marked) \in Body /\ Transient(marked).open = seen.body.open
    BY <1>2, BodyTypes DEF Reset, Transient, Body
  <2>3. CASE run.signal = "transient"
    <3>1. Computed = Transient(marked)
      BY <2>1, <2>3 DEF Report, marked
    <3>2. ~seen.body.open /\ seen.body.recovered => Computed.recovered /\ ~Computed.open
      BY <1>2, <3>1 DEF Transient
    <3> QED
      BY <1>3, <2>2, <3>1, <3>2
  <2>4. CASE run.signal # "transient" /\ Muted(seen.body, run.signal)
    <3>1. Computed = Reset(marked) /\ ~seen.body.recovered
      BY <2>1, <2>4 DEF Report, marked, Muted
    <3> QED
      BY <1>3, <2>2, <3>1
  <2>5. CASE run.signal # "transient" /\ ~Muted(seen.body, run.signal)
    <3>1. Computed = Fresh(run.signal) /\ run.signal \in Signal
      BY <2>1, <2>5 DEF Report
    <3>2. Computed \in Body /\ Computed.open
      BY <3>1, BodyTypes DEF Fresh
    <3> QED
      BY <1>3, <3>2
  <2> QED
    BY <2>3, <2>4, <2>5
<1>4. CASE run.kind # "hourly"
  <2> DEFINE next == IF run.kind = "site" THEN marked
                     ELSE Advanced(marked, seen.number \in credited)
  <2>1. Computed = IF ~seen.body.open /\ seen.body.recovered THEN marked
                   ELSE IF next.streak >= Needed
                        THEN [next EXCEPT !.recovered = TRUE, !.open = FALSE]
                        ELSE next
    BY <1>4 DEF Computed, Recover, marked
  <2>2. /\ next \in Body /\ next.open = seen.body.open /\ next.streak \in Nat
        /\ next.recovered = seen.body.recovered
    BY <1>2 DEF Advanced, Body
  <2>3. run.kind \in {"healthy", "targeted"} => next.streak > 0
    <3> SUFFICES ASSUME run.kind \in {"healthy", "targeted"} PROVE next.streak > 0
      OBVIOUS
    <3>1. next = Advanced(marked, seen.number \in credited)
      OBVIOUS
    <3>2. todo # <<"others">>
      BY DEF Request
    <3>3. seen.number \in credited => marked.streak > 0
      BY <1>2, <3>2 DEF IInv, Counting
    <3>4. marked.streak \in Nat
      BY <1>2 DEF Body
    <3>5. next.streak = IF seen.number \in credited THEN marked.streak ELSE marked.streak + 1
      BY <1>2, <3>1 DEF Advanced, Body
    <3> QED
      BY <3>3, <3>4, <3>5
  <2> HIDE DEF next
  <2>4. CASE ~seen.body.open /\ seen.body.recovered
    <3>1. Computed = marked
      BY <2>1, <2>4
    <3> QED
      BY <1>2, <2>4, <3>1
  <2>5. CASE ~(~seen.body.open /\ seen.body.recovered) /\ next.streak >= Needed
    <3>1. Computed = [next EXCEPT !.recovered = TRUE, !.open = FALSE]
      BY <2>1, <2>5
    <3>2. Computed \in Body /\ Computed.recovered /\ Computed.streak = next.streak
      BY <2>2, <3>1 DEF Body
    <3> QED
      BY <1>4, <2>3, <2>5, <3>2
  <2>6. CASE ~(~seen.body.open /\ seen.body.recovered) /\ ~(next.streak >= Needed)
    <3>1. Computed = next
      BY <2>1, <2>6
    <3> QED
      BY <2>2, <2>3, <2>6, <3>1
  <2> QED
    BY <2>4, <2>5, <2>6
<1> QED
  BY <1>3, <1>4

\* The issue after its body was written.
LEMMA WrittenBody ==
    ASSUME IInv, Request("write"), seen.number # 0, NEW b, b = Written(seen.number),
           NEW still, still = (b.open = issues[seen.number].open)
    PROVE  /\ b \in Body
           /\ ~b.open => b.recovered \/ (seen.number \in byHand /\ still)
           /\ run.kind = "hourly" => b.open \/ (still /\ ~issues[seen.number].open)
           /\ run.kind = "hourly" /\ ~b.open /\ ~issues[seen.number].open
              => seen.number \in byHand \/ (~seen.body.open /\ seen.body.recovered)
           /\ /\ run.kind \in {"healthy", "targeted"}
              /\ seen.body.open \/ ~seen.body.recovered
              => b.streak > 0
<1> DEFINE old == issues[seen.number]
<1>1. /\ seen.number \in DOMAIN issues /\ old \in Body /\ seen.body \in Body
  BY DEF IInv, TypeOK
<1>2. /\ Computed \in Body
      /\ \/ Computed.open = seen.body.open
         \/ Computed.open /\ run.kind = "hourly"
         \/ Computed.recovered /\ run.kind # "hourly"
      /\ ~seen.body.open /\ seen.body.recovered => Computed.open \/ Computed.recovered
      /\ /\ run.kind \in {"healthy", "targeted"}
         /\ seen.body.open \/ ~seen.body.recovered
         => Computed.streak > 0
  BY ComputedBody
<1>3. old.open \/ seen.number \in byHand \/ (~seen.body.open /\ seen.body.recovered)
  BY DEF IInv, Looked
<1>4. b = [Computed EXCEPT !.label = old.label,
                           !.open = IF @ = seen.body.open THEN old.open ELSE @]
  BY DEF Written
<1>5. /\ old.open \in BOOLEAN /\ seen.body.open \in BOOLEAN /\ seen.body.recovered \in BOOLEAN
      /\ Computed.open \in BOOLEAN /\ Computed.recovered \in BOOLEAN /\ old.label \in BOOLEAN
  BY <1>1, <1>2 DEF Body
<1>6. /\ b \in Body /\ b.recovered = Computed.recovered /\ b.streak = Computed.streak
      /\ b.open = IF Computed.open = seen.body.open THEN old.open ELSE Computed.open
  BY <1>2, <1>4, <1>5 DEF Body
<1> HIDE DEF old
<1>7. still = (b.open = old.open)
  BY DEF old
<1>8. ~b.open => b.recovered \/ (seen.number \in byHand /\ still)
  BY <1>2, <1>3, <1>5, <1>6, <1>7
<1>9. run.kind = "hourly" => b.open \/ (still /\ ~old.open)
  BY <1>2, <1>5, <1>6, <1>7
<1> QED
  BY <1>2, <1>3, <1>6, <1>8, <1>9 DEF old

\* A write keeps what a person did, and ends a run that may close the issue.
LEMMA WriteKeeps ==
    ASSUME IInv, Write
    PROVE  IInv'
<1>1. /\ UNCHANGED <<world, clean, proof, verdict, meddled, losses>>
      /\ Request("write") /\ Step /\ Credits /\ good' = Counted
      /\ byHand' = byHand \ {i \in DOMAIN issues : issues'[i].open # issues[i].open}
  BY DEF Write, site
<1>2. /\ issues \in Seq(Body) /\ \A i \in DOMAIN issues : issues[i] \in Body
      /\ DOMAIN issues = 1..Len(issues) /\ Len(issues) \in Nat
      /\ seen.number \in 0..Len(issues) /\ byHand \subseteq DOMAIN issues
      /\ credited \subseteq DOMAIN issues /\ named \subseteq credited
      /\ \A i \in credited : issues[i].streak > 0
      /\ good \in [count : 0..2, here : BOOLEAN] /\ run.exact \in BOOLEAN
      /\ seen.others \subseteq DOMAIN issues
  BY DEF IInv, TypeOK
<1>3. todo # <<>> /\ todo \notin {<<>>, Reporting, Recovering, <<"others">>}
  BY <1>1 DEF Request, Reporting, Recovering
<1>4. good' \in [count : 0..2, here : BOOLEAN]
  BY <1>1, <1>2 DEF Counted
<1>5. /\ issues' \in Seq(Body) /\ Len(issues) <= Len(issues')
      /\ DOMAIN issues \subseteq DOMAIN issues'
      /\ byHand' \subseteq DOMAIN issues' /\ credited' \subseteq DOMAIN issues'
      /\ named' \subseteq credited' /\ \A i \in credited' : issues'[i].streak > 0
      /\ MutedByHand'
      /\ run.kind = "hourly" /\ seen.number # 0 =>
         \/ issues'[seen.number].open
         \/ seen.number \in byHand'
         \/ ~seen.body.open /\ seen.body.recovered
  <2>1. CASE seen.number = 0
    <3>1. issues' = Append(issues, Fresh(run.signal)) /\ Fresh(run.signal) \in Body
          /\ run.kind = "hourly"
      BY <1>3, <2>1, BodyTypes DEF Write, IInv, Aimed
    <3>2. /\ issues' \in Seq(Body) /\ Len(issues') = Len(issues) + 1
          /\ DOMAIN issues' = 1..(Len(issues) + 1)
          /\ \A i \in DOMAIN issues : issues'[i] = issues[i]
          /\ issues'[Len(issues) + 1] = Fresh(run.signal)
      BY <1>2, <3>1, AppendProperties
    <3>3. byHand' = byHand
      BY <1>1, <1>2, <3>2
    <3>4. credited' \subseteq credited /\ named' \subseteq credited'
      BY <1>1, <1>2, <3>1 DEF Credits
    <3>5. MutedByHand'
      <4> SUFFICES ASSUME NEW i \in Current' \ OpenIssues'
                   PROVE  issues'[i].recovered \/ i \in byHand'
        BY DEF MutedByHand
      <4>1. i \in DOMAIN issues' /\ ~issues'[i].superseded /\ issues'[i].current
            /\ ~issues'[i].open
        BY DEF Current, Active, OpenIssues
      <4>2. i \in DOMAIN issues
        BY <1>2, <3>2, <4>1 DEF Fresh
      <4> QED
        BY <3>2, <3>3, <4>1, <4>2 DEF IInv, MutedByHand, Current, Active, OpenIssues
    <3>6. \A i \in credited' : issues'[i].streak > 0
      BY <1>2, <3>2, <3>4
    <3>7. Len(issues) <= Len(issues') /\ DOMAIN issues \subseteq DOMAIN issues'
      BY <1>2, <3>2
    <3> QED
      BY <1>2, <2>1, <3>2, <3>3, <3>4, <3>5, <3>6, <3>7
  <2>2. CASE seen.number # 0
    <3> DEFINE n == seen.number
               b == Written(n)
    <3>1. n \in DOMAIN issues /\ issues' = [issues EXCEPT ![n] = b]
      BY <1>2, <2>2 DEF Write
    <3>2. /\ b \in Body
          /\ ~b.open => b.recovered \/ (n \in byHand /\ b.open = issues[n].open)
          /\ run.kind = "hourly" => b.open \/ (b.open = issues[n].open /\ ~issues[n].open)
          /\ run.kind = "hourly" /\ ~b.open /\ ~issues[n].open
             => n \in byHand \/ (~seen.body.open /\ seen.body.recovered)
          /\ /\ run.kind \in {"healthy", "targeted"}
             /\ seen.body.open \/ ~seen.body.recovered
             => b.streak > 0
      BY <1>1, <2>2, WrittenBody
    <3> HIDE DEF b
    <3>3. issues'[n] = b /\ \A i \in DOMAIN issues : i # n => issues'[i] = issues[i]
      BY <3>1
    <3>4. issues' \in Seq(Body) /\ Len(issues') = Len(issues) /\ DOMAIN issues' = DOMAIN issues
      <4>1. issues' \in [DOMAIN issues -> Body]
        BY <1>2, <3>1, <3>2
      <4> QED
        BY <1>2, <4>1, Renewed
    <3>5. \A i \in byHand : i \in byHand' \/ (i = n /\ b.open # issues[n].open)
      BY <1>1, <1>2, <3>3
    <3>6. MutedByHand'
      <4> SUFFICES ASSUME NEW i \in Current' \ OpenIssues'
                   PROVE  issues'[i].recovered \/ i \in byHand'
        BY DEF MutedByHand
      <4>1. i \in DOMAIN issues /\ ~issues'[i].superseded /\ issues'[i].current
            /\ ~issues'[i].open
        BY <3>4 DEF Current, Active, OpenIssues
      <4>2. CASE i = n
        BY <3>2, <3>3, <3>5, <4>1, <4>2
      <4>3. CASE i # n
        <5>1. issues'[i] = issues[i]
          BY <3>3, <4>1, <4>3
        <5>2. issues[i].recovered \/ i \in byHand
          BY <4>1, <5>1 DEF IInv, MutedByHand, Current, Active, OpenIssues
        <5> QED
          BY <3>5, <4>3, <5>1, <5>2
      <4> QED
        BY <4>2, <4>3
    <3>7. credited' \subseteq DOMAIN issues' /\ named' \subseteq credited'
          /\ \A i \in credited' : issues'[i].streak > 0
      <4> DEFINE earns == run.kind \in {"healthy", "targeted"}
                          /\ (seen.body.open \/ ~seen.body.recovered)
      <4>1. /\ credited' = {i \in credited : issues'[i].streak > 0}
                           \cup {i \in {n} : earns /\ TRUE}
            /\ named' = {i \in named : issues'[i].streak > 0}
                        \cup {i \in {n} : earns /\ run.exact}
        BY <1>1 DEF Credits
      <4>2. earns => issues'[n].streak > 0
        BY <3>2, <3>3
      <4> HIDE DEF earns
      <4> QED
        BY <1>2, <3>1, <3>4, <4>1, <4>2
    <3>8. run.kind = "hourly" =>
            issues'[n].open \/ n \in byHand' \/ (~seen.body.open /\ seen.body.recovered)
      BY <3>2, <3>3, <3>5
    <3>9. byHand' \subseteq DOMAIN issues'
      BY <1>1, <1>2, <3>4
    <3> QED
      BY <1>2, <3>4, <3>6, <3>7, <3>8, <3>9
  <2> QED
    BY <2>1, <2>2
<1>6. CASE run.kind # "hourly"
  <2>1. Release
    BY <1>1, <1>6, WhereWrite DEF IInv, Step
  <2>2. TypeOK'
    BY <1>1, <1>4, <1>5, <2>1, ReleaseTyped DEF IInv, TypeOK
  <2> QED
    BY <1>5, <2>1, <2>2, ReleaseKeeps
<1>7. CASE run.kind = "hourly"
  <2>1. todo = <<"write", "others">>
    BY <1>1, <1>7, WhereWrite DEF IInv
  <2>2. todo' = Tail(todo) /\ UNCHANGED <<run, seen>> /\ Len(todo) # 1
    BY <1>1, <2>1 DEF Step
  <2>3. todo' = <<"others">>
    BY <2>1, <2>2
  <2>4. Plan' /\ todo' \in Seq({"lookup", "label", "others", "write"})
    BY <1>3, <2>2, NextRequest DEF IInv
  <2>5. seen.number \in 0..Len(issues') /\ seen.others \subseteq DOMAIN issues'
    BY <1>2, <1>5
  <2>6. TypeOK'
    BY <1>1, <1>4, <1>5, <2>2, <2>4, <2>5 DEF IInv, TypeOK
  <2>7. Counting'
    BY <2>3, <2>4 DEF Counting
  <2>8. Looked'
    BY <1>5, <1>7, <2>2 DEF IInv, Looked
  <2>9. Aimed'
    BY <1>3, <2>2 DEF IInv, Aimed
  <2> QED
    BY <1>5, <2>6, <2>7, <2>8, <2>9 DEF IInv
<1> QED
  BY <1>6, <1>7

-----------------------------------------------------------------------------
\* Every step keeps the invariant.
LEMMA StepKeeps == IInv /\ [Next]_vars => IInv'
<1> SUFFICES ASSUME IInv, [Next]_vars PROVE IInv'
  OBVIOUS
<1>1. CASE UNCHANGED vars
  BY <1>1 DEF vars, credits, site, lease, history, IInv, TypeOK, Counting, Plan, Looked, Aimed,
    MutedByHand, Current, Active, OpenIssues
<1>2. CASE \E i \in DOMAIN issues : Meddle(i)
  BY <1>2, MeddleKeeps
<1> QED
  BY <1>1, <1>2, AcquireKeeps, LookupKeeps, LabelKeeps, WriteKeeps, OthersKeeps, LoseKeeps
  DEF Next, Hourly, Requests

\* The plans of the runs, what they looked up, and the acts of people agree in
\* every state.
THEOREM Invariance == Spec => []IInv
<1> QED
  BY Initially, StepKeeps, PTL DEF Spec

\* The types, and that every credit is counted in the streak of its issue, hold
\* for all runs, whatever people do between two requests of one.
THEOREM TypeCorrect == Spec => []TypeOK
<1>1. IInv => TypeOK
  BY DEF IInv
<1> QED
  BY <1>1, Invariance, PTL

\* No run leaves a closed issue that would silence its signal unless a person
\* closed it: hourly_incident_recovery.js closes an issue only when it marks it
\* as recovered, also when it computed the body from an earlier lookup.
THEOREM MutedByHandHolds == Spec => []MutedByHand
<1>1. IInv => MutedByHand
  BY DEF IInv
<1> QED
  BY <1>1, Invariance, PTL

-----------------------------------------------------------------------------
\* The issue that runs deal with: the one the incident began with, or will.
Slot == IF world = "migrating" /\ Len(issues) = 2 THEN 2 ELSE 1

\* A run has looked its issue up and has not yet written it.
Pending == todo \notin {<<>>, Reporting, Recovering, <<"others">>}

\* The issues of each world.  A lookup finds the slot, or is ambiguous.
Shape ==
    /\ Len(issues) <= 2
    /\ world = "clean" => Len(issues) <= 1
    /\ world # "clean" => Len(issues) >= 1
    /\ Len(issues) >= 1 =>
         /\ issues[Slot].current /\ ~issues[Slot].superseded
         /\ issues[Slot].label \/ (world # "clean" /\ issues[Slot].open)
    /\ world = "stale" =>
         /\ Len(issues) = 2 /\ issues[2].current /\ ~issues[2].superseded
         /\ issues[2].label /\ ~issues[2].open
    /\ world = "migrating" /\ Len(issues) = 2 =>
         ~issues[1].current /\ (issues[2].open \/ ~issues[1].open)

\* What a run knows of the slot is still true of it, but for what people change.
Knows ==
    /\ todo \in {<<>>, Reporting, Recovering} => seen.number = 0
    /\ seen.number \in {0, Slot} /\ Slot \notin seen.others
    /\ seen.number = 0 \/ world = "stale" => seen.others = {}
    /\ Pending /\ seen.number = 0 => issues = <<>>
    /\ Pending /\ seen.number # 0 =>
         /\ seen.body.recovered = issues[seen.number].recovered
         /\ seen.body.streak = issues[seen.number].streak
         /\ seen.body.signal = issues[seen.number].signal
         /\ world = "migrating" /\ Len(issues) = 2 /\ issues[1].open =>
              todo # <<"write">> /\ 1 \in seen.others
         /\ Head(todo) # "label" => issues[seen.number].label
    /\ run.kind = "targeted" /\ Pending /\ Head(todo) # "label" =>
         seen.body.signal = run.signal
    /\ run.kind = "site" /\ Pending => seen.number \in named /\ seen.body.streak >= 1
    /\ run.kind = "none" => Idle

\* A streak is no longer than the evidence, and each credit is in it.
Earning ==
    /\ credited \subseteq {Slot}
    /\ Len(issues) >= 1 /\ ~issues[Slot].recovered =>
         /\ issues[Slot].streak <= 1 /\ issues[Slot].streak <= good.count
         /\ good.here => Slot \in credited
         /\ Slot \in named => good.here

EInv == Shape /\ Knows /\ Earning

-----------------------------------------------------------------------------
\* The slot is one of the issues.
LEMMA SlotIs ==
    ASSUME IInv, Shape
    PROVE  /\ issues \in Seq(Body) /\ DOMAIN issues = 1..Len(issues) /\ Len(issues) \in Nat
           /\ \A i \in DOMAIN issues : issues[i] \in Body
           /\ Len(issues) >= 1 => Slot \in DOMAIN issues
           /\ Slot \in {1, 2} /\ world \in {"clean", "migrating", "stale"}
<1>1. /\ issues \in Seq(Body) /\ DOMAIN issues = 1..Len(issues) /\ Len(issues) \in Nat
      /\ \A i \in DOMAIN issues : issues[i] \in Body
  BY DEF IInv, TypeOK
<1>2. world \in {"clean", "migrating", "stale"}
  BY IncidentAssumption DEF IInv, TypeOK
<1> QED
  BY <1>1, <1>2 DEF Slot

\* What a lookup finds: nothing, the slot, or two of them.
LEMMA FoundSlot ==
    ASSUME IInv, Shape, ~Ambiguous
    PROVE  /\ Found.number = IF issues = <<>> THEN 0 ELSE Slot
           /\ Slot \notin Found.others
           /\ issues = <<>> \/ world = "stale" => Found.others = {}
           /\ world = "migrating" /\ Len(issues) = 2 /\ issues[1].open =>
                1 \in Found.others
<1>1. /\ issues \in Seq(Body) /\ DOMAIN issues = 1..Len(issues) /\ Len(issues) \in Nat
      /\ \A i \in DOMAIN issues : issues[i] \in Body
      /\ Len(issues) >= 1 => Slot \in DOMAIN issues
      /\ Slot \in {1, 2} /\ world \in {"clean", "migrating", "stale"}
  BY SlotIs
<1>2. CASE Len(issues) = 0
  <2>1. issues = <<>> /\ DOMAIN issues = {}
    BY <1>1, <1>2
  <2>2. Candidates = {} /\ Owned = {}
    BY <2>1 DEF Candidates, Owned, Current, Active, OpenIssues, Labelled, ClosedSlot
  <2>3. Found = [Nothing EXCEPT !.others = {}]
    BY <2>2 DEF Found
  <2>4. Found.number = 0 /\ Found.others = {}
    BY <2>3 DEF Nothing
  <2> QED
    BY <1>2, <2>1, <2>4
<1>3. CASE Len(issues) # 0
  <2>1. Len(issues) >= 1 /\ Len(issues) \in {1, 2} /\ issues # <<>>
    BY <1>1, <1>3 DEF Shape
  <2> DEFINE n == Slot
  <2>2. /\ n \in DOMAIN issues
        /\ issues[n].current /\ ~issues[n].superseded /\ (issues[n].label \/ issues[n].open)
    BY <1>1, <2>1 DEF Shape
  <2>3. Candidates = {n}
    <3>1. CASE Len(issues) = 1
      <4>1. DOMAIN issues = {1} /\ n = 1
        BY <1>1, <3>1 DEF Slot
      <4> HIDE DEF n
      <4> QED
        BY <2>2, <4>1 DEF Candidates, Current, Active, OpenIssues, Labelled, ClosedSlot
    <3>2. CASE Len(issues) = 2 /\ world = "migrating"
      <4>1. DOMAIN issues = {1, 2} /\ n = 2
        BY <1>1, <3>2 DEF Slot
      <4>2. ~issues[1].current /\ (issues[2].open \/ ~issues[1].open)
        BY <3>2 DEF Shape
      <4> HIDE DEF n
      <4>3. Current = {2}
        BY <2>2, <4>1, <4>2 DEF Current, Active
      <4>4. CASE issues[2].open
        <5>1. Current \cap OpenIssues = {2}
          BY <4>1, <4>3, <4>4 DEF OpenIssues
        <5> QED
          BY <4>1, <5>1 DEF Candidates
      <4>5. CASE ~issues[2].open
        <5>1. OpenIssues = {}
          BY <4>1, <4>2, <4>5 DEF OpenIssues
        <5>2. 2 \in Labelled
          BY <2>2, <4>1, <4>5 DEF Labelled
        <5> QED
          BY <4>1, <4>3, <5>1, <5>2 DEF Candidates, ClosedSlot
      <4> QED
        BY <4>4, <4>5
    <3>3. CASE Len(issues) = 2 /\ world = "stale"
      <4>1. DOMAIN issues = {1, 2} /\ n = 1
        BY <1>1, <3>3 DEF Slot
      <4>2. /\ issues[2].current /\ ~issues[2].superseded
            /\ issues[2].label /\ ~issues[2].open
        BY <3>3 DEF Shape
      <4> HIDE DEF n
      <4>3. Current = {1, 2}
        BY <2>2, <4>1, <4>2 DEF Current, Active
      <4>4. CASE issues[1].open
        <5>1. Current \cap OpenIssues = {1}
          BY <4>1, <4>2, <4>3, <4>4 DEF OpenIssues
        <5> QED
          BY <4>1, <5>1 DEF Candidates
      <4>5. CASE ~issues[1].open
        <5>1. OpenIssues = {} /\ Labelled = {1, 2}
          BY <2>2, <4>1, <4>2, <4>5 DEF OpenIssues, Labelled
        <5>2. Candidates = {1, 2}
          BY <4>3, <5>1 DEF Candidates, ClosedSlot
        <5>3. Cardinality({1, 2}) = 2
          <6>1. Cardinality({1}) = 1 /\ IsFiniteSet({1})
            BY FS_Singleton
          <6>2. Cardinality({1} \cup {2}) = Cardinality({1}) + 1
            BY <6>1, FS_AddElement
          <6>3. {1} \cup {2} = {1, 2}
            OBVIOUS
          <6> QED
            BY <6>1, <6>2, <6>3
        <5> QED
          BY <5>2, <5>3 DEF Ambiguous
      <4> QED
        BY <4>4, <4>5
    <3>4. ~(Len(issues) = 2 /\ world = "clean")
      BY DEF Shape
    <3> QED
      BY <1>1, <2>1, <3>1, <3>2, <3>3, <3>4
  <2> HIDE DEF n
  <2>4. Found.number = n /\ Found.others = Owned \ {n}
    BY <2>3 DEF Found
  <2>5. world = "stale" => Owned \subseteq {1} /\ n = 1
    <3> SUFFICES ASSUME world = "stale" PROVE Owned \subseteq {1} /\ n = 1
      OBVIOUS
    <3>1. DOMAIN issues = {1, 2} /\ n = 1 /\ ~issues[2].open /\ issues[2].current
          /\ ~issues[2].superseded /\ issues[2].label
      BY <1>1 DEF Shape, Slot, n
    <3>2. issues[1].open
      <4> SUFFICES ASSUME ~issues[1].open PROVE FALSE
        OBVIOUS
      <4>1. 2 \in ClosedSlot /\ OpenIssues = {}
        BY <3>1 DEF ClosedSlot, Current, Active, Labelled, OpenIssues
      <4>2. 2 \in Candidates
        BY <4>1 DEF Candidates
      <4> QED
        BY <2>3, <3>1, <4>2
    <3>3. Active \cap OpenIssues # {} /\ OpenIssues = {1}
      BY <2>2, <3>1, <3>2 DEF Active, OpenIssues
    <3> QED
      BY <3>1, <3>3 DEF Owned
  <2>6. world = "migrating" /\ Len(issues) = 2 /\ issues[1].open => 1 \in Owned /\ n # 1
    <3> SUFFICES ASSUME world = "migrating", Len(issues) = 2, issues[1].open
                 PROVE  1 \in Owned /\ n # 1
      OBVIOUS
    <3>1. n = 2 /\ DOMAIN issues = {1, 2} /\ issues[2].open
      BY <1>1 DEF Shape, Slot, n
    <3>2. 2 \in Active \cap OpenIssues /\ 1 \in OpenIssues
      BY <2>2, <3>1 DEF Active, OpenIssues
    <3> QED
      BY <3>1, <3>2 DEF Owned
  <2> QED
    BY <2>1, <2>4, <2>5, <2>6 DEF n
<1> QED
  BY <1>2, <1>3

\* At the end of a run nothing is known.
LEMMA ReleaseKnows ==
    ASSUME Release, Shape', Earning'
    PROVE  EInv'
<1>1. run' = Resting /\ todo' = <<>> /\ seen'.number = 0 /\ seen'.others = {}
  BY NothingTyped DEF Release
<1>2. ~Pending'
  BY <1>1 DEF Pending
<1>3. Knows'
  BY <1>1, <1>2 DEF Knows, Idle
<1> QED
  BY <1>3 DEF EInv

\* A step that leaves the issues alone and does not go on with a run.
LEMMA GrantKeeps ==
    ASSUME IInv, EInv, UNCHANGED <<world, issues, seen>>, Idle,
           todo' \in {<<>>, Reporting, Recovering}, run'.kind = "none" => todo' = <<>>,
           \/ UNCHANGED <<credited, named, good>>
           \/ credited' = {} /\ named' = {} /\ good' = [good EXCEPT !.here = FALSE]
    PROVE  EInv'
<1>1. Slot' = Slot /\ Shape'
  BY DEF EInv, Shape, Slot
<1>2. seen.number = 0
  BY DEF EInv, Knows, Idle
<1>3. ~Pending'
  BY DEF Pending
<1>4. Knows'
  BY <1>1, <1>2, <1>3 DEF EInv, Knows, Idle
<1>5. Earning'
  <2>1. CASE UNCHANGED <<credited, named, good>>
    BY <1>1, <2>1 DEF EInv, Earning
  <2>2. CASE credited' = {} /\ named' = {} /\ good' = [good EXCEPT !.here = FALSE]
    <3>1. good'.here = FALSE /\ good'.count = good.count
      BY <2>2 DEF IInv, TypeOK
    <3> QED
      BY <1>1, <2>2, <3>1 DEF EInv, Earning
  <2> QED
    BY <2>1, <2>2
<1> QED
  BY <1>1, <1>4, <1>5 DEF EInv

\* A step that changes neither the issues nor a run, nor what is credited.
LEMMA AloneKeeps ==
    ASSUME EInv, UNCHANGED <<world, issues, credited, named, good, run, todo, seen>>
    PROVE  EInv'
<1>1. Slot' = Slot /\ Pending' = Pending
  BY DEF Slot, Pending
<1>2. Shape' /\ Earning'
  BY <1>1 DEF EInv, Shape, Earning
<1>3. Knows'
  BY <1>1 DEF EInv, Knows, Idle
<1> QED
  BY <1>2, <1>3 DEF EInv

\* A publication voids the credits for the one before; a run that starts knows
\* nothing.
LEMMA AcquireEarns ==
    ASSUME IInv, EInv,
           HourlyFails \/ HourlyDegrades \/ HourlyRecovers \/ TargetedRecovers
             \/ QueueFinalizer \/ PublishOnly \/ Probe \/ Confirm
    PROVE  EInv' /\ UNCHANGED issues
<1>1. CASE HourlyFails \/ HourlyDegrades \/ HourlyRecovers \/ TargetedRecovers
             \/ QueueFinalizer
  <2>1. /\ Idle /\ UNCHANGED <<world, issues, seen>> /\ todo' \in {Reporting, Recovering}
        /\ run'.kind # "none"
    <3>1. PICK kind \in {"hourly", "healthy", "targeted"}, plan \in {Reporting, Recovering} :
            \E signal, exact : Acquire(kind, signal, exact, plan)
      BY <1>1 DEF HourlyFails, HourlyDegrades, HourlyRecovers, TargetedRecovers, QueueFinalizer
    <3> QED
      BY <3>1 DEF Acquire
  <2>2. \/ UNCHANGED <<credited, named, good>>
        \/ credited' = {} /\ named' = {} /\ good' = [good EXCEPT !.here = FALSE]
    BY <1>1 DEF HourlyFails, HourlyDegrades, HourlyRecovers, TargetedRecovers, QueueFinalizer,
      Publish, credits, history
  <2> QED
    BY <2>1, <2>2, GrantKeeps
<1>2. CASE PublishOnly
  <2>1. /\ Idle /\ UNCHANGED <<world, issues, seen, todo, run>>
        /\ credited' = {} /\ named' = {} /\ good' = [good EXCEPT !.here = FALSE]
    BY <1>2 DEF PublishOnly, Publish, lease
  <2> QED
    BY <2>1, GrantKeeps DEF Idle
<1>3. CASE Probe
  <2>1. UNCHANGED <<world, issues, credited, named, good, run, todo, seen>>
    BY <1>3 DEF Probe, credits, lease, history
  <2> QED
    BY <2>1, AloneKeeps
<1>4. CASE Confirm
  <2>1. UNCHANGED <<credited, named, good>>
    BY <1>4 DEF Confirm, credits, history
  <2>2. \/ Idle /\ UNCHANGED <<world, issues, seen>> /\ todo' = Recovering
             /\ run'.kind = "site"
        \/ UNCHANGED <<world, issues, run, todo, seen>>
    BY <1>4 DEF Confirm, Acquire, lease
  <2> QED
    BY <2>1, <2>2, GrantKeeps, AloneKeeps
<1> QED
  BY <1>1, <1>2, <1>3, <1>4

\* A lookup that goes on finds the slot, as it is.
LEMMA LookupEarns ==
    ASSUME IInv, EInv, Lookup
    PROVE  EInv' /\ UNCHANGED issues
<1>1. UNCHANGED <<world, issues, credited, named, good>>
  BY DEF Lookup, credits, history
<1>2. Slot' = Slot /\ Shape' /\ Earning'
  BY <1>1 DEF EInv, Shape, Slot, Earning
<1>3. CASE Release
  BY <1>1, <1>2, <1>3, ReleaseKnows
<1>4. CASE ~Release
  <2>1. ~Ambiguous /\ Relevant(Found) /\ seen' = Found /\ todo' = Tail(todo) /\ run' = run
    BY <1>4 DEF Lookup
  <2>2. todo \in {Reporting, Recovering}
    BY DEF Lookup, Request, IInv, Counting, Plan
  <2>a. /\ Tail(Reporting) = <<"label", "write", "others">>
        /\ Tail(Recovering) = <<"label", "others", "write">>
    BY DEF Reporting, Recovering
  <2>b. todo' \in {<<"label", "write", "others">>, <<"label", "others", "write">>}
    BY <2>1, <2>2, <2>a
  <2>3. Head(todo') = "label" /\ Pending'
    BY <2>b DEF Reporting, Recovering, Pending
  <2>4. /\ Found.number = IF issues = <<>> THEN 0 ELSE Slot
        /\ Slot \notin Found.others
        /\ issues = <<>> \/ world = "stale" => Found.others = {}
        /\ world = "migrating" /\ Len(issues) = 2 /\ issues[1].open => 1 \in Found.others
    BY <2>1, FoundSlot DEF EInv
  <2>5. Found.number # 0 => Found.body = issues[Found.number]
    BY FoundLooked
  <2>6. run.kind = "site" =>
          Found.number \in named /\ Found.body.streak >= 1 /\ Found.number # 0
    BY <2>1 DEF Relevant, Waits
  <2>7. Slot # 0
    BY DEF Slot
  <2>c. run.kind # "none"
    BY <2>2 DEF EInv, Knows, Idle, Reporting, Recovering
  <2>8. Knows'
    <3>1. todo' \notin {<<>>, Reporting, Recovering} /\ todo' # <<"write">>
      BY <2>b DEF Reporting, Recovering
    <3> QED
      BY <1>1, <1>2, <2>1, <2>2, <2>3, <2>4, <2>5, <2>6, <2>7, <2>c, <3>1 DEF Knows
  <2> QED
    BY <1>1, <1>2, <2>8 DEF EInv
<1> QED
  BY <1>1, <1>3, <1>4

\* A run that ends early takes what it knew with it.
LEMMA LoseEarns ==
    ASSUME IInv, EInv, Lose
    PROVE  EInv' /\ UNCHANGED issues
<1>1. UNCHANGED <<world, issues, credited, named, good>> /\ Release
  BY DEF Lose, credits, history
<1>2. Slot' = Slot /\ Shape' /\ Earning'
  BY <1>1 DEF EInv, Shape, Slot, Earning
<1> QED
  BY <1>1, <1>2, ReleaseKnows

\* The label changes nothing that a run or a streak depends on.
LEMMA LabelEarns ==
    ASSUME IInv, EInv, Label
    PROVE  EInv' /\ \A i \in DOMAIN issues : issues'[i].recovered = issues[i].recovered
<1>1. /\ UNCHANGED <<world, credited, named, good>>
      /\ Request("label") /\ (IF OutOfScope THEN Release ELSE Step)
      /\ issues' = [i \in DOMAIN issues |->
                      [issues[i] EXCEPT !.label = @ \/ i = seen.number]]
  BY DEF Label, credits, history
<1>2. /\ issues \in Seq(Body) /\ DOMAIN issues = 1..Len(issues) /\ Len(issues) \in Nat
      /\ \A i \in DOMAIN issues : issues[i] \in Body
      /\ Len(issues) >= 1 => Slot \in DOMAIN issues
  BY SlotIs DEF EInv
<1>3. \A i \in DOMAIN issues :
        /\ issues'[i] \in Body
        /\ issues'[i].open = issues[i].open /\ issues'[i].streak = issues[i].streak
        /\ issues'[i].recovered = issues[i].recovered
        /\ issues'[i].signal = issues[i].signal
        /\ issues'[i].current = issues[i].current
        /\ issues'[i].superseded = issues[i].superseded
        /\ issues[i].label => issues'[i].label
        /\ i = seen.number => issues'[i].label
  BY <1>1, <1>2 DEF Body
<1>4. Len(issues') = Len(issues) /\ DOMAIN issues' = DOMAIN issues
  <2>1. issues' \in [DOMAIN issues -> Body]
    BY <1>1, <1>3
  <2> QED
    BY <1>2, <2>1, Renewed
<1>5. Slot' = Slot
  BY <1>1, <1>4 DEF Slot
<1>6. Shape'
  <2>1. Len(issues) >= 1 => 1 \in DOMAIN issues
    BY <1>2
  <2>2. Len(issues) = 2 => 2 \in DOMAIN issues
    BY <1>2
  <2>3. Shape
    BY DEF EInv
  <2>4. Len(issues') >= 1 =>
         /\ issues'[Slot].current /\ ~issues'[Slot].superseded
         /\ issues'[Slot].label \/ (world # "clean" /\ issues'[Slot].open)
    BY <1>2, <1>3, <1>4, <2>3 DEF Shape
  <2>5. world = "stale" =>
         /\ Len(issues') = 2 /\ issues'[2].current /\ ~issues'[2].superseded
         /\ issues'[2].label /\ ~issues'[2].open
    BY <1>3, <1>4, <2>2, <2>3 DEF Shape
  <2>6. world = "migrating" /\ Len(issues') = 2 =>
         ~issues'[1].current /\ (issues'[2].open \/ ~issues'[1].open)
    BY <1>2, <1>3, <1>4, <2>1, <2>2, <2>3 DEF Shape
  <2> QED
    BY <1>1, <1>4, <1>5, <2>3, <2>4, <2>5, <2>6 DEF Shape
<1>7. Earning'
  BY <1>1, <1>2, <1>3, <1>4, <1>5 DEF EInv, Earning
<1>8. CASE Release
  BY <1>3, <1>6, <1>7, <1>8, ReleaseKnows
<1>9. CASE ~Release
  <2>1. todo' = Tail(todo) /\ UNCHANGED <<run, seen>> /\ ~OutOfScope
    BY <1>1, <1>9 DEF Step
  <2>2. todo \in {<<"label", "write", "others">>, <<"label", "others", "write">>}
    BY <1>1 DEF IInv, Counting, Plan, Request, Reporting, Recovering
  <2>a. /\ Tail(<<"label", "write", "others">>) = <<"write", "others">>
        /\ Tail(<<"label", "others", "write">>) = <<"others", "write">>
    OBVIOUS
  <2>b. todo' \in {<<"write", "others">>, <<"others", "write">>}
    BY <2>1, <2>2, <2>a
  <2>c. Pending
    BY <2>2 DEF Pending, Reporting, Recovering
  <2>3. Head(todo') # "label" /\ Pending /\ Pending' /\ todo' # <<"write">>
          /\ todo' \notin {<<>>, Reporting, Recovering}
    BY <2>b, <2>c DEF Pending, Reporting, Recovering
  <2>4. issues = <<>> => issues' = <<>>
    BY <1>1
  <2>5. seen.number = 0 \/ seen.number \in DOMAIN issues
    BY <1>2 DEF IInv, TypeOK
  <2>6. Len(issues) = 2 => 1 \in DOMAIN issues
    BY <1>2
  <2>7. run.kind = "targeted" => seen.body.signal = run.signal
    BY <2>1 DEF OutOfScope
  <2>8. /\ seen.number \in {0, Slot} /\ Slot \notin seen.others
        /\ seen.number = 0 \/ world = "stale" => seen.others = {}
        /\ seen.number = 0 => issues = <<>>
        /\ seen.number # 0 =>
             /\ seen.body.recovered = issues[seen.number].recovered
             /\ seen.body.streak = issues[seen.number].streak
             /\ seen.body.signal = issues[seen.number].signal
             /\ world = "migrating" /\ Len(issues) = 2 /\ issues[1].open => 1 \in seen.others
        /\ run.kind = "site" => seen.number \in named /\ seen.body.streak >= 1
        /\ run.kind # "none"
    BY <2>2, <2>3 DEF EInv, Knows, Idle
  <2>d. seen.number # 0 =>
          /\ seen.body.recovered = issues'[seen.number].recovered
          /\ seen.body.streak = issues'[seen.number].streak
          /\ seen.body.signal = issues'[seen.number].signal
          /\ issues'[seen.number].label
          /\ world = "migrating" /\ Len(issues') = 2 /\ issues'[1].open => 1 \in seen.others
    BY <1>3, <1>4, <2>5, <2>6, <2>8
  <2>e. UNCHANGED <<world, named, run, seen, Slot>>
    BY <1>1, <1>5, <2>1
  <2>9. Knows'
    BY <2>3, <2>4, <2>7, <2>8, <2>d, <2>e DEF Knows
  <2> QED
    BY <1>3, <1>6, <1>7, <2>9 DEF EInv
<1> QED
  BY <1>8, <1>9

\* The slot is never among the issues that are retired.
LEMMA OthersEarn ==
    ASSUME IInv, EInv, Others
    PROVE  EInv' /\ \A i \in DOMAIN issues : issues'[i].recovered = issues[i].recovered
<1>1. /\ UNCHANGED <<world, credited, named, good>>
      /\ Request("others") /\ Step
      /\ issues' = [i \in DOMAIN issues |->
                      IF i \in seen.others THEN Superseded(issues[i]) ELSE issues[i]]
  BY DEF Others, credits, history
<1>2. /\ issues \in Seq(Body) /\ DOMAIN issues = 1..Len(issues) /\ Len(issues) \in Nat
      /\ \A i \in DOMAIN issues : issues[i] \in Body
      /\ Len(issues) >= 1 => Slot \in DOMAIN issues
  BY SlotIs DEF EInv
<1>3. \A i \in DOMAIN issues :
        /\ issues'[i] \in Body
        /\ issues'[i].recovered = issues[i].recovered
        /\ i \notin seen.others => issues'[i] = issues[i]
        /\ i \in seen.others => ~issues'[i].open /\ ~issues'[i].current
  <2> TAKE i \in DOMAIN issues
  <2>0. issues[i] \in Body
    BY <1>2
  <2>1. /\ Superseded(issues[i]) \in Body /\ ~Superseded(issues[i]).open
        /\ ~Superseded(issues[i]).current
        /\ Superseded(issues[i]).recovered = issues[i].recovered
    <3> DEFINE old == issues[i]
    <3>1. old \in Body
      BY <2>0
    <3> HIDE DEF old
    <3>2. Superseded(old) \in Body
      BY <3>1, BodyTypes
    <3>3. ~Superseded(old).open /\ ~Superseded(old).current
          /\ Superseded(old).recovered = old.recovered
      BY <3>1 DEF Superseded, Body
    <3> QED
      BY <3>2, <3>3 DEF old
  <2>2. issues'[i] = IF i \in seen.others THEN Superseded(issues[i]) ELSE issues[i]
    BY <1>1
  <2> QED
    BY <1>2, <2>1, <2>2
<1>4. Len(issues') = Len(issues) /\ DOMAIN issues' = DOMAIN issues
  <2>1. issues' \in [DOMAIN issues -> Body]
    BY <1>1, <1>3
  <2> QED
    BY <1>2, <2>1, Renewed
<1>5. Slot' = Slot
  BY <1>1, <1>4 DEF Slot
<1>6. Slot \notin seen.others /\ (world = "stale" => seen.others = {})
  BY DEF EInv, Knows
<1>7. Len(issues) >= 1 => issues'[Slot] = issues[Slot]
  BY <1>2, <1>3, <1>6
<1>8. Shape'
  <2>1. Len(issues) >= 1 => 1 \in DOMAIN issues
    BY <1>2
  <2>2. Len(issues) = 2 => 2 \in DOMAIN issues
    BY <1>2
  <2>3. world = "stale" /\ Len(issues) = 2 => issues'[2] = issues[2]
    BY <1>3, <1>6, <2>2
  <2>4. world = "migrating" /\ Len(issues) = 2 =>
          /\ issues'[2] = issues[2]
          /\ issues'[1] = issues[1] \/ (~issues'[1].open /\ ~issues'[1].current)
    BY <1>3, <1>7, <2>1 DEF Slot
  <2> QED
    BY <1>1, <1>4, <1>5, <1>7, <2>3, <2>4 DEF EInv, Shape
<1>9. Earning'
  BY <1>1, <1>4, <1>5, <1>7 DEF EInv, Earning
<1>10. CASE Release
  BY <1>3, <1>8, <1>9, <1>10, ReleaseKnows
<1>11. CASE ~Release
  <2>1. todo' = Tail(todo) /\ UNCHANGED <<run, seen>> /\ Len(todo) # 1
    BY <1>1, <1>11 DEF Step
  <2>2. todo = <<"others", "write">>
    BY <1>1, <2>1, WhereOthers DEF IInv
  <2>3. todo' = <<"write">> /\ Head(todo) # "label" /\ Head(todo') # "label"
          /\ Pending /\ Pending' /\ todo' \notin {<<>>, Reporting, Recovering}
    BY <2>1, <2>2 DEF Pending, Reporting, Recovering
  <2>4. issues = <<>> => issues' = <<>>
    BY <1>1
  <2>5. seen.number # 0 => seen.number = Slot /\ issues'[seen.number] = issues[seen.number]
    <3>1. seen.number \in 0..Len(issues) /\ seen.number \in {0, Slot}
      BY DEF IInv, TypeOK, EInv, Knows
    <3> QED
      BY <1>2, <1>7, <3>1
  <2>6. Len(issues) = 2 => 1 \in DOMAIN issues
    BY <1>2
  <2>7. seen.number # 0 /\ world = "migrating" /\ Len(issues) = 2 => ~issues'[1].open
    <3> SUFFICES ASSUME seen.number # 0, world = "migrating", Len(issues) = 2
                 PROVE  ~issues'[1].open
      OBVIOUS
    <3>1. issues[1].open => 1 \in seen.others
      BY <2>3 DEF EInv, Knows
    <3> QED
      BY <1>3, <2>6, <3>1
  <2>8. /\ seen.number \in {0, Slot} /\ Slot \notin seen.others
        /\ seen.number = 0 \/ world = "stale" => seen.others = {}
        /\ seen.number = 0 => issues = <<>>
        /\ seen.number # 0 =>
             /\ seen.body.recovered = issues[seen.number].recovered
             /\ seen.body.streak = issues[seen.number].streak
             /\ seen.body.signal = issues[seen.number].signal
             /\ issues[seen.number].label
        /\ run.kind = "targeted" => seen.body.signal = run.signal
        /\ run.kind = "site" => seen.number \in named /\ seen.body.streak >= 1
        /\ run.kind # "none"
    BY <2>2, <2>3 DEF EInv, Knows, Idle
  <2>9. Knows'
    BY <1>1, <1>4, <1>5, <2>1, <2>3, <2>4, <2>5, <2>7, <2>8 DEF Knows
  <2> QED
    BY <1>3, <1>8, <1>9, <2>9 DEF EInv
<1> QED
  BY <1>10, <1>11

\* People open and close; what a run knows of the streak stays true.
LEMMA MeddleEarns ==
    ASSUME IInv, EInv, NEW j \in DOMAIN issues, Meddle(j)
    PROVE  EInv' /\ \A i \in DOMAIN issues : issues'[i].recovered = issues[i].recovered
<1>1. /\ UNCHANGED <<world, credited, named, good, run, todo, seen>> /\ world = "clean"
      /\ issues' = [issues EXCEPT ![j].open = ~@]
  BY DEF Meddle, credits, history, lease
<1>2. /\ issues \in Seq(Body) /\ DOMAIN issues = 1..Len(issues) /\ Len(issues) \in Nat
      /\ \A i \in DOMAIN issues : issues[i] \in Body
      /\ Len(issues) >= 1 => Slot \in DOMAIN issues
  BY SlotIs DEF EInv
<1>3. \A i \in DOMAIN issues :
        /\ issues'[i] \in Body
        /\ issues'[i].streak = issues[i].streak
        /\ issues'[i].recovered = issues[i].recovered
        /\ issues'[i].signal = issues[i].signal
        /\ issues'[i].current = issues[i].current
        /\ issues'[i].superseded = issues[i].superseded
        /\ issues'[i].label = issues[i].label
  BY <1>1, <1>2 DEF Body
<1>4. Len(issues') = Len(issues) /\ DOMAIN issues' = DOMAIN issues
  <2>1. issues' \in [DOMAIN issues -> Body]
    BY <1>1, <1>3
  <2> QED
    BY <1>2, <2>1, Renewed
<1>5. Slot' = Slot /\ Pending' = Pending
  BY <1>1, <1>4 DEF Slot, Pending
<1>6. Shape'
  BY <1>1, <1>2, <1>3, <1>4, <1>5 DEF EInv, Shape
<1>7. Earning'
  BY <1>1, <1>2, <1>3, <1>4, <1>5 DEF EInv, Earning
<1>8. Knows'
  <2>1. seen.number = 0 \/ seen.number \in DOMAIN issues
    BY <1>2 DEF IInv, TypeOK
  <2>2. issues # <<>>
    BY <1>2
  <2> QED
    BY <1>1, <1>3, <1>4, <1>5, <2>1, <2>2 DEF EInv, Knows, Idle
<1> QED
  BY <1>3, <1>6, <1>7, <1>8 DEF EInv
-----------------------------------------------------------------------------
\* What a failed run writes is not recovered unless it saw it so, and has no
\* streak.
LEMMA ReportIs ==
    ASSUME IInv, Request("write"), run.kind = "hourly"
    PROVE  /\ Computed.recovered => seen.body.recovered
           /\ ~Computed.recovered => Computed.streak = 0
           /\ Computed.current /\ ~Computed.superseded
<1>1. seen.body \in Body
  BY DEF IInv, TypeOK
<1> DEFINE marked == MarkCurrent(seen.body)
<1>2. /\ marked \in Body /\ marked.open = seen.body.open
      /\ marked.recovered = seen.body.recovered /\ marked.streak = seen.body.streak
      /\ marked.current /\ ~marked.superseded
  BY <1>1, BodyTypes DEF MarkCurrent, Body
<1> HIDE DEF marked
<1>3. run.signal \in Signal \cup {"transient"} /\ Computed = Report(seen.body)
  BY DEF IInv, Aimed, Computed
<1>4. /\ Reset(marked).recovered = FALSE /\ Reset(marked).streak = 0
      /\ Reset(marked).current /\ ~Reset(marked).superseded
  BY <1>2 DEF Reset, Body
<1>5. CASE run.signal = "transient"
  <2>1. Computed = Transient(marked)
    BY <1>3, <1>5 DEF Report, marked
  <2>2. CASE marked.open \/ (marked.streak > 0 /\ ~marked.recovered)
    BY <1>4, <2>1, <2>2 DEF Transient
  <2>3. CASE ~(marked.open \/ (marked.streak > 0 /\ ~marked.recovered))
    <3>1. Computed = marked
      BY <2>1, <2>3 DEF Transient
    <3>2. marked.streak \in Nat
      BY <1>2 DEF Body
    <3> QED
      BY <1>2, <2>3, <3>1, <3>2
  <2> QED
    BY <2>2, <2>3
<1>6. CASE run.signal # "transient" /\ Muted(seen.body, run.signal)
  <2>1. Computed = Reset(marked)
    BY <1>3, <1>6 DEF Report, marked
  <2> QED
    BY <1>4, <2>1
<1>7. CASE run.signal # "transient" /\ ~Muted(seen.body, run.signal)
  <2>1. Computed = Fresh(run.signal)
    BY <1>3, <1>7 DEF Report
  <2> QED
    BY <2>1 DEF Fresh
<1> QED
  BY <1>5, <1>6, <1>7

\* What a healthy run or the monitor writes: one more credit at most, and marked
\* as recovered when the streak is long enough.
LEMMA RecoverIs ==
    ASSUME IInv, run.kind # "hourly"
    PROVE  /\ Computed.current /\ ~Computed.superseded
           /\ seen.body.recovered => Computed.recovered
           /\ ~seen.body.recovered =>
                /\ Computed.streak = IF run.kind = "site" \/ seen.number \in credited
                                     THEN seen.body.streak ELSE seen.body.streak + 1
                /\ Computed.recovered <=> Computed.streak >= Needed
<1>1. seen.body \in Body
  BY DEF IInv, TypeOK
<1> DEFINE marked == MarkCurrent(seen.body)
           next == IF run.kind = "site" THEN marked
                   ELSE Advanced(marked, seen.number \in credited)
<1>2. /\ marked \in Body /\ marked.open = seen.body.open
      /\ marked.recovered = seen.body.recovered /\ marked.streak = seen.body.streak
      /\ marked.current /\ ~marked.superseded
  BY <1>1, BodyTypes DEF MarkCurrent, Body
<1>3. Computed = IF ~seen.body.open /\ seen.body.recovered THEN marked
                 ELSE IF next.streak >= Needed
                      THEN [next EXCEPT !.recovered = TRUE, !.open = FALSE]
                      ELSE next
  BY DEF Computed, Recover
<1> HIDE DEF marked
<1>4. /\ next \in Body /\ next.recovered = seen.body.recovered
      /\ next.current /\ ~next.superseded
      /\ next.streak = IF run.kind = "site" \/ seen.number \in credited
                       THEN seen.body.streak ELSE seen.body.streak + 1
  BY <1>2 DEF Advanced, Body
<1> HIDE DEF next
<1>5. LET done == [next EXCEPT !.recovered = TRUE, !.open = FALSE]
      IN  /\ done.recovered /\ done.streak = next.streak
          /\ done.current /\ ~done.superseded
  BY <1>4 DEF Body
<1>6. seen.body.recovered \in BOOLEAN /\ seen.body.open \in BOOLEAN
  BY <1>1 DEF Body
<1> QED
  BY <1>2, <1>3, <1>4, <1>5, <1>6

\* What is known of the slot before the write of it, and what the write does.
LEMMA WriteSlot ==
    ASSUME IInv, EInv, Write, seen.number # 0,
           NEW n, n = seen.number, NEW old, old = issues[n], NEW b, b = issues'[n]
    PROVE  /\ n = Slot /\ n \in DOMAIN issues /\ UNCHANGED <<world, Slot>>
           /\ Len(issues') = Len(issues) /\ DOMAIN issues' = DOMAIN issues
           /\ \A i \in DOMAIN issues : i # n => issues'[i] = issues[i]
           /\ old.recovered = seen.body.recovered /\ old.streak = seen.body.streak
           /\ old.signal = seen.body.signal /\ old.label
           /\ b \in Body /\ b.current /\ ~b.superseded /\ b.label
           /\ b.recovered = Computed.recovered /\ b.streak = Computed.streak
           /\ run.kind = "hourly" => b.open \/ ~old.open
<1>1. Request("write") /\ todo \notin {<<>>, Reporting, Recovering, <<"others">>}
        /\ Head(todo) # "label"
  BY DEF Write, Request, Reporting, Recovering
<1>2. n = Slot /\ old.recovered = seen.body.recovered /\ old.streak = seen.body.streak
        /\ old.signal = seen.body.signal /\ old.label
  BY <1>1 DEF EInv, Knows, Pending
<1>3. /\ issues \in Seq(Body) /\ \A i \in DOMAIN issues : issues[i] \in Body
      /\ seen.number \in DOMAIN issues
  BY DEF IInv, TypeOK
<1>4. world' = world /\ issues' = [issues EXCEPT ![n] = Written(n)]
  BY DEF Write
<1>5. b = Written(n) /\ \A i \in DOMAIN issues : i # n => issues'[i] = issues[i]
  BY <1>3, <1>4
<1>6. b \in Body /\ (run.kind = "hourly" => b.open \/ ~old.open)
  BY <1>1, <1>5, WrittenBody
<1>7. Len(issues') = Len(issues) /\ DOMAIN issues' = DOMAIN issues
  <2>1. issues' \in [DOMAIN issues -> Body]
    BY <1>3, <1>4, <1>5, <1>6
  <2> QED
    BY <1>3, <2>1, Renewed
<1>8. Slot' = Slot
  BY <1>4, <1>7 DEF Slot
<1>9. /\ Computed \in Body /\ Computed.current /\ ~Computed.superseded
  BY <1>1, ComputedBody, ReportIs, RecoverIs
<1>10. /\ b.label = old.label /\ b.recovered = Computed.recovered
       /\ b.streak = Computed.streak /\ b.current = Computed.current
       /\ b.superseded = Computed.superseded
  <2>1. b = [Computed EXCEPT !.label = old.label,
                             !.open = IF @ = seen.body.open THEN old.open ELSE @]
    BY <1>5 DEF Written
  <2> QED
    BY <1>9, <2>1 DEF Body
<1> QED
  BY <1>2, <1>3, <1>4, <1>5, <1>6, <1>7, <1>8, <1>9, <1>10

\* An issue is marked as recovered on the evidence that the history has.
LEMMA WriteEvidence ==
    ASSUME IInv, EInv, Write, seen.number # 0,
           NEW n, n = seen.number, NEW old, old = issues[n],
           ~old.recovered, issues'[n].recovered
    PROVE  Evidence(n)
<1>1. /\ n = Slot /\ n \in DOMAIN issues /\ Len(issues) >= 1
      /\ ~seen.body.recovered /\ old.streak = seen.body.streak
      /\ old.signal = seen.body.signal /\ Computed.recovered
  <2>1. issues \in Seq(Body)
    BY DEF IInv, TypeOK
  <2> QED
    BY <2>1, WriteSlot
<1>2. /\ Request("write") /\ good' = Counted /\ Pending /\ Head(todo) # "label"
  BY DEF Write, Request, Pending, Reporting, Recovering
<1>3. run.kind # "hourly"
  BY <1>1, <1>2, ReportIs
<1>4. run.kind \in {"healthy", "targeted", "site"}
  BY <1>2, <1>3 DEF IInv, TypeOK, EInv, Knows, Idle, Request
<1>5. /\ old.streak \in Nat /\ old.streak <= 1 /\ old.streak <= good.count
      /\ good.here => n \in credited
      /\ n \in named => good.here
      /\ good \in [count : 0..2, here : BOOLEAN]
  BY <1>1 DEF EInv, Earning, IInv, TypeOK, Body
<1>6. CASE run.kind = "site"
  <2>1. n \in named
    BY <1>2, <1>6 DEF EInv, Knows
  <2> QED
    BY <1>5, <1>6, <2>1 DEF Evidence
<1>7. CASE run.kind = "targeted"
  BY <1>1, <1>2, <1>7 DEF EInv, Knows, Evidence
<1>8. CASE run.kind = "healthy"
  <2>1. Computed.streak = (IF n \in credited THEN old.streak ELSE old.streak + 1)
          /\ Computed.streak >= 2
    BY <1>1, <1>3, <1>8, RecoverIs DEF Needed
  <2>2. n \notin credited /\ old.streak = 1
    BY <1>5, <2>1
  <2>3. good.here = FALSE /\ good.count \in {1, 2}
    BY <1>5, <2>2
  <2>4. good'.count = IF good.here \/ good.count = 2 THEN good.count ELSE good.count + 1
    BY <1>2, <1>8 DEF Counted
  <2> QED
    BY <2>3, <2>4 DEF Evidence
<1> QED
  BY <1>4, <1>6, <1>7, <1>8

\* After a write the streak of an issue that has not recovered is covered by
\* the evidence.
LEMMA WriteEarning ==
    ASSUME IInv, EInv, Write, seen.number # 0, ~issues'[seen.number].recovered
    PROVE  /\ issues'[Slot].streak <= 1 /\ issues'[Slot].streak <= good'.count
           /\ good'.here => Slot \in credited'
           /\ Slot \in named' => good'.here
<1> DEFINE n == seen.number
           old == issues[n]
<1>1. /\ n = Slot /\ n \in DOMAIN issues /\ Len(issues) >= 1
      /\ old.recovered = seen.body.recovered /\ old.streak = seen.body.streak
      /\ ~Computed.recovered /\ issues'[n].streak = Computed.streak
      /\ issues'[n] \in Body
  <2>1. issues \in Seq(Body)
    BY DEF IInv, TypeOK
  <2> QED
    BY <2>1, WriteSlot
<1>2. /\ Request("write") /\ good' = Counted /\ Credits /\ Pending
  BY DEF Write, Request, Pending, Reporting, Recovering
<1> DEFINE earns == run.kind \in {"healthy", "targeted"}
                    /\ (seen.body.open \/ ~seen.body.recovered)
<1>3. /\ credited' = {i \in credited : issues'[i].streak > 0} \cup {i \in {n} : earns /\ TRUE}
      /\ named' = {i \in named : issues'[i].streak > 0} \cup {i \in {n} : earns /\ run.exact}
  BY <1>2 DEF Credits
<1>4. CASE run.kind = "hourly"
  <2>1. Computed.streak = 0
    BY <1>1, <1>2, <1>4, ReportIs
  <2>2. good'.count = 0 /\ good'.here = FALSE
    BY <1>2, <1>4 DEF Counted
  <2>3. ~earns
    BY <1>4
  <2> HIDE DEF earns
  <2>4. n \notin named'
    BY <1>1, <1>3, <2>1, <2>3
  <2> QED
    BY <1>1, <2>1, <2>2, <2>4
<1>5. CASE run.kind # "hourly"
  <2>1. /\ ~seen.body.recovered /\ ~old.recovered
        /\ Computed.streak = IF run.kind = "site" \/ n \in credited
                             THEN old.streak ELSE old.streak + 1
        /\ ~(Computed.streak >= Needed)
    BY <1>1, <1>5, RecoverIs
  <2>2. /\ old.streak \in Nat /\ old.streak <= 1 /\ old.streak <= good.count
        /\ good.here => n \in credited
        /\ good \in [count : 0..2, here : BOOLEAN]
    BY <1>1, <2>1 DEF EInv, Earning, IInv, TypeOK, Body
  <2>3. run.kind # "site"
    <3> SUFFICES ASSUME run.kind = "site" PROVE FALSE
      OBVIOUS
    <3>1. seen.body.streak >= 1
      BY <1>2 DEF EInv, Knows
    <3> QED
      BY <1>1, <2>1, <3>1 DEF Needed
  <2>4. run.kind \in {"healthy", "targeted"}
    BY <1>2, <1>5, <2>3 DEF IInv, TypeOK, EInv, Knows, Idle, Request
  <2>5. /\ good'.here = TRUE
        /\ good'.count = IF good.here \/ good.count = 2 THEN good.count ELSE good.count + 1
    BY <1>2, <1>5 DEF Counted
  <2>6. earns
    BY <2>1, <2>4
  <2> HIDE DEF earns
  <2>7. n \in credited'
    BY <1>3, <2>6
  <2>8. Computed.streak <= 1
    BY <2>1, <2>2, <2>3 DEF Needed
  <2>9. Computed.streak <= good'.count
    BY <2>1, <2>2, <2>3, <2>5, <2>8
  <2> QED
    BY <1>1, <2>5, <2>7, <2>8, <2>9
<1> QED
  BY <1>4, <1>5

\* The issues after a write are those of their world.
LEMMA WriteShape ==
    ASSUME IInv, EInv, Write, seen.number # 0
    PROVE  Shape'
<1> DEFINE n == seen.number
<1>1. /\ n = Slot /\ n \in DOMAIN issues /\ UNCHANGED <<world, Slot>>
      /\ Len(issues') = Len(issues)
      /\ \A i \in DOMAIN issues : i # n => issues'[i] = issues[i]
      /\ issues'[n].current /\ ~issues'[n].superseded /\ issues'[n].label
      /\ run.kind = "hourly" => issues'[n].open \/ ~issues[n].open
  BY WriteSlot
<1>2. issues \in Seq(Body) /\ Len(issues) \in Nat /\ DOMAIN issues = 1..Len(issues)
  BY DEF IInv, TypeOK
<1>3. Shape
  BY DEF EInv
<1>4. world = "stale" => issues'[2] = issues[2]
  <2> SUFFICES ASSUME world = "stale" PROVE issues'[2] = issues[2]
    OBVIOUS
  <2>1. 2 \in DOMAIN issues /\ n = 1
    BY <1>1, <1>2, <1>3 DEF Shape, Slot
  <2> QED
    BY <1>1, <2>1
<1>5. world = "migrating" /\ Len(issues) = 2 =>
        issues'[1] = issues[1] /\ (issues'[2].open \/ ~issues'[1].open)
  <2> SUFFICES ASSUME world = "migrating", Len(issues) = 2
               PROVE  issues'[1] = issues[1] /\ (issues'[2].open \/ ~issues'[1].open)
    OBVIOUS
  <2>1. 1 \in DOMAIN issues /\ n = 2
    BY <1>1, <1>2 DEF Slot
  <2>2. issues'[1] = issues[1]
    BY <1>1, <2>1
  <2>3. Request("write") /\ Pending
    BY DEF Write, Request, Pending, Reporting, Recovering
  <2>4. issues[1].open => todo # <<"write">>
    BY <2>1, <2>3 DEF EInv, Knows
  <2>5. issues[1].open => run.kind = "hourly"
    BY <2>3, <2>4, WhereWrite DEF IInv
  <2> QED
    BY <1>1, <1>3, <2>1, <2>2, <2>5 DEF Shape
<1> QED
  BY <1>1, <1>3, <1>4, <1>5 DEF Shape

\* A run that writes has done so under what it knew of the slot.
LEMMA WriteEarns ==
    ASSUME IInv, EInv, Write
    PROVE  /\ EInv'
           /\ \A i \in DOMAIN issues :
                ~issues[i].recovered /\ issues'[i].recovered => Evidence(i)
<1>1. /\ Request("write") /\ Step /\ Credits /\ good' = Counted /\ world' = world
      /\ Pending
  BY DEF Write, Request, Pending, Reporting, Recovering
<1>2. Shape' /\ Earning' /\ (seen.number # 0 => Slot' = seen.number)
      /\ (seen.number = 0 => issues = <<>>)
  <2>1. CASE seen.number = 0
    <3>1. /\ issues = <<>> /\ run.kind = "hourly" /\ run.signal \in Signal
          /\ world = "clean"
      <4>1. issues = <<>>
        BY <1>1, <2>1 DEF EInv, Knows
      <4>2. run.kind = "hourly" /\ run.signal \in Signal
        BY <1>1, <2>1 DEF IInv, Aimed, Pending
      <4> QED
        BY <4>1, <4>2 DEF EInv, Shape
    <3>2. issues' = <<Fresh(run.signal)>>
      BY <2>1, <3>1 DEF Write
    <3>3. Len(issues') = 1 /\ issues'[1] = Fresh(run.signal) /\ Slot' = 1
      BY <1>1, <3>1, <3>2 DEF Slot
    <3>4. /\ issues'[1].current /\ ~issues'[1].superseded /\ issues'[1].label
          /\ issues'[1].streak = 0
      BY <3>3 DEF Fresh
    <3>5. credited = {} /\ named = {}
      BY <3>1 DEF IInv, TypeOK
    <3>6. credited' = {} /\ named' = {}
      BY <1>1, <3>1, <3>5 DEF Credits
    <3>7. good'.count = 0 /\ good'.here = FALSE
      BY <1>1, <3>1 DEF Counted
    <3>8. Shape'
      BY <1>1, <3>1, <3>3, <3>4 DEF Shape
    <3>9. Earning'
      BY <3>3, <3>4, <3>6, <3>7 DEF Earning
    <3> QED
      BY <2>1, <3>1, <3>8, <3>9
  <2>2. CASE seen.number # 0
    <3> DEFINE n == seen.number
    <3>1. n = Slot /\ Slot' = Slot
      BY <2>2, WriteSlot
    <3>2. credited' \subseteq {Slot}
      BY <1>1, <3>1 DEF Credits, EInv, Earning
    <3>3. Earning'
      BY <2>2, <3>1, <3>2, WriteEarning DEF Earning
    <3> QED
      BY <2>2, <3>1, <3>3, WriteShape
  <2> QED
    BY <2>1, <2>2
<1>3. \A i \in DOMAIN issues : ~issues[i].recovered /\ issues'[i].recovered => Evidence(i)
  <2> SUFFICES ASSUME NEW i \in DOMAIN issues, ~issues[i].recovered, issues'[i].recovered
               PROVE  Evidence(i)
    OBVIOUS
  <2>1. seen.number # 0
    BY <1>2
  <2>2. i = seen.number
    BY <2>1, WriteSlot
  <2> QED
    BY <2>1, <2>2, WriteEvidence
<1>4. CASE run.kind # "hourly"
  <2>1. Release
    BY <1>1, <1>4, WhereWrite DEF IInv, Step
  <2> QED
    BY <1>2, <1>3, <2>1, ReleaseKnows
<1>5. CASE run.kind = "hourly"
  <2>1. todo = <<"write", "others">>
    BY <1>1, <1>5, WhereWrite DEF IInv
  <2>2. todo' = Tail(todo) /\ UNCHANGED <<run, seen>>
    BY <1>1, <2>1 DEF Step
  <2>3. todo' = <<"others">>
    BY <2>1, <2>2
  <2>4. ~Pending' /\ todo' \notin {<<>>, Reporting, Recovering}
    BY <2>3 DEF Pending, Reporting, Recovering
  <2>6. /\ seen.number \in {0, Slot} /\ Slot \notin seen.others
        /\ seen.number = 0 \/ world = "stale" => seen.others = {}
    BY DEF EInv, Knows
  <2>7. seen.number \in {0, Slot'} /\ Slot' \notin seen.others
    <3>1. seen.number # 0 => Slot' = seen.number /\ seen.number = Slot
      BY <1>2, <2>6
    <3> QED
      BY <2>6, <3>1
  <2>8. Knows'
    BY <1>1, <1>5, <2>2, <2>4, <2>6, <2>7 DEF Knows
  <2> QED
    BY <1>2, <1>3, <2>8 DEF EInv
<1> QED
  BY <1>4, <1>5

-----------------------------------------------------------------------------
\* Each beginning has its shape, and no run knows anything yet.
LEMMA EarningInitially == Init => EInv
<1> SUFFICES ASSUME Init PROVE EInv
  OBVIOUS
<1>1. /\ issues \in Beginning(world) /\ world \in {"clean", "migrating", "stale"}
      /\ credited = {} /\ named = {} /\ good.here = FALSE /\ good.count = 0
      /\ todo = <<>> /\ run.kind = "none" /\ seen.number = 0 /\ seen.others = {}
  BY IncidentAssumption, NothingTyped DEF Init, Resting
<1>2. Knows
  BY <1>1 DEF Knows, Pending, Idle
<1>3. \A f \in Signal :
        /\ Fresh(f).current /\ ~Fresh(f).superseded /\ Fresh(f).label /\ Fresh(f).open
        /\ Fresh(f).streak = 0
        /\ Legacy(f).current /\ ~Legacy(f).superseded /\ Legacy(f).open
        /\ Legacy(f).streak = 0
        /\ ~[Legacy(f) EXCEPT !.current = FALSE].current
        /\ LET closed == [Fresh(f) EXCEPT !.open = FALSE]
           IN closed.current /\ ~closed.superseded /\ closed.label /\ ~closed.open
  BY DEF Legacy, Fresh
<1>4. CASE world = "clean"
  <2>1. issues = <<>>
    BY <1>1, <1>4 DEF Beginning
  <2> QED
    BY <1>1, <1>2, <1>4, <2>1 DEF EInv, Shape, Earning
<1>5. CASE world = "migrating"
  <2>1. \/ \E f \in Signal : issues = <<Legacy(f)>>
        \/ \E f \in Signal : issues = <<[Legacy(f) EXCEPT !.current = FALSE], Fresh(f)>>
    BY <1>1, <1>5 DEF Beginning
  <2>2. CASE \E f \in Signal : issues = <<Legacy(f)>>
    <3>1. PICK f \in Signal : issues = <<Legacy(f)>>
      BY <2>2
    <3>2. Len(issues) = 1 /\ issues[1] = Legacy(f) /\ Slot = 1
      BY <3>1 DEF Slot
    <3> QED
      BY <1>1, <1>2, <1>3, <1>5, <3>2 DEF EInv, Shape, Earning
  <2>3. CASE \E f \in Signal : issues = <<[Legacy(f) EXCEPT !.current = FALSE], Fresh(f)>>
    <3>1. PICK f \in Signal : issues = <<[Legacy(f) EXCEPT !.current = FALSE], Fresh(f)>>
      BY <2>3
    <3>2. Len(issues) = 2 /\ ~issues[1].current /\ issues[2] = Fresh(f) /\ Slot = 2
      BY <1>3, <1>5, <3>1 DEF Slot
    <3> QED
      BY <1>1, <1>2, <1>3, <1>5, <3>2 DEF EInv, Shape, Earning
  <2> QED
    BY <2>1, <2>2, <2>3
<1>6. CASE world = "stale"
  <2>1. PICK f \in Signal : issues = <<Legacy(f), [Fresh(f) EXCEPT !.open = FALSE]>>
    BY <1>1, <1>6 DEF Beginning
  <2>2. /\ Len(issues) = 2 /\ issues[1] = Legacy(f) /\ Slot = 1
        /\ issues[2].current /\ ~issues[2].superseded /\ issues[2].label /\ ~issues[2].open
    BY <1>3, <1>6, <2>1 DEF Slot
  <2> QED
    BY <1>1, <1>2, <1>3, <1>6, <2>2 DEF EInv, Shape, Earning
<1> QED
  BY <1>1, <1>4, <1>5, <1>6

\* Every step keeps what runs know and what streaks stand for, and marks an issue
\* as recovered on evidence only.
LEMMA StepEarns ==
    ASSUME IInv, EInv, [Next]_vars
    PROVE  /\ EInv'
           /\ \A i \in DOMAIN issues :
                ~issues[i].recovered /\ issues'[i].recovered => Evidence(i)
<1>1. CASE UNCHANGED vars
  <2>1. UNCHANGED <<world, issues, credited, named, good, run, todo, seen>>
    BY <1>1 DEF vars, credits, site, lease, history
  <2> QED
    BY <2>1, AloneKeeps
<1>2. CASE \E i \in DOMAIN issues : Meddle(i)
  BY <1>2, MeddleEarns
<1>3. CASE Write
  BY <1>3, WriteEarns
<1>4. CASE Label \/ Others
  BY <1>4, LabelEarns, OthersEarn
<1>5. CASE HourlyFails \/ HourlyDegrades \/ HourlyRecovers \/ TargetedRecovers
             \/ QueueFinalizer \/ PublishOnly \/ Probe \/ Confirm \/ Lookup \/ Lose
  BY <1>5, AcquireEarns, LookupEarns, LoseEarns
<1> QED
  BY <1>1, <1>2, <1>3, <1>4, <1>5 DEF Next, Hourly, Requests

\* A run's knowledge of its issue is true of it until it writes, whatever people
\* do meanwhile, and the streak of the issue never exceeds the publications
\* credited since the last unhealthy run.
THEOREM EarningInvariance == Spec => [](IInv /\ EInv)
<1>1. IInv /\ EInv /\ [Next]_vars => (IInv /\ EInv)'
  BY StepKeeps, StepEarns
<1> QED
  BY Initially, EarningInitially, <1>1, PTL DEF Spec

\* An incident is marked as recovered only on evidence since the last unhealthy
\* run: the credits of hourly_incident_recovery.js, kept in the body of an issue
\* that each run reads in one request and writes in another, count no
\* publication twice and none from before a failure.
THEOREM EarnedHolds == Spec => Earned
<1>1. IInv /\ EInv /\ [Next]_vars
      => [\A i \in DOMAIN issues :
            ~issues[i].recovered /\ issues'[i].recovered => Evidence(i)]_vars
  BY StepEarns
<1> QED
  BY <1>1, EarningInvariance, PTL DEF Spec, Earned

\* "Single incident slot owned by hourly-master" (hourly_incident_recovery.js:426)
\* holds of the label unless the incident began with a closed owner slot beside
\* an open legacy issue: only there two closed issues can both be the current one.
THEOREM OneSlotUnlessStale == Spec => [](world # "stale" => OneSlot)
<1>1. ASSUME IInv, EInv, world # "stale" PROVE OneSlot
  <2>1. ClosedSlot \subseteq {Slot}
    <3> SUFFICES ASSUME NEW i \in ClosedSlot PROVE i = Slot
      OBVIOUS
    <3>1. i \in DOMAIN issues /\ issues[i].current
      BY DEF ClosedSlot, Current, Active
    <3>2. DOMAIN issues = 1..Len(issues) /\ Len(issues) \in Nat /\ Len(issues) <= 2
      BY <1>1, SlotIs DEF EInv, Shape
    <3>3. world \in {"clean", "migrating"}
      BY <1>1, SlotIs DEF EInv
    <3>4. world = "clean" => Len(issues) <= 1
      BY <1>1 DEF EInv, Shape
    <3>5. world = "migrating" /\ Len(issues) = 2 => ~issues[1].current
      BY <1>1 DEF EInv, Shape
    <3> QED
      BY <3>1, <3>2, <3>3, <3>4, <3>5 DEF Slot
  <2>2. IsFiniteSet({Slot}) /\ Cardinality({Slot}) = 1
    BY FS_Singleton
  <2>3. Cardinality(ClosedSlot) <= 1
    BY <2>1, <2>2, FS_Subset
  <2> QED
    BY <2>3 DEF OneSlot
<1>2. IInv /\ EInv => (world # "stale" => OneSlot)
  BY <1>1
<1> QED
  BY <1>2, EarningInvariance, PTL

\* The runs keep to one issue: none is opened beside one that there is, although
\* each looks the issue up in one request, opens it in another, and may end
\* between them.
THEOREM NeverDuplicated == Spec => [](world = "clean" => Len(issues) <= 1)
<1>1. IInv /\ EInv => (world = "clean" => Len(issues) <= 1)
  BY DEF EInv, Shape
<1> QED
  BY <1>1, EarningInvariance, PTL
=============================================================================
