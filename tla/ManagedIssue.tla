---------------------------- MODULE ManagedIssue ----------------------------
(***************************************************************************)
(* reconcile_managed_issue (scripts/vllm/ci/managed_issue.py): a watcher   *)
(* of the hourly workflow keeps one GitHub issue in step with its alert.   *)
(*                                                                         *)
(* A run restores the watcher's state from the durable dashboard state,    *)
(* reads and changes issues one request at a time, and its new state is    *)
(* durable only when the run publishes the dashboard: a run that fails     *)
(* after a request leaves GitHub changed and the state as it was.  People  *)
(* close, reopen and disown issues at any moment.                          *)
(*                                                                         *)
(* An alert is a stable signal (its fingerprint) with mutable evidence     *)
(* (its content); an issue shows the alert its body was rendered from.     *)
(***************************************************************************)
EXTENDS Naturals, FiniteSets, FiniteSetsExt

CONSTANTS
    Alert,      \* alerts, records with the fields fp and content
    None,       \* no fingerprint, no content
    Clear,      \* no alert
    MaxIssue,   \* BOUND: issue numbers
    MaxChange,  \* BOUND: changes of the alert
    MaxUpset,   \* BOUND: failed requests, lost runs
    MaxMeddle   \* BOUND: acts of people

ASSUME ManagedAssumption ==
    /\ MaxIssue \in Nat /\ MaxChange \in Nat /\ MaxUpset \in Nat /\ MaxMeddle \in Nat
    /\ \A a \in Alert : DOMAIN a = {"fp", "content"} /\ a.fp # None
    /\ Clear \notin Alert

Number == 1..MaxIssue
Index == {"durable", "shared"}   \* the watcher's own label, the recovery labels
Fp == {a.fp : a \in Alert}

VARIABLES
    alert,      \* what the collected data says now
    issue,      \* GitHub: by number, state, ownership marker, labels, alert shown
    durable,    \* the watcher's state in the durable dashboard state
    pc,         \* the step of the run in progress, or "idle"
    st,         \* its working copy of the state
    sig,        \* the alert it was started with
    recovered,  \* its issue was found by the marker
    todo,       \* duplicates it still has to close
    touched,    \* HISTORY: issues people changed since it began
    dismissed,  \* HISTORY: the fingerprint people closed an issue for
    known,      \* HISTORY: ... and that issue was settled
    closer,     \* HISTORY: by issue, who closed it
    mutedBy,    \* HISTORY: whose close the last mute was made of
    changes, upsets, meddles

run == <<pc, st, sig, recovered, todo, touched>>
people == <<dismissed, known, meddles>>
closes == <<closer, mutedBy>>
vars == <<alert, changes, issue, durable, run, people, closes, upsets>>

Blank == [issue |-> 0, suppressed |-> FALSE, mute |-> None, fp |-> None, content |-> None]
Absent == [state |-> "absent", marker |-> FALSE, labels |-> {}, shows |-> Clear]

Open(n) == issue[n].state = "open"
Owned(n) == Open(n) /\ issue[n].marker

\* What a run needs of a request that fails.
Upset == upsets < MaxUpset /\ upsets' = upsets + 1

-----------------------------------------------------------------------------
Init ==
    /\ alert \in Alert \cup {Clear} /\ changes = 0
    /\ issue = [n \in Number |-> Absent]
    /\ durable = Blank
    /\ pc = "idle" /\ st = Blank /\ sig = Clear /\ recovered = FALSE /\ todo = {}
    /\ touched = {}
    /\ dismissed = None /\ known = FALSE
    /\ closer = [n \in Number |-> "nobody"] /\ mutedBy = "nobody"
    /\ upsets = 0 /\ meddles = 0

\* New data: the alert starts, changes or ends.
Observe ==
    /\ changes < MaxChange /\ changes' = changes + 1
    /\ \E a \in (Alert \cup {Clear}) \ {alert} :
        /\ alert' = a
        /\ IF a # Clear /\ alert # Clear /\ a.fp = alert.fp
           THEN UNCHANGED <<dismissed, known>>
           ELSE dismissed' = None /\ known' = FALSE
    /\ UNCHANGED <<issue, durable, run, closes, upsets, meddles>>

-----------------------------------------------------------------------------
EndRun == /\ pc' = "idle" /\ st' = Blank /\ sig' = Clear /\ recovered' = FALSE
          /\ todo' = {} /\ touched' = {}

\* The signal ended: the state forgets it.
Reset(s) == [s EXCEPT !.suppressed = FALSE, !.mute = None, !.fp = None, !.content = None]

\* MUTANT of Gate: an ended signal needs no lookup.
GateQuiet(s) ==
    LET muted == sig' # Clear /\ s.suppressed /\ sig'.fp = s.mute
        now == IF sig' # Clear /\ s.suppressed /\ ~muted
               THEN [s EXCEPT !.suppressed = FALSE, !.mute = None] ELSE s
    IN IF muted THEN pc' = "publish" /\ st' = s
       ELSE IF now.issue # 0 THEN pc' = "label" /\ st' = now
       ELSE IF sig' = Clear THEN pc' = "publish" /\ st' = Reset(now)
       ELSE pc' = "lookup" /\ st' = now

\* What follows once the number on record is verified or gone: a muted signal
\* ends the run, another one lifts the suppression.
Gate(s) ==
    LET muted == sig' # Clear /\ s.suppressed /\ sig'.fp = s.mute
        now == IF sig' # Clear /\ s.suppressed /\ ~muted
               THEN [s EXCEPT !.suppressed = FALSE, !.mute = None] ELSE s
    IN IF muted THEN pc' = "publish" /\ st' = s
       ELSE IF now.issue # 0 THEN pc' = "label" /\ st' = now
       ELSE IF now.suppressed THEN pc' = "publish" /\ st' = Reset(now)
       ELSE pc' = "lookup" /\ st' = now

\* The watcher restores its state and evaluates the data of its run.
Begin ==
    /\ pc = "idle"
    /\ sig' = alert
    /\ IF durable.issue # 0 THEN pc' = "read" /\ st' = durable ELSE Gate(durable)
    /\ UNCHANGED <<alert, changes, issue, durable, recovered, todo, touched,
                   people, closes, upsets>>

\* MUTANT of ClosedByHand: the close is not recorded.
ClosedForgotten(s) == [s EXCEPT !.issue = 0]

\* issue_state says the number on record is closed: somebody closed it by hand.
ClosedByHand(s) ==
    IF sig = Clear THEN [s EXCEPT !.issue = 0]
    ELSE [s EXCEPT !.issue = 0, !.suppressed = TRUE,
                   !.mute = IF s.fp # None THEN s.fp ELSE sig.fp]

\* MUTANT of Read: the marker is not checked.
ReadUnmarked ==
    /\ pc = "read"
    /\ UNCHANGED sig
    /\ IF Open(st.issue) THEN Gate(st) ELSE Gate(ClosedByHand(st))
    /\ UNCHANGED <<alert, changes, issue, durable, recovered, todo, touched,
                   people, closes, upsets>>

\* The number on record is read.  An issue without the marker is foreign, and
\* the state is kept as it is.
Read ==
    /\ pc = "read"
    /\ UNCHANGED sig
    /\ IF ~issue[st.issue].marker THEN pc' = "publish" /\ UNCHANGED <<st, mutedBy>>
       ELSE IF Open(st.issue) THEN Gate(st) /\ UNCHANGED mutedBy
       ELSE /\ Gate(ClosedByHand(st))
            /\ mutedBy' = IF sig = Clear THEN mutedBy ELSE closer[st.issue]
    /\ UNCHANGED <<alert, changes, issue, durable, recovered, todo, touched,
                   people, closer, upsets>>

\* MUTANT of Found: only the watcher's own label is searched.
FoundByOwnLabel == {n \in Number : Owned(n) /\ "durable" \in issue[n].labels}

\* find_open_issues: the owner label first, the shared labels only when it
\* leads to no exact marker.
Found ==
    LET By(i) == {n \in Number : Owned(n) /\ i \in issue[n].labels}
    IN IF By("durable") # {} THEN By("durable") ELSE By("shared")

\* What follows with the duplicates out of the way and number n in hand.
Settle(n) ==
    IF n # 0 THEN pc' = "label" /\ st' = [st EXCEPT !.issue = n]
    ELSE /\ pc' = IF sig = Clear THEN "publish" ELSE "open"
         /\ st' = IF sig = Clear THEN Reset(st) ELSE st

\* The oldest issue with the marker is recovered, the others are duplicates.
Lookup ==
    /\ pc = "lookup"
    /\ LET n == IF Found = {} THEN 0 ELSE Min(Found)
       IN /\ recovered' = (n # 0)
          /\ todo' = Found \ {n}
          /\ IF todo' = {} THEN Settle(n)
             ELSE pc' = "verify" /\ st' = [st EXCEPT !.issue = n]
    /\ UNCHANGED <<alert, changes, issue, durable, sig, touched, people,
                   closes, upsets>>

\* _close_verified_open_siblings reads each duplicate again before closing it.
Verify ==
    /\ pc = "verify"
    /\ LET n == Min(todo)
           rest == todo \ {n}
       IN IF Owned(n) THEN pc' = "sibling" /\ UNCHANGED <<st, todo>>
          ELSE /\ todo' = rest
               /\ IF rest = {} THEN Settle(st.issue) ELSE UNCHANGED <<pc, st>>
    /\ UNCHANGED <<alert, changes, issue, durable, sig, recovered, touched,
                   people, closes, upsets>>

CloseSibling ==
    /\ pc = "sibling"
    /\ LET n == Min(todo)
           rest == todo \ {n}
       IN /\ issue' = [issue EXCEPT ![n].state = "closed"]
          /\ closer' = [closer EXCEPT ![n] = "run"]
          /\ todo' = rest
          /\ IF rest = {} THEN Settle(st.issue) ELSE pc' = "verify" /\ UNCHANGED st
    /\ UNCHANGED <<alert, changes, durable, sig, recovered, touched, people,
                   mutedBy, upsets>>

\* The close is refused, or its answer is lost: the recovered number is not
\* taken over.
SiblingRefused ==
    /\ pc = "sibling" /\ Upset
    /\ \/ UNCHANGED <<issue, closer>>
       \/ /\ issue' = [issue EXCEPT ![Min(todo)].state = "closed"]
          /\ closer' = [closer EXCEPT ![Min(todo)] = "run"]
    /\ pc' = "publish" /\ st' = [st EXCEPT !.issue = 0]
    /\ UNCHANGED <<alert, changes, durable, sig, recovered, todo, touched,
                   people, mutedBy>>

Current(s) == s.fp = sig.fp /\ s.content = sig.content

\* A label that could not be ensured is left out.
Ensured(labels) == IF labels = Index THEN UNCHANGED upsets ELSE Upset

\* ensure_issue_labels puts back what is missing.
Label ==
    /\ pc = "label"
    /\ \E labels \in SUBSET Index :
        /\ Ensured(labels)
        /\ issue' = [issue EXCEPT ![st.issue].labels = @ \cup labels]
    /\ pc' = IF sig = Clear THEN "close"
             ELSE IF recovered \/ ~Current(st) THEN "update" ELSE "publish"
    /\ UNCHANGED <<alert, changes, durable, st, sig, recovered, todo,
                   touched, people, closes>>

LabelRefused ==
    /\ pc = "label" /\ Upset
    /\ pc' = "publish"
    /\ UNCHANGED <<alert, changes, issue, durable, st, sig, recovered, todo,
                   touched, people, closes>>

Recorded(s) == [s EXCEPT !.fp = sig.fp, !.content = sig.content]

\* update_issue renders the alert into the issue.
Update ==
    /\ pc = "update"
    /\ issue' = [issue EXCEPT ![st.issue].shows = sig, ![st.issue].marker = TRUE]
    /\ st' = Recorded(st)
    /\ pc' = "publish"
    /\ UNCHANGED <<alert, changes, durable, sig, recovered, todo, touched, people, closes, upsets>>

\* A recovered issue that could not be refreshed is not taken over.
UpdateRefused ==
    /\ pc = "update" /\ Upset
    /\ st' = IF recovered THEN [st EXCEPT !.issue = 0] ELSE st
    /\ pc' = "publish"
    /\ UNCHANGED <<alert, changes, issue, durable, sig, recovered, todo,
                   touched, people, closes>>

Fresh == {n \in Number : issue[n].state = "absent"}

\* open_issue, with the labels that could be ensured.
OpenIssue ==
    /\ pc = "open" /\ Fresh # {}
    /\ \E labels \in SUBSET Index :
        /\ Ensured(labels)
        /\ issue' = [issue EXCEPT ![Min(Fresh)] =
                        [state |-> "open", marker |-> TRUE, labels |-> labels,
                         shows |-> sig]]
    /\ st' = [Recorded(st) EXCEPT !.issue = Min(Fresh), !.mute = None]
    /\ pc' = "publish"
    /\ UNCHANGED <<alert, changes, durable, sig, recovered, todo, touched, people, closes>>

OpenRefused ==
    /\ pc = "open" /\ Upset
    /\ pc' = "publish"
    /\ UNCHANGED <<alert, changes, issue, durable, st, sig, recovered, todo,
                   touched, people, closes>>

\* MUTANT of CloseIssue: the number stays on record.
CloseKept ==
    /\ pc = "close"
    /\ issue' = [issue EXCEPT ![st.issue].state = "closed"]
    /\ closer' = [closer EXCEPT ![st.issue] = "run"]
    /\ st' = Reset(st)
    /\ pc' = "publish"
    /\ UNCHANGED <<alert, changes, durable, sig, recovered, todo, touched,
                   people, mutedBy, upsets>>

\* The recovery comment and the close of an ended alert.
CloseIssue ==
    /\ pc = "close"
    /\ issue' = [issue EXCEPT ![st.issue].state = "closed"]
    /\ closer' = [closer EXCEPT ![st.issue] = "run"]
    /\ st' = [Reset(st) EXCEPT !.issue = 0]
    /\ pc' = "publish"
    /\ UNCHANGED <<alert, changes, durable, sig, recovered, todo, touched,
                   people, mutedBy, upsets>>

CloseRefused ==
    /\ pc = "close" /\ Upset
    /\ pc' = "publish"
    /\ UNCHANGED <<alert, changes, issue, durable, st, sig, recovered, todo,
                   touched, people, closes>>

\* What the run under way closed is on record (nobody is taken for its closer
\* any more), or is lost with it.
Closed(by) ==
    /\ closer' = [n \in Number |-> IF closer[n] = "run" THEN by ELSE closer[n]]
    /\ UNCHANGED mutedBy

\* The run publishes the dashboard, and with it the state of the watcher.
Publish ==
    /\ pc = "publish"
    /\ durable' = st
    /\ EndRun /\ Closed("nobody")
    /\ UNCHANGED <<alert, changes, issue, people, upsets>>

\* A lookup or a request raises, the job ends, or its publication fails later.
Lose ==
    /\ pc # "idle" /\ Upset
    /\ EndRun /\ Closed("lost")
    /\ UNCHANGED <<alert, changes, issue, durable, people>>

-----------------------------------------------------------------------------
Meddle(n) ==
    /\ meddles < MaxMeddle /\ meddles' = meddles + 1
    /\ touched' = touched \cup {n}
    /\ UNCHANGED <<alert, changes, durable, pc, st, sig, recovered, todo,
                   mutedBy, upsets>>

\* The watcher's record of issue n is in step: the durable state has its number
\* and the present signal, and a run under way, if any, was started for it.
Settled(n) ==
    /\ durable.issue = n /\ durable.fp = alert.fp
    /\ pc = "idle" \/ (sig # Clear /\ sig.fp = alert.fp)

\* Somebody closes an issue; if it shows the present signal, they dismiss it.
CloseByHand(n) ==
    /\ Open(n) /\ Meddle(n)
    /\ issue' = [issue EXCEPT ![n].state = "closed"]
    /\ closer' = [closer EXCEPT ![n] = "people"]
    /\ LET dismiss == Owned(n) /\ alert # Clear /\ issue[n].shows # Clear
                      /\ issue[n].shows.fp = alert.fp
       IN IF dismiss THEN dismissed' = alert.fp /\ known' = (known \/ Settled(n))
          ELSE UNCHANGED <<dismissed, known>>

Reopen(n) ==
    /\ issue[n].state = "closed" /\ Meddle(n)
    /\ issue' = [issue EXCEPT ![n].state = "open"]
    /\ closer' = [closer EXCEPT ![n] = "nobody"]
    /\ UNCHANGED <<dismissed, known>>

\* Somebody takes the ownership marker out of the body.
Disown(n) ==
    /\ Owned(n) /\ Meddle(n)
    /\ issue' = [issue EXCEPT ![n].marker = FALSE]
    /\ UNCHANGED <<dismissed, known, closer>>

Refused == SiblingRefused \/ LabelRefused \/ UpdateRefused \/ OpenRefused \/ CloseRefused

Step ==
    \/ Begin \/ Read \/ Lookup \/ Verify \/ CloseSibling \/ Label \/ Update
    \/ OpenIssue \/ CloseIssue \/ Publish

Next ==
    \/ Observe \/ Step \/ Refused \/ Lose
    \/ \E n \in Number : CloseByHand(n) \/ Reopen(n) \/ Disown(n)

Spec == Init /\ [][Next]_vars

\* The schedule starts runs for ever, and a run takes its next step.
FairSpec == Spec /\ WF_vars(Step)

-----------------------------------------------------------------------------

\* A run opens an issue only if no issue that a lookup leads to is open, apart
\* from those people touched meanwhile: no crash between the creation of an
\* issue and the publication of its number makes a duplicate.
NoDuplicate ==
    [][\A n \in Number : issue[n].state = "absent" /\ issue'[n].state = "open" =>
        \A k \in Number \ touched : ~(Owned(k) /\ issue[k].labels # {})]_vars

\* The automation changes no issue without its marker, except one that somebody
\* disowned after the run began.
OnlyOwned ==
    [][pc' # pc => \A n \in Number \ touched :
        issue'[n] # issue[n] /\ issue[n].state # "absent" => issue[n].marker]_vars

\* When people close an issue whose record is Settled, its signal opens no other
\* issue until it ends or changes, whatever runs are lost afterwards.  Without
\* Settled the code does not promise it: the mute is made of the recorded signal,
\* so after a lost run that rendered another signal into the recorded issue,
\* closing it mutes the old one, and the next run opens an issue for the new one.
DismissedStays ==
    [][\A n \in Number : issue[n].state = "absent" /\ issue'[n].state = "open" =>
        ~(known /\ sig = alert /\ dismissed = sig.fp)]_vars

Findable(n) == Owned(n) /\ (issue[n].labels # {} \/ durable.issue = n)
Disowned == durable.issue # 0 /\ ~issue[durable.issue].marker

\* When the alert has ended for good, every issue of the automation that it can
\* still find is closed in the end, duplicates and reopened ones too.
EndedCloses ==
    <>[](alert = Clear) => <>[](Disowned \/ \A n \in Number : ~Findable(n))

\* An alert that stays is heard: an issue is open, or its signal is muted because
\* people closed the recorded issue, or because a run that closed it for an ended
\* alert was lost: the next run takes that close for a person's.  A close that is
\* on record mutes nothing.
StandingHeard ==
    \A a \in Alert : <>[](alert = a) =>
        <>[](Disowned \/ (\E n \in Number : Owned(n))
             \/ (/\ durable.suppressed /\ durable.mute = a.fp
                 /\ mutedBy \in {"people", "lost"}))
=============================================================================
