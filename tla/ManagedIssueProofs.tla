-------------------------- MODULE ManagedIssueProofs ------------------------
(***************************************************************************)
(* What the automation does to issues, for every set of alerts and any     *)
(* number of issues, refused requests, lost runs and acts of people.       *)
(*                                                                         *)
(* A run acts on what it read some steps ago while people change issues,   *)
(* so the invariant says what each of its steps may still rely on, apart   *)
(* from the issues touched since it began: the issue it writes to has its  *)
(* marker (OnlyOwned), and a lookup that led to no issue is still right    *)
(* (NoDuplicate).  For a dismissed signal it follows the record of the     *)
(* issue, settled when people closed it, from the durable state through    *)
(* the runs that find it closed to the mute that replaces it               *)
(* (DismissedStays).                                                       *)
(***************************************************************************)
EXTENDS ManagedIssue, WellFoundedInduction, TLAPS

Content == {a.content : a \in Alert}

State == [issue : Number \cup {0}, suppressed : BOOLEAN, mute : Fp \cup {None},
          fp : Fp \cup {None}, content : Content \cup {None}]

Issue == [state : {"absent", "open", "closed"}, marker : BOOLEAN,
          labels : SUBSET Index, shows : Alert \cup {Clear}]

Typed ==
    /\ alert \in Alert \cup {Clear} /\ sig \in Alert \cup {Clear}
    /\ issue \in [Number -> Issue]
    /\ durable \in State /\ st \in State
    /\ todo \subseteq Number
    /\ recovered \in BOOLEAN /\ known \in BOOLEAN

\* An issue has its marker, unless people touched it since the run began.
Ours(n) == n \in Number /\ (n \in touched \/ issue[n].marker)

\* What a run relies on between its steps.
RunInv ==
    /\ pc \in {"verify", "sibling", "label", "update", "close"} => Ours(st.issue)
    /\ pc = "sibling" => Ours(Min(todo))
    /\ pc \in {"verify", "sibling"} => todo # {}
    /\ pc = "read" => st.issue # 0
    /\ pc \in {"update", "open"} => sig # Clear
    /\ pc = "idle" => ~recovered
    /\ pc = "open" =>
         \A k \in Number \ touched : ~(Owned(k) /\ issue[k].labels # {})

\* The state s still remembers the signal f, by its issue or by its mute.
Remembers(s, f) ==
    IF s.issue # 0 THEN s.fp = f ELSE s.suppressed /\ s.mute = f

\* A run for a signal that the durable state remembers neither looks for an
\* issue nor gives up the recorded one.
RemembersInv ==
    pc # "idle" /\ sig # Clear /\ Remembers(durable, sig.fp) =>
        /\ pc \in {"read", "label", "update", "publish"} /\ ~recovered
        /\ Remembers(st, sig.fp)
        /\ pc # "publish" => st.issue # 0

\* A dismissed signal whose record was settled is remembered, and the run under
\* way is for it.
DismissedInv ==
    known =>
        /\ alert # Clear /\ dismissed = alert.fp
        /\ Remembers(durable, dismissed)
        /\ pc # "idle" => sig # Clear /\ sig.fp = dismissed

IInv == Typed /\ RunInv /\ RemembersInv /\ DismissedInv

-----------------------------------------------------------------------------
\* Lemmas about the operators.

\* A nonempty set of numbers has a least one.
LEMMA MinExists ==
    ASSUME NEW T \in SUBSET Number, T # {}
    PROVE  Min(T) \in T /\ Min(T) \in Number
<1>1. Number \subseteq Nat
  BY DEF Number
<1>2. IsWellFoundedOn(OpToRel(<, Nat), Nat)
  BY NatLessThanWellFounded
<1>3. PICK x \in T : \A y \in T : <<y, x>> \notin OpToRel(<, Nat)
  BY <1>1, <1>2, WFMin
<1>4. \A y \in T : x <= y
  <2> SUFFICES ASSUME NEW y \in T, ~(x <= y) PROVE FALSE
    OBVIOUS
  <2>1. x \in Nat /\ y \in Nat /\ y < x
    BY <1>1
  <2>2. <<y, x>> \in OpToRel(<, Nat)
    BY <2>1 DEF OpToRel
  <2> QED
    BY <1>3, <2>2
<1>5. Min(T) \in T
  BY <1>4 DEF Min
<1> QED
  BY <1>5

\* Zero stands for no issue.
LEMMA NumberPositive == 0 \notin Number
  BY DEF Number

\* What the steps of a run make of its state.
LEMMA StateSteps ==
    ASSUME NEW s \in State, sig \in Alert \cup {Clear}
    PROVE  /\ Reset(s) \in State /\ Reset(s).issue = s.issue
           /\ ClosedByHand(s) \in State /\ ClosedByHand(s).issue = 0
           /\ sig # Clear => /\ Recorded(s) \in State /\ Recorded(s).issue = s.issue
                             /\ Recorded(s).fp = sig.fp
           /\ \A n \in Number \cup {0} : [s EXCEPT !.issue = n] \in State
<1>1. Reset(s) \in State /\ Reset(s).issue = s.issue
  BY DEF Reset, State
<1>2. sig # Clear => sig.fp \in Fp /\ sig.content \in Content
  BY DEF Fp, Content
<1>3. ClosedByHand(s) \in State /\ ClosedByHand(s).issue = 0
  BY <1>2 DEF ClosedByHand, State
<1>4. sig # Clear => /\ Recorded(s) \in State /\ Recorded(s).issue = s.issue
                     /\ Recorded(s).fp = sig.fp
  BY <1>2 DEF Recorded, State
<1>5. \A n \in Number \cup {0} : [s EXCEPT !.issue = n] \in State
  BY DEF State
<1> QED
  BY <1>1, <1>3, <1>4, <1>5

\* The gate keeps the issue of the state, and lets only a recorded one through.
LEMMA GateKnows ==
    ASSUME NEW s \in State, Gate(s)
    PROVE  /\ st' \in State /\ st'.issue = s.issue
           /\ pc' \in {"publish", "label", "lookup"}
           /\ pc' = "label" => s.issue # 0
           /\ pc' = "lookup" => s.issue = 0
  BY DEF Gate, Reset, State

\* A signal that is remembered is muted at the gate or leads to its issue.
LEMMA GateRemembers ==
    ASSUME NEW s \in State, Gate(s), NEW f,
           sig' # Clear, sig'.fp = f, Remembers(s, f)
    PROVE  /\ Remembers(st', f) /\ pc' \in {"publish", "label"}
           /\ pc' = "label" => st'.issue # 0
  BY DEF Gate, Remembers, Reset, State

\* A recorded issue that was closed by hand leaves the mute of its signal.
LEMMA ClosedRemembers ==
    ASSUME NEW s \in State, NEW f, sig # Clear, sig.fp = f, s.issue # 0, s.fp = f
    PROVE  Remembers(ClosedByHand(s), f)
  BY DEF ClosedByHand, Remembers, State
\* A lookup that finds nothing leaves no issue that it could have found.
LEMMA FoundNothing ==
    ASSUME issue \in [Number -> Issue], Found = {}, NEW k \in Number
    PROVE  ~(Owned(k) /\ issue[k].labels # {})
<1>1. issue[k].labels \subseteq Index
  BY DEF Issue
<1> QED
  BY <1>1 DEF Found, Index

\* What a lookup finds has the marker.
LEMMA FoundOwned == Found \subseteq {n \in Number : Owned(n)}
  BY DEF Found

\* Within a run nobody forgets a dismissal.
LEMMA MidRun ==
    ASSUME IInv, pc # "idle", UNCHANGED <<alert, durable, sig, people>>
    PROVE  DismissedInv'
  BY DEF IInv, DismissedInv, Remembers, people

\* A run that looks for an issue, opens one or closes one is for no signal that
\* the durable state remembers, and stays so.
LEMMA NotRemembered ==
    ASSUME IInv, pc \in {"lookup", "verify", "sibling", "open", "close"},
           UNCHANGED <<durable, sig>>
    PROVE  RemembersInv'
<1>1. pc # "idle" /\ pc \notin {"read", "label", "update", "publish"}
  OBVIOUS
<1>2. ~(sig # Clear /\ Remembers(durable, sig.fp))
  BY <1>1 DEF IInv, RemembersInv
<1> QED
  BY <1>2 DEF RemembersInv, Remembers

-----------------------------------------------------------------------------
\* The invariant, action by action.

\* No issue is on record and no run is under way.
LEMMA Initially == Init => IInv
<1> SUFFICES ASSUME Init PROVE IInv
  OBVIOUS
<1>1. Blank \in State /\ Absent \in Issue
  BY DEF Blank, Absent, State, Issue
<1>2. Typed
  BY <1>1 DEF Init, Typed
<1> QED
  BY <1>2 DEF Init, IInv, RunInv, RemembersInv, DismissedInv

\* A run that ends takes nothing with it.
LEMMA EndKeeps ==
    ASSUME IInv, Publish \/ Lose
    PROVE  IInv'
<1>1. /\ UNCHANGED <<alert, issue, people>> /\ durable' \in {durable, st}
      /\ pc # "idle" /\ EndRun
  BY DEF Publish, Lose, EndRun
<1>2. Blank \in State
  BY DEF Blank, State
<1>3. Typed'
  BY <1>1, <1>2 DEF EndRun, IInv, Typed, people
<1>4. RunInv'
  BY <1>1 DEF EndRun, RunInv
<1>5. RemembersInv'
  BY <1>1 DEF EndRun, RemembersInv
<1>6. DismissedInv'
  <2> SUFFICES ASSUME known PROVE /\ Remembers(durable', dismissed)
                                  /\ alert # Clear /\ dismissed = alert.fp
    BY <1>1 DEF DismissedInv, EndRun, people
  <2>1. /\ Remembers(durable, dismissed) /\ sig # Clear /\ sig.fp = dismissed
        /\ alert # Clear /\ dismissed = alert.fp
    BY <1>1 DEF IInv, DismissedInv
  <2>2. Remembers(st, dismissed)
    BY <1>1, <2>1 DEF IInv, RemembersInv
  <2> QED
    BY <1>1, <2>1, <2>2
<1> QED
  BY <1>3, <1>4, <1>5, <1>6 DEF IInv

\* New data on the same signal keep its dismissal; another signal ends it.
LEMMA ObserveKeeps == ASSUME IInv, Observe PROVE IInv'
<1>1. UNCHANGED <<issue, durable, run>> /\ alert' \in Alert \cup {Clear}
  BY DEF Observe
<1>2. \/ known' = FALSE
      \/ /\ alert' # Clear /\ alert # Clear /\ alert'.fp = alert.fp
         /\ UNCHANGED <<dismissed, known>>
  BY DEF Observe
<1>3. Typed'
  BY <1>1, <1>2 DEF IInv, Typed, run
<1>4. RunInv'
  BY <1>1 DEF IInv, RunInv, Ours, Owned, Open, run
<1>5. RemembersInv'
  BY <1>1 DEF IInv, RemembersInv, Remembers, run
<1>6. DismissedInv'
  BY <1>1, <1>2 DEF IInv, DismissedInv, Remembers, run
<1> QED
  BY <1>3, <1>4, <1>5, <1>6 DEF IInv

\* The first step of a run leaves it at a verified number, or at the gate.
LEMMA BeginKeeps == ASSUME IInv, Begin PROVE IInv'
<1>1. /\ UNCHANGED <<alert, issue, durable, recovered, todo, touched, people>>
      /\ pc = "idle" /\ sig' = alert
  BY DEF Begin
<1>2. \/ durable.issue # 0 /\ pc' = "read" /\ st' = durable
      \/ durable.issue = 0 /\ Gate(durable)
  BY DEF Begin
<1>3. /\ st' \in State /\ pc' \in {"read", "publish", "lookup"}
      /\ pc' = "read" => st'.issue # 0
  BY <1>2, GateKnows DEF IInv, Typed
<1>4. Typed'
  BY <1>1, <1>3 DEF IInv, Typed, people
<1>5. RunInv'
  BY <1>3 DEF RunInv
<1>6. RemembersInv'
  <2> SUFFICES ASSUME alert # Clear, Remembers(durable, alert.fp)
               PROVE  /\ Remembers(st', alert.fp) /\ pc' \in {"read", "publish"}
                      /\ ~recovered
                      /\ pc' # "publish" => st'.issue # 0
    BY <1>1 DEF RemembersInv, Remembers
  <2>1. ~recovered
    BY <1>1 DEF IInv, RunInv
  <2>2. CASE durable.issue # 0 /\ pc' = "read" /\ st' = durable
    BY <2>1, <2>2
  <2>3. CASE durable.issue = 0 /\ Gate(durable)
    <3>1. Remembers(st', alert.fp) /\ pc' \in {"publish", "label"}
      BY <1>1, <2>3, GateRemembers DEF IInv, Typed
    <3> QED
      BY <1>3, <2>1, <3>1
  <2> QED
    BY <1>2, <2>2, <2>3
<1>7. DismissedInv'
  BY <1>1 DEF IInv, DismissedInv, Remembers, people
<1> QED
  BY <1>4, <1>5, <1>6, <1>7 DEF IInv

\* An issue without its marker is left alone; one with it is open, or closed by hand.
LEMMA ReadKeeps == ASSUME IInv, Read PROVE IInv'
<1>1. /\ UNCHANGED <<alert, issue, durable, recovered, todo, touched, people, sig>>
      /\ pc = "read" /\ st \in State /\ st.issue # 0 /\ sig \in Alert \cup {Clear}
  BY DEF Read, IInv, Typed, RunInv
<1>2. \/ pc' = "publish" /\ st' = st
      \/ issue[st.issue].marker /\ Gate(st)
      \/ Gate(ClosedByHand(st))
  BY DEF Read
<1>3. ClosedByHand(st) \in State /\ ClosedByHand(st).issue = 0
  BY <1>1, StateSteps
<1>4. /\ st' \in State /\ pc' \in {"publish", "label", "lookup"}
      /\ pc' = "label" => st'.issue = st.issue /\ issue[st.issue].marker
  BY <1>1, <1>2, <1>3, GateKnows
<1>5. Typed'
  BY <1>1, <1>4 DEF IInv, Typed, people
<1>6. RunInv'
  <2>1. st.issue \in Number
    BY <1>1 DEF State
  <2> QED
    BY <1>1, <1>4, <2>1 DEF RunInv, Ours
<1>7. RemembersInv'
  <2> DEFINE f == sig.fp
  <2> SUFFICES ASSUME sig # Clear, Remembers(durable, f)
               PROVE  /\ Remembers(st', f) /\ pc' \in {"label", "publish"}
                      /\ pc' # "publish" => st'.issue # 0
    BY <1>1 DEF IInv, RemembersInv, Remembers
  <2>1. Remembers(st, f) /\ sig' = sig
    BY <1>1 DEF IInv, RemembersInv
  <2>2. st.fp = f
    BY <1>1, <2>1 DEF Remembers
  <2>3. CASE pc' = "publish" /\ st' = st
    BY <2>1, <2>3
  <2>4. CASE issue[st.issue].marker /\ Gate(st)
    BY <1>1, <2>1, <2>4, GateRemembers
  <2>5. CASE Gate(ClosedByHand(st))
    <3>1. Remembers(ClosedByHand(st), f)
      BY <1>1, <2>1, <2>2, ClosedRemembers
    <3> QED
      BY <1>3, <2>1, <2>5, <3>1, GateRemembers
  <2> QED
    BY <1>2, <2>3, <2>4, <2>5
<1>8. DismissedInv'
  BY <1>1, MidRun
<1> QED
  BY <1>5, <1>6, <1>7, <1>8 DEF IInv

\* With a number in hand the duplicates out of the way lead to its label.
LEMMA SettleKnows ==
    ASSUME NEW n \in Number, Settle(n), st \in State
    PROVE  pc' = "label" /\ st' \in State /\ st'.issue = n
<1>1. pc' = "label" /\ st' = [st EXCEPT !.issue = n]
  BY NumberPositive DEF Settle
<1> QED
  BY <1>1 DEF State

\* A lookup leads to issues with the marker, or to none because there are none.
LEMMA LookupKeeps == ASSUME IInv, Lookup PROVE IInv'
<1>1. /\ UNCHANGED <<alert, issue, durable, sig, touched, people>>
      /\ pc = "lookup" /\ st \in State /\ issue \in [Number -> Issue]
  BY DEF Lookup, IInv, Typed
<1>2. RemembersInv' /\ DismissedInv'
  BY <1>1, MidRun, NotRemembered
<1>3. CASE Found = {}
  <2>1. recovered' = FALSE /\ todo' = {} /\ Settle(0)
    BY <1>3 DEF Lookup
  <2>2. st' \in State /\ pc' \in {"publish", "open"} /\ (pc' = "open" => sig # Clear)
    BY <1>1, <2>1, StateSteps DEF Settle, IInv, Typed
  <2>3. Typed'
    BY <1>1, <2>1, <2>2 DEF IInv, Typed, people
  <2>4. RunInv'
    BY <1>1, <1>3, <2>2, FoundNothing DEF RunInv, Owned, Open
  <2> QED
    BY <1>2, <2>3, <2>4 DEF IInv
<1>4. CASE Found # {}
  <2> DEFINE n == Min(Found)
  <2>1. n \in Found /\ n \in Number /\ issue[n].marker
    BY <1>4, FoundOwned, MinExists DEF Owned
  <2>2. /\ recovered' \in BOOLEAN /\ todo' = Found \ {n}
        /\ IF todo' = {} THEN Settle(n) ELSE pc' = "verify" /\ st' = [st EXCEPT !.issue = n]
    BY <1>4 DEF Lookup
  <2> HIDE DEF n
  <2>3. /\ st' \in State /\ st'.issue = n
        /\ pc' = "label" \/ (pc' = "verify" /\ todo' # {})
    <3>1. CASE todo' = {}
      BY <1>1, <2>1, <2>2, <3>1, SettleKnows
    <3>2. CASE todo' # {}
      BY <1>1, <2>1, <2>2, <3>2 DEF State
    <3> QED
      BY <3>1, <3>2
  <2>4. Typed'
    BY <1>1, <2>2, <2>3, FoundOwned DEF IInv, Typed, people
  <2>5. RunInv'
    BY <1>1, <2>1, <2>3 DEF RunInv, Ours
  <2> QED
    BY <1>2, <2>4, <2>5 DEF IInv
<1> QED
  BY <1>3, <1>4

\* A duplicate that is still open and still has its marker is the next to close.
LEMMA VerifyKeeps == ASSUME IInv, Verify PROVE IInv'
<1> DEFINE n == Min(todo)
<1>1. /\ UNCHANGED <<alert, issue, durable, sig, recovered, touched, people>>
      /\ pc = "verify" /\ st \in State
      /\ st.issue \in Number /\ Ours(st.issue)
      /\ todo \in SUBSET Number /\ todo # {}
  BY DEF Verify, IInv, Typed, RunInv, Ours
<1>2. n \in todo /\ n \in Number
  BY <1>1, MinExists
<1>3. RemembersInv' /\ DismissedInv'
  BY <1>1, MidRun, NotRemembered
<1>4. /\ st' \in State /\ st'.issue = st.issue /\ todo' \subseteq Number
      /\ \/ pc' = "sibling" /\ Owned(n) /\ todo' = todo
         \/ pc' = "verify" /\ todo' # {}
         \/ pc' = "label"
  <2>1. CASE Owned(n)
    BY <1>1, <2>1 DEF Verify
  <2>2. CASE ~Owned(n) /\ todo \ {n} = {}
    <3>1. Settle(st.issue) /\ todo' = {}
      BY <2>2 DEF Verify
    <3>2. pc' = "label" /\ st' \in State /\ st'.issue = st.issue
      BY <1>1, <3>1, SettleKnows
    <3> QED
      BY <3>1, <3>2
  <2>3. CASE ~Owned(n) /\ todo \ {n} # {}
    BY <1>1, <2>3 DEF Verify
  <2> QED
    BY <2>1, <2>2, <2>3
<1>5. Typed'
  BY <1>1, <1>4 DEF IInv, Typed, people
<1>6. RunInv'
  <2>1. CASE pc' = "sibling" /\ Owned(n) /\ todo' = todo
    BY <1>1, <1>2, <1>4, <2>1 DEF RunInv, Ours, Owned
  <2>2. CASE pc' \in {"verify", "label"} /\ (pc' = "verify" => todo' # {})
    BY <1>1, <1>4, <2>2 DEF RunInv, Ours
  <2> QED
    BY <1>4, <2>1, <2>2
<1> QED
  BY <1>3, <1>5, <1>6 DEF IInv

\* A sibling that is closed, or not, leaves the canonical issue.
LEMMA SiblingKeeps == ASSUME IInv, CloseSibling \/ SiblingRefused PROVE IInv'
<1> DEFINE n == Min(todo)
<1>1. /\ UNCHANGED <<alert, durable, sig, touched, people, recovered>>
      /\ pc = "sibling" /\ st \in State
      /\ Ours(st.issue) /\ Ours(n) /\ todo \in SUBSET Number /\ todo # {}
      /\ issue \in [Number -> Issue]
  BY DEF CloseSibling, SiblingRefused, IInv, Typed, RunInv
<1>2. n \in Number /\ st.issue \in Number
  BY <1>1 DEF Ours
<1>3. RemembersInv' /\ DismissedInv'
  BY <1>1, MidRun, NotRemembered
<1>4. issue' = issue \/ issue' = [issue EXCEPT ![n].state = "closed"]
  BY DEF CloseSibling, SiblingRefused
<1>5. /\ issue' \in [Number -> Issue]
      /\ \A k \in Number : issue'[k].marker = issue[k].marker
  BY <1>1, <1>4 DEF Issue
<1>6. /\ st' \in State /\ todo' \subseteq Number
      /\ \/ pc' \in {"label", "verify"} /\ st'.issue = st.issue
            /\ (pc' = "verify" => todo' # {})
         \/ pc' = "publish"
  <2>1. CASE CloseSibling /\ todo \ {n} = {}
    BY <1>1, <1>2, <2>1, SettleKnows DEF CloseSibling
  <2>2. CASE CloseSibling /\ todo \ {n} # {}
    BY <1>1, <2>2 DEF CloseSibling
  <2>3. CASE SiblingRefused
    BY <1>1, <2>3, StateSteps DEF SiblingRefused, IInv, Typed
  <2> QED
    BY <2>1, <2>2, <2>3
<1>7. Typed'
  BY <1>1, <1>5, <1>6 DEF IInv, Typed, people
<1>8. RunInv'
  BY <1>1, <1>2, <1>5, <1>6 DEF RunInv, Ours
<1> QED
  BY <1>3, <1>7, <1>8 DEF IInv

\* Labels do not change whose the issue is.
LEMMA LabelKeeps == ASSUME IInv, Label \/ LabelRefused PROVE IInv'
<1>1. /\ UNCHANGED <<alert, durable, st, sig, recovered, todo, touched, people>>
      /\ pc = "label" /\ Ours(st.issue) /\ issue \in [Number -> Issue]
      /\ pc' \in {"close", "update", "publish"}
      /\ pc' = "close" => sig = Clear
      /\ pc' = "update" => sig # Clear
  BY DEF Label, LabelRefused, IInv, Typed, RunInv
<1>2. \/ issue' = issue
      \/ \E labels \in SUBSET Index :
            issue' = [issue EXCEPT ![st.issue].labels = @ \cup labels]
  BY DEF Label, LabelRefused
<1>3. /\ issue' \in [Number -> Issue]
      /\ \A k \in Number : issue'[k].marker = issue[k].marker
  <2>1. CASE issue' = issue
    BY <1>1, <2>1
  <2>2. ASSUME NEW labels \in SUBSET Index,
               issue' = [issue EXCEPT ![st.issue].labels = @ \cup labels]
        PROVE  /\ issue' \in [Number -> Issue]
               /\ \A k \in Number : issue'[k].marker = issue[k].marker
    <3> DEFINE new == [issue[st.issue] EXCEPT !.labels = @ \cup labels]
    <3>1. issue' = [issue EXCEPT ![st.issue] = new]
      BY <2>2
    <3>2. issue[st.issue] \in Issue
      BY <1>1 DEF Ours
    <3>3. new \in Issue /\ new.marker = issue[st.issue].marker
      BY <3>2 DEF Issue
    <3> HIDE DEF new
    <3> QED
      BY <1>1, <3>1, <3>3
  <2> QED
    BY <1>2, <2>1, <2>2
<1>4. Typed'
  BY <1>1, <1>3 DEF IInv, Typed, people
<1>5. RunInv'
  BY <1>1, <1>3 DEF RunInv, Ours
<1>6. RemembersInv'
  BY <1>1 DEF IInv, RemembersInv, Remembers
<1>7. DismissedInv'
  BY <1>1, MidRun
<1> QED
  BY <1>4, <1>5, <1>6, <1>7 DEF IInv

\* A run that renders its alert into its issue, or fails to.
LEMMA UpdateKeeps ==
    ASSUME IInv, Update \/ UpdateRefused PROVE IInv'
<1>1. /\ UNCHANGED <<alert, durable, sig, recovered, todo, touched, people>>
      /\ pc = "update" /\ pc' = "publish" /\ issue \in [Number -> Issue]
      /\ Ours(st.issue) /\ st \in State /\ sig \in Alert /\ sig # Clear
  BY DEF Update, UpdateRefused, IInv, Typed, RunInv
<1>2. DismissedInv'
  BY <1>1, MidRun
<1>3. CASE Update
  <2>1. issue' = [issue EXCEPT ![st.issue].shows = sig, ![st.issue].marker = TRUE]
    BY <1>3 DEF Update
  <2>2. issue' \in [Number -> Issue]
    BY <1>1, <2>1 DEF Issue
  <2>3. st' = Recorded(st) /\ st' \in State /\ st'.issue = st.issue /\ st'.fp = sig.fp
    BY <1>1, <1>3, StateSteps DEF Update
  <2>4. Typed'
    BY <1>1, <2>2, <2>3 DEF IInv, Typed, people
  <2>5. RunInv'
    BY <1>1 DEF RunInv
  <2>6. RemembersInv'
    BY <1>1, <2>3 DEF IInv, RemembersInv, Remembers
  <2> QED
    BY <1>2, <2>4, <2>5, <2>6 DEF IInv
<1>4. CASE UpdateRefused
  <2>1. /\ issue' = issue
        /\ st' = (IF recovered THEN [st EXCEPT !.issue = 0] ELSE st)
    BY <1>4 DEF UpdateRefused
  <2>2. st' \in State
    BY <1>1, <2>1, StateSteps
  <2>3. Typed'
    BY <1>1, <2>1, <2>2 DEF IInv, Typed, people
  <2>4. RunInv'
    BY <1>1 DEF RunInv
  <2>5. RemembersInv'
    BY <1>1, <2>1 DEF IInv, RemembersInv, Remembers
  <2> QED
    BY <1>2, <2>3, <2>4, <2>5 DEF IInv
<1> QED
  BY <1>3, <1>4

\* An issue is opened at a number that had none.
LEMMA OpenIssueKnows ==
    ASSUME IInv, OpenIssue
    PROVE  /\ Min(Fresh) \in Number /\ issue[Min(Fresh)].state = "absent"
           /\ \E labels \in SUBSET Index :
                issue' = [issue EXCEPT ![Min(Fresh)] =
                           [state |-> "open", marker |-> TRUE, labels |-> labels,
                            shows |-> sig]]
<1>1. Fresh \in SUBSET Number /\ Fresh # {}
  BY DEF OpenIssue, Fresh
<1>2. Min(Fresh) \in Fresh
  BY <1>1, MinExists
<1> QED
  BY <1>2 DEF OpenIssue, Fresh

\* A new issue has the marker.
LEMMA OpenKeeps ==
    ASSUME IInv, OpenIssue \/ OpenRefused PROVE IInv'
<1>1. /\ UNCHANGED <<alert, durable, sig, recovered, todo, touched, people>>
      /\ pc = "open" /\ pc' = "publish" /\ issue \in [Number -> Issue]
      /\ st \in State /\ sig \in Alert /\ sig # Clear
  BY DEF OpenIssue, OpenRefused, IInv, Typed, RunInv
<1>2. issue' \in [Number -> Issue] /\ st' \in State
  <2>1. CASE OpenIssue
    <3> DEFINE n == Min(Fresh)
    <3>1. n \in Number
      BY <2>1, OpenIssueKnows
    <3>2. PICK labels \in SUBSET Index :
            issue' = [issue EXCEPT ![n] = [state |-> "open", marker |-> TRUE,
                                           labels |-> labels, shows |-> sig]]
      BY <2>1, OpenIssueKnows
    <3>3. st' = [Recorded(st) EXCEPT !.issue = n, !.mute = None]
      BY <2>1 DEF OpenIssue
    <3> HIDE DEF n
    <3>4. issue' \in [Number -> Issue]
      BY <1>1, <3>2 DEF Issue
    <3>5. Recorded(st) \in State
      BY <1>1, StateSteps
    <3>6. st' \in State
      BY <3>1, <3>3, <3>5 DEF State
    <3> QED
      BY <3>4, <3>6
  <2>2. CASE OpenRefused
    BY <1>1, <2>2 DEF OpenRefused
  <2> QED
    BY <2>1, <2>2
<1>3. Typed'
  BY <1>1, <1>2 DEF IInv, Typed, people
<1>4. RunInv'
  BY <1>1 DEF RunInv
<1>5. RemembersInv' /\ DismissedInv'
  BY <1>1, MidRun, NotRemembered
<1> QED
  BY <1>3, <1>4, <1>5 DEF IInv

\* The close of an ended alert's issue, or its failure.
LEMMA CloseKeeps == ASSUME IInv, CloseIssue \/ CloseRefused PROVE IInv'
<1>1. /\ UNCHANGED <<alert, durable, sig, recovered, todo, touched, people>>
      /\ pc = "close" /\ pc' = "publish" /\ issue \in [Number -> Issue]
      /\ st \in State /\ sig \in Alert \cup {Clear}
  BY DEF CloseIssue, CloseRefused, IInv, Typed
<1>2. issue' \in [Number -> Issue]
  BY <1>1 DEF CloseIssue, CloseRefused, Issue
<1>3. st' \in State
  BY <1>1, StateSteps DEF CloseIssue, CloseRefused, State
<1>4. Typed'
  BY <1>1, <1>2, <1>3 DEF IInv, Typed, people
<1>5. RunInv'
  BY <1>1 DEF RunInv
<1>6. RemembersInv' /\ DismissedInv'
  BY <1>1, MidRun, NotRemembered
<1> QED
  BY <1>4, <1>5, <1>6 DEF IInv

\* What people do to an issue touches it; when they dismiss the signal of an
\* issue whose record is settled, the durable state remembers it.
LEMMA MeddleKeeps ==
    ASSUME IInv, NEW n \in Number, CloseByHand(n) \/ Reopen(n) \/ Disown(n)
    PROVE  IInv'
<1>1. /\ UNCHANGED <<alert, durable, pc, st, sig, recovered, todo>>
      /\ touched' = touched \cup {n} /\ issue \in [Number -> Issue]
      /\ known \in BOOLEAN
  BY DEF CloseByHand, Reopen, Disown, Meddle, IInv, Typed
<1>2. \/ issue' = [issue EXCEPT ![n].state = "closed"]
      \/ issue' = [issue EXCEPT ![n].state = "open"]
      \/ issue' = [issue EXCEPT ![n].marker = FALSE]
  BY DEF CloseByHand, Reopen, Disown
<1>3. issue' \in [Number -> Issue] /\ \A k \in Number \ {n} : issue'[k] = issue[k]
  BY <1>1, <1>2 DEF Issue
<1>4. \/ UNCHANGED <<dismissed, known>>
      \/ /\ alert # Clear /\ dismissed' = alert.fp
         /\ known' = (known \/ Settled(n))
  BY DEF CloseByHand, Reopen, Disown
<1>5. known' \in BOOLEAN
  BY <1>1, <1>4
<1>6. Typed'
  BY <1>1, <1>3, <1>5 DEF IInv, Typed
<1>7. RunInv'
  BY <1>1, <1>3 DEF IInv, RunInv, Ours, Owned, Open
<1>8. RemembersInv'
  BY <1>1 DEF IInv, RemembersInv, Remembers
<1>9. DismissedInv'
  <2>1. CASE UNCHANGED <<dismissed, known>>
    BY <1>1, <2>1 DEF IInv, DismissedInv, Remembers
  <2>2. CASE alert # Clear /\ dismissed' = alert.fp /\ known' = (known \/ Settled(n))
    <3>1. CASE known
      BY <1>1, <2>2, <3>1 DEF IInv, DismissedInv, Remembers
    <3>2. CASE ~known /\ known'
      <4>1. Settled(n)
        BY <2>2, <3>2
      <4>2. Remembers(durable, alert.fp)
        BY <4>1, NumberPositive DEF Remembers, Settled
      <4>3. pc # "idle" => sig # Clear /\ sig.fp = alert.fp
        BY <4>1 DEF Settled
      <4> QED
        BY <1>1, <2>2, <4>2, <4>3 DEF DismissedInv, Remembers
    <3>3. CASE ~known'
      BY <3>3 DEF DismissedInv
    <3> QED
      BY <3>1, <3>2, <3>3
  <2> QED
    BY <1>4, <2>1, <2>2
<1> QED
  BY <1>6, <1>7, <1>8, <1>9 DEF IInv

\* Every step keeps the invariant.
LEMMA StepKeeps == IInv /\ [Next]_vars => IInv'
<1> SUFFICES ASSUME IInv, [Next]_vars PROVE IInv'
  OBVIOUS
<1>1. CASE UNCHANGED vars
  BY <1>1 DEF vars, run, people, IInv, Typed, RunInv, Ours, Owned, Open,
                RemembersInv, Remembers, DismissedInv
<1>2. CASE Next
  BY <1>2, ObserveKeeps, EndKeeps, BeginKeeps, ReadKeeps, LookupKeeps, VerifyKeeps,
     SiblingKeeps, LabelKeeps, UpdateKeeps, OpenKeeps, CloseKeeps, MeddleKeeps
     DEF Next, Step, Refused
<1> QED
  BY <1>1, <1>2

\* Between its steps a run may rely on what it read, apart from what people
\* touched, and a dismissed signal is remembered.
THEOREM Invariance == Spec => []IInv
  BY Initially, StepKeeps, PTL DEF Spec

-----------------------------------------------------------------------------
\* Only the request that opens an issue makes an absent issue an open one.
LEMMA OnlyOpenIssue ==
    ASSUME IInv, [Next]_vars, NEW n \in Number,
           issue[n].state = "absent", issue'[n].state = "open"
    PROVE  OpenIssue
<1>1. issue \in [Number -> Issue] /\ issue[n] \in Issue /\ issue' # issue
  BY DEF IInv, Typed
<1>2. ASSUME NEW k, issue' = [issue EXCEPT ![k].state = "closed"] PROVE FALSE
  BY <1>1, <1>2 DEF Issue
<1>3. ASSUME NEW labels, issue' = [issue EXCEPT ![st.issue].labels = @ \cup labels]
      PROVE  FALSE
  BY <1>1, <1>3 DEF Issue
<1>4. ASSUME Update PROVE FALSE
  BY <1>1, <1>4 DEF Update, Issue
<1>5. ASSUME NEW k, CloseByHand(k) \/ Reopen(k) \/ Disown(k) PROVE FALSE
  BY <1>1, <1>5 DEF CloseByHand, Reopen, Disown, Open, Owned, Issue
<1> QED
  BY <1>1, <1>2, <1>3, <1>4, <1>5
     DEF Next, Step, Refused, vars, Observe, Begin, Read, Lookup, Verify, CloseSibling,
         SiblingRefused, Label, LabelRefused, UpdateRefused, OpenRefused, CloseIssue,
         CloseRefused, Publish, Lose

\* An issue is opened only when none that a lookup leads to is open, apart from
\* those people touched since the run began.
THEOREM NoDuplicateHolds == Spec => NoDuplicate
<1> DEFINE Alone == \A k \in Number \ touched : ~(Owned(k) /\ issue[k].labels # {})
<1>1. ASSUME IInv, OpenIssue PROVE Alone
  BY <1>1 DEF IInv, RunInv, OpenIssue
<1>2. IInv /\ [Next]_vars =>
        [\A n \in Number : issue[n].state = "absent" /\ issue'[n].state = "open"
                             => Alone]_vars
  BY <1>1, OnlyOpenIssue
<1> QED
  BY <1>2, Invariance, PTL DEF Spec, NoDuplicate

\* A signal that people dismissed, closing an issue whose record was settled,
\* opens no other issue.
THEOREM DismissedStaysHolds == Spec => DismissedStays
<1>1. ASSUME IInv, OpenIssue PROVE ~known
  <2>1. sig # Clear /\ ~Remembers(durable, sig.fp)
    BY <1>1 DEF IInv, RunInv, RemembersInv, OpenIssue
  <2> QED
    BY <1>1, <2>1 DEF IInv, DismissedInv, OpenIssue
<1>2. IInv /\ [Next]_vars =>
        [\A n \in Number : issue[n].state = "absent" /\ issue'[n].state = "open"
                             => ~(known /\ sig = alert /\ dismissed = sig.fp)]_vars
  BY <1>1, OnlyOpenIssue
<1> QED
  BY <1>2, Invariance, PTL DEF Spec, DismissedStays

\* A request of a run writes to an issue that has its marker, or that people
\* touched since the run began.
THEOREM OnlyOwnedHolds == Spec => OnlyOwned
<1> DEFINE Rightly(n) == issue'[n] # issue[n] /\ issue[n].state # "absent"
                           => issue[n].marker
<1>1. ASSUME IInv, [Next]_vars, pc' # pc, NEW n \in Number \ touched
      PROVE  Rightly(n)
  <2> SUFFICES ASSUME issue'[n] # issue[n], issue[n].state # "absent"
               PROVE  issue[n].marker
    OBVIOUS
  <2>1. issue \in [Number -> Issue]
    BY <1>1 DEF IInv, Typed
  <2>2. CASE OpenIssue
    BY <1>1, <2>1, <2>2, OpenIssueKnows
  <2>3. CASE CloseSibling \/ SiblingRefused
    <3>1. n = Min(todo)
      BY <2>1, <2>3 DEF CloseSibling, SiblingRefused
    <3> QED
      BY <1>1, <2>3, <3>1 DEF IInv, RunInv, Ours, CloseSibling, SiblingRefused
  <2>4. CASE Label \/ Update \/ CloseIssue
    <3>1. n = st.issue
      BY <2>1, <2>4 DEF Label, Update, CloseIssue
    <3> QED
      BY <1>1, <2>4, <3>1 DEF IInv, RunInv, Ours, Label, Update, CloseIssue
  <2> QED
    BY <1>1, <2>2, <2>3, <2>4
       DEF Next, Step, Refused, vars, run, Observe, Begin, Read, Lookup, Verify,
           LabelRefused, UpdateRefused, OpenRefused, CloseRefused, Publish, Lose,
           CloseByHand, Reopen, Disown, Meddle
<1>2. IInv /\ [Next]_vars =>
        [pc' # pc => \A n \in Number \ touched : Rightly(n)]_vars
  BY <1>1
<1> QED
  BY <1>2, Invariance, PTL DEF Spec, OnlyOwned
=============================================================================
