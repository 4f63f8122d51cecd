------------------------- MODULE IncidentWatchProofs ------------------------
(***************************************************************************)
(* Proofs about IncidentWatch, for any number of builds and retries, both  *)
(* settings of initialize_from_history and any number of lost runs.        *)
(***************************************************************************)
EXTENDS IncidentWatch, FiniteSetTheorems, WellFoundedInduction, TLAPS

State == [initialized : BOOLEAN, processed : SUBSET Build, through : Nat,
          mark : Nat, incident : IncidentType, taken : Seq(Entry)]

Typed ==
    /\ rerun \in [Build -> Nat]
    /\ result \in [Build -> Outcome \cup {Missing, Unfinished}]
    /\ catalog \in [Build -> Row] /\ todo \subseteq Cohort(catalog)
    /\ durable \in State /\ st \in State

Ordered(s) ==
    \A i, j \in 1..Len(s.taken) : i < j => s.taken[i].rank < s.taken[j].rank

\* What was counted is behind one of the two fences of the state: the watermark
\* of the group, or the newest build processed.
Behind(s) ==
    \A i \in 1..Len(s.taken) :
        \/ s.taken[i].rank <= s.mark
        \/ s.initialized /\ s.taken[i].rank <= s.through

\* In a published state the second fence alone is enough, so that the first may
\* be dropped.
Settled(s) ==
    \A i \in 1..Len(s.taken) : s.initialized /\ s.taken[i].rank <= s.through

\* What a run counts is in its catalog: it will be behind the second fence.
Listed ==
    \A i \in 1..Len(st.taken) :
        \/ st.taken[i].rank \in Ranks
        \/ st.initialized /\ st.taken[i].rank <= st.through

\* The entries of h since the last pass that confirm an incident: the later of two
\* soft failures in distinct builds, and the hard failures.
SecondSoft(h) ==
    {i \in Of(h, "soft") : \E j \in Of(h, "soft") : j < i /\ h[j].build # h[i].build}
Grounds(h) == Of(h, "hard") \cup SecondSoft(h)

\* What the policy says of h, and that a pending incident is about one build.
Told(h, s) ==
    /\ ByPolicy(h, s)
    /\ s.status = "pending_soft" =>
         s.streak = 1 /\ \A i \in SincePass(h) : h[i].build = s.last

IInv ==
    /\ Typed
    /\ Ordered(durable) /\ Settled(durable)
    /\ Ordered(st) /\ Behind(st) /\ Listed
    /\ Told(durable.taken, durable.incident) /\ Told(st.taken, st.incident)

-----------------------------------------------------------------------------
\* Facts about finite sets of numbers.

\* A nonempty finite set of naturals has a greatest element.
LEMMA MaxExists ==
    ASSUME NEW T \in SUBSET Nat, IsFiniteSet(T), T # {}
    PROVE  Max(T) \in T /\ \A y \in T : y <= Max(T)
<1> DEFINE After(x) == {y \in T : y > x}
           Family == {After(x) : x \in T}
<1>1. PICK A \in Family : \A B \in Family : <<B, A>> \notin StrictSubsetOrdering(T)
  <2>1. \A x \in T : After(x) \in SUBSET T /\ IsFiniteSet(After(x))
    BY FS_Subset
  <2>2. Family \subseteq FiniteSubsetsOf(T) /\ Family # {}
    BY <2>1 DEF FiniteSubsetsOf
  <2> HIDE DEF Family
  <2> QED
    BY <2>2, FS_StrictSubsetOrderingWellFounded, WFMin
<1>2. PICK x \in T : A = After(x)
  OBVIOUS
<1>3. \A y \in T : x >= y
  <2> SUFFICES ASSUME NEW y \in T, y > x PROVE FALSE
    OBVIOUS
  <2>1. After(y) \subseteq After(x)
    <3>1. x \in Nat /\ y \in Nat /\ \A z \in T : z \in Nat
      OBVIOUS
    <3>2. \A z \in T : z > y => z > x
      BY <3>1
    <3> QED
      BY <3>2
  <2>2. y \in After(x) /\ y \notin After(y)
    OBVIOUS
  <2>3. <<After(y), After(x)>> \in StrictSubsetOrdering(T)
    BY <2>1, <2>2 DEF StrictSubsetOrdering
  <2> QED
    BY <1>1, <1>2, <2>3
<1>4. Max(T) \in T /\ \A y \in T : Max(T) >= y
  BY <1>3 DEF Max
<1> QED
  BY <1>4

\* And a least one: the greatest of the distances from the greatest.
LEMMA MinExists ==
    ASSUME NEW T \in SUBSET Nat, IsFiniteSet(T), T # {}
    PROVE  Min(T) \in T /\ \A y \in T : Min(T) <= y
<1> DEFINE m == Max(T)
           f == [x \in T |-> m - x]
           D == {f[x] : x \in T}
<1>1. m \in T /\ m \in Nat /\ \A y \in T : y \in Nat /\ y <= m
  BY MaxExists
<1>2. D \in SUBSET Nat /\ D # {}
  BY <1>1
<1>3. IsFiniteSet(D)
  <2>1. f \in Surjection(T, D)
    BY DEF Surjection
  <2> HIDE DEF f, D
  <2> QED
    BY <2>1, FS_Surjection
<1>4. PICK x \in T : \A d \in D : d <= f[x]
  <2> HIDE DEF f, D
  <2>1. Max(D) \in D /\ \A d \in D : d <= Max(D)
    BY <1>2, <1>3, MaxExists
  <2> QED
    BY <2>1 DEF D
<1>5. \A y \in T : f[y] <= f[x]
  BY <1>4
<1>6. \A y \in T : x <= y
  BY <1>1, <1>5
<1> QED
  BY <1>6 DEF Min

\* Largest of a finite set bounds it.
LEMMA LargestBounds ==
    ASSUME NEW T \in SUBSET Nat, IsFiniteSet(T)
    PROVE  Largest(T) \in Nat /\ \A y \in T : y <= Largest(T)
<1>1. IsFiniteSet(T \cup {0})
  BY FS_Singleton, FS_Union
<1>2. T \cup {0} \in SUBSET Nat /\ T \cup {0} # {}
  OBVIOUS
<1> QED
  BY <1>1, <1>2, MaxExists DEF Largest

\* The ranks of a catalog are finitely many numbers.
LEMMA RanksFinite ==
    ASSUME NEW c \in [Build -> Row]
    PROVE  /\ {c[b].rank : b \in Cohort(c)} \in SUBSET Nat
           /\ IsFiniteSet({c[b].rank : b \in Cohort(c)})
           /\ \A S \in SUBSET Build : Rows(c, S) \in SUBSET Nat /\ IsFiniteSet(Rows(c, S))
<1> DEFINE f == [b \in Build |-> c[b].rank]
           T == {f[b] : b \in Build}
<1>1. IsFiniteSet(Build)
  BY WatchAssumption, FS_Interval DEF Build
<1>2. f \in Surjection(Build, T)
  BY DEF Surjection
<1>3. IsFiniteSet(T)
  <2> HIDE DEF f, T
  <2> QED
    BY <1>1, <1>2, FS_Surjection
<1>4. T \in SUBSET Nat
  BY DEF Row
<1>5. {c[b].rank : b \in Cohort(c)} \subseteq T
  BY DEF Cohort
<1>6. \A S \in SUBSET Build : Rows(c, S) \subseteq T
  BY DEF Rows
<1> HIDE DEF T
<1> QED
  BY <1>3, <1>4, <1>5, <1>6, FS_Subset

-----------------------------------------------------------------------------
\* Types of the operators.

\* The policy keeps the type of an incident.
LEMMA AdvanceTyped ==
    ASSUME NEW s \in IncidentType, NEW o \in Outcome, NEW b \in Build
    PROVE  Advance(s, o, b) \in IncidentType
<1>1. Clear \in IncidentType
  BY DEF Clear, IncidentType
<1>2. Hard(s, b) \in IncidentType
  BY DEF Hard, IncidentType
<1>3. Soft(s, b) \in IncidentType
  <2>1. CASE s.status = "confirmed"
    BY <2>1 DEF Soft, IncidentType
  <2>2. CASE s.status = "pending_soft"
    <3> DEFINE n == s.streak + (IF s.last # b THEN 1 ELSE 0)
               t == [s EXCEPT !.streak = n, !.last = b,
                              !.status = IF n >= 2 THEN "confirmed" ELSE @,
                              !.confirmed = IF n >= 2 THEN b ELSE @]
    <3>1. n \in Nat
      BY DEF IncidentType
    <3>2. Soft(s, b) = t
      BY <2>2 DEF Soft
    <3> HIDE DEF n
    <3>3. t \in IncidentType
      BY <3>1 DEF IncidentType
    <3> QED
      BY <3>2, <3>3
  <2>3. CASE s.status = "clear"
    BY <2>3 DEF Soft, Started, IncidentType
  <2>4. s.status \in {"clear", "pending_soft", "confirmed"}
    BY DEF IncidentType
  <2> QED
    BY <2>1, <2>2, <2>3, <2>4
<1> QED
  BY <1>1, <1>2, <1>3 DEF Advance, Outcome

\* The state of a watcher that has never run.
LEMMA BlankTyped == Blank \in State /\ Len(Blank.taken) = 0
  BY DEF Blank, State, Clear, IncidentType

\* What a state has counted has a rank.
LEMMA TakenRanks ==
    ASSUME NEW s \in State
    PROVE  \A i \in 1..Len(s.taken) : s.taken[i].rank \in Nat
<1>1. s.taken \in Seq(Entry)
  BY DEF State
<1>2. \A i \in 1..Len(s.taken) : s.taken[i] \in Entry
  BY <1>1
<1> QED
  BY <1>2 DEF Entry

\* A catalog has the shape of one.
LEMMA CatalogTyped ==
    ASSUME Typed
    PROVE  Catalog \in [Build -> Row]
<1>1. \A b \in Build : Rank(b, rerun[b]) \in Nat
  <2> TAKE b \in Build
  <2>1. b \in Nat /\ rerun[b] \in Nat /\ MaxRetry + 1 \in Nat
    BY WatchAssumption DEF Build, Typed
  <2>2. b * (MaxRetry + 1) \in Nat
    BY <2>1
  <2> QED
    BY <2>1, <2>2 DEF Rank
<1> QED
  BY <1>1 DEF Catalog, Row, Typed

-----------------------------------------------------------------------------
(* The incident and the policy. *)

\* ByPolicy without its local definitions.
LEMMA PolicyParts ==
    ASSUME NEW h, NEW s
    PROVE  ByPolicy(h, s) <=>
             /\ s.status = (IF SincePass(h) = {} THEN "clear"
                            ELSE IF Grounds(h) = {} THEN "pending_soft" ELSE "confirmed")
             /\ s.start = (IF SincePass(h) = {} THEN 0 ELSE h[Min(SincePass(h))].build)
             /\ s.confirmed = (IF Grounds(h) = {} THEN 0 ELSE h[Min(Grounds(h))].build)
             /\ s.severity = (IF SincePass(h) = {} THEN "none"
                              ELSE h[Max(SincePass(h))].outcome)
             /\ s.peak = (IF SincePass(h) = {} THEN "none"
                          ELSE IF Of(h, "hard") # {} THEN "hard" ELSE "soft")
  BY DEF ByPolicy, Grounds, SecondSoft

\* The least and the greatest element are known by what they are.
LEMMA MinIs ==
    ASSUME NEW T \in SUBSET Nat, NEW m \in T, \A y \in T : m <= y
    PROVE  Min(T) = m
<1>1. Min(T) \in T /\ \A y \in T : Min(T) <= y
  BY DEF Min
<1>2. m \in Nat /\ Min(T) \in Nat
  BY <1>1
<1>3. m <= Min(T) /\ Min(T) <= m
  BY <1>1
<1> QED
  BY <1>2, <1>3

\* The greatest member of a set of numbers is its maximum.
LEMMA MaxIs ==
    ASSUME NEW T \in SUBSET Nat, NEW m \in T, \A y \in T : y <= m
    PROVE  Max(T) = m
<1>1. Max(T) \in T /\ \A y \in T : y <= Max(T)
  BY DEF Max
<1>2. m \in Nat /\ Max(T) \in Nat
  BY <1>1
<1>3. m <= Max(T) /\ Max(T) <= m
  BY <1>1
<1> QED
  BY <1>2, <1>3

\* The least element of a set is not moved by greater ones.
LEMMA MinStays ==
    ASSUME NEW n \in Nat, NEW T \in SUBSET (1..n), T # {}
    PROVE  Min(T \cup {n + 1}) = Min(T) /\ Min(T) \in T
<1>1. T \in SUBSET Nat /\ IsFiniteSet(T)
  <2>1. IsFiniteSet(1..n) /\ T \subseteq 1..n
    BY FS_Interval
  <2>2. IsFiniteSet(T)
    BY <2>1, FS_Subset
  <2>3. T \in SUBSET Nat
    OBVIOUS
  <2> QED
    BY <2>2, <2>3
<1>2. Min(T) \in T /\ \A y \in T : Min(T) <= y
  BY <1>1, MinExists
<1>3. Min(T) \in 1..n
  BY <1>2
<1>4. Min(T \cup {n + 1}) = Min(T)
  <2> DEFINE m == Min(T)
  <2>1. m \in T \cup {n + 1} /\ T \cup {n + 1} \in SUBSET Nat
    BY <1>1, <1>2
  <2>2. \A y \in T \cup {n + 1} : m <= y
    BY <1>2, <1>3
  <2> HIDE DEF m
  <2> QED
    BY <2>1, <2>2, MinIs DEF m
<1> QED
  BY <1>2, <1>4

\* The open part of a history has a last entry.
LEMMA OpenMax ==
    ASSUME NEW h \in Seq(Entry), SincePass(h) # {}
    PROVE  Max(SincePass(h)) \in SincePass(h)
<1>1. IsFiniteSet(1..Len(h)) /\ 1..Len(h) \in SUBSET Nat /\ SincePass(h) \subseteq 1..Len(h)
  BY FS_Interval DEF SincePass
<1>2. IsFiniteSet(SincePass(h)) /\ SincePass(h) \in SUBSET Nat
  BY <1>1, FS_Subset
<1> QED
  BY <1>2, MaxExists

\* What one more entry adds to the open part of a history.
LEMMA AppendParts ==
    ASSUME NEW h \in Seq(Entry), NEW e \in Entry, e.outcome # "passed"
    PROVE  LET H == Append(h, e)
               n == Len(h)
               further == e.outcome = "soft"
                          /\ \E j \in Of(h, "soft") : h[j].build # e.build
           IN  /\ SincePass(H) = SincePass(h) \cup {n + 1}
               /\ \A o : Of(H, o) = Of(h, o) \cup (IF e.outcome = o THEN {n + 1} ELSE {})
               /\ Grounds(H) = Grounds(h) \cup
                                 (IF e.outcome = "hard" \/ further THEN {n + 1} ELSE {})
<1> DEFINE H == Append(h, e)
           n == Len(h)
           further == e.outcome = "soft" /\ \E j \in Of(h, "soft") : h[j].build # e.build
<1>1. /\ n \in Nat /\ Len(H) = n + 1 /\ H[n + 1] = e
      /\ \A i \in 1..n : H[i] = h[i]
  OBVIOUS
<1> HIDE DEF H, n
<1>2. \A i \in 1..(n + 1) : i \in 1..n \/ i = n + 1
  BY <1>1
<1>3. SincePass(H) = SincePass(h) \cup {n + 1}
  <2>1. \A i \in 1..n : i \in SincePass(H) <=> i \in SincePass(h)
    <3> SUFFICES ASSUME NEW i \in 1..n
                 PROVE  (\A j \in i..(n + 1) : H[j].outcome # "passed")
                        <=> (\A j \in i..n : h[j].outcome # "passed")
      BY <1>1 DEF SincePass, n
    <3>1. \A j \in i..n : j \in 1..n /\ j \in i..(n + 1)
      BY <1>1
    <3>2. \A j \in i..(n + 1) : j \in i..n \/ j = n + 1
      BY <1>1
    <3> QED
      BY <1>1, <3>1, <3>2
  <2>2. n + 1 \in SincePass(H)
    <3>1. \A j \in (n + 1)..(n + 1) : j = n + 1
      BY <1>1
    <3> QED
      BY <1>1, <3>1 DEF SincePass
  <2>3. SincePass(H) \subseteq 1..(n + 1) /\ SincePass(h) \subseteq 1..n
    BY <1>1 DEF SincePass, n
  <2> QED
    BY <1>2, <2>1, <2>2, <2>3
<1>4. SincePass(h) \subseteq 1..n
  BY DEF SincePass, n
<1>5. \A o : Of(H, o) = Of(h, o) \cup (IF e.outcome = o THEN {n + 1} ELSE {})
  BY <1>1, <1>3, <1>4 DEF Of
<1>6. SecondSoft(H) = SecondSoft(h) \cup (IF further THEN {n + 1} ELSE {})
  <2> DEFINE S == Of(h, "soft")
  <2>1. Of(H, "soft") = S \cup (IF e.outcome = "soft" THEN {n + 1} ELSE {})
    BY <1>5
  <2>2. S \subseteq 1..n
    BY <1>4 DEF Of
  <2> HIDE DEF S
  <2>3. \A i \in S : i \in SecondSoft(H) <=> i \in SecondSoft(h)
    <3> SUFFICES ASSUME NEW i \in S
                 PROVE  (\E j \in Of(H, "soft") : j < i /\ H[j].build # H[i].build)
                        <=> (\E j \in S : j < i /\ h[j].build # h[i].build)
      BY <2>1 DEF SecondSoft, S
    <3>1. i \in 1..n /\ ~(n + 1 < i) /\ H[i] = h[i] /\ \A j \in S : H[j] = h[j]
      BY <1>1, <2>2
    <3> QED
      BY <2>1, <3>1
  <2>4. e.outcome = "soft" => (n + 1 \in SecondSoft(H) <=> further)
    <3> SUFFICES ASSUME e.outcome = "soft"
                 PROVE  (\E j \in Of(H, "soft") : j < n + 1 /\ H[j].build # e.build)
                        <=> \E j \in S : h[j].build # e.build
      BY <1>1, <2>1 DEF SecondSoft, S
    <3>1. \A j \in S : j \in 1..n /\ j < n + 1 /\ H[j] = h[j]
      BY <1>1, <2>2
    <3>2. ~(n + 1 < n + 1)
      BY <1>1
    <3> QED
      BY <2>1, <3>1, <3>2
  <2>5. SecondSoft(H) \subseteq Of(H, "soft") /\ SecondSoft(h) \subseteq S
    BY DEF SecondSoft, S
  <2>6. n + 1 \notin S
    BY <1>1, <2>2
  <2> QED
    BY <2>1, <2>3, <2>4, <2>5, <2>6
<1>7. Grounds(H) = Grounds(h) \cup (IF e.outcome = "hard" \/ further THEN {n + 1} ELSE {})
  BY <1>5, <1>6 DEF Grounds
<1> QED
  BY <1>3, <1>5, <1>7 DEF H, n

\* An entry that is no pass leaves the first build of an incident and its
\* confirming build, and is the last one itself.
LEMMA AppendTells ==
    ASSUME NEW h \in Seq(Entry), NEW e \in Entry, e.outcome # "passed"
    PROVE  LET H == Append(h, e)
           IN  /\ SincePass(H) # {}
               /\ H[Max(SincePass(H))].outcome = e.outcome
               /\ H[Min(SincePass(H))].build =
                    IF SincePass(h) = {} THEN e.build ELSE h[Min(SincePass(h))].build
               /\ SincePass(h) # {} => h[Min(SincePass(h))].build \in Build
               /\ Grounds(H) # {} =>
                    H[Min(Grounds(H))].build =
                      IF Grounds(h) = {} THEN e.build ELSE h[Min(Grounds(h))].build
<1> DEFINE H == Append(h, e)
           n == Len(h)
<1>1. /\ n \in Nat /\ H[n + 1] = e
      /\ \A i \in 1..n : H[i] = h[i] /\ h[i] \in Entry
  OBVIOUS
<1> HIDE DEF H, n
<1>2. SincePass(h) \subseteq 1..n /\ Grounds(h) \subseteq 1..n
  BY DEF SincePass, Grounds, Of, SecondSoft, n
<1>3. SincePass(H) = SincePass(h) \cup {n + 1}
  BY AppendParts DEF H, n
<1>4. Grounds(H) = Grounds(h) \/ Grounds(H) = Grounds(h) \cup {n + 1}
  BY AppendParts DEF H, n
<1>5. Max(SincePass(H)) = n + 1
  BY <1>1, <1>2, <1>3, MaxIs
<1>6. ASSUME NEW T \in SUBSET (1..n)
      PROVE  /\ T = {} => H[Min(T \cup {n + 1})].build = e.build
             /\ T # {} => /\ H[Min(T \cup {n + 1})].build = h[Min(T)].build
                          /\ H[Min(T)].build = h[Min(T)].build
                          /\ h[Min(T)].build \in Build
  <2>1. CASE T = {}
    <3>1. {n + 1} \in SUBSET Nat /\ n + 1 \in {n + 1} /\ \A y \in {n + 1} : n + 1 <= y
      BY <1>1
    <3>2. Min({n + 1}) = n + 1
      BY <3>1, MinIs
    <3> QED
      BY <1>1, <2>1, <3>2
  <2>2. CASE T # {}
    <3>1. Min(T \cup {n + 1}) = Min(T) /\ Min(T) \in T
      BY <1>1, <2>2, MinStays
    <3> QED
      BY <1>1, <2>2, <3>1 DEF Entry
  <2> QED
    BY <2>1, <2>2
<1>7. Grounds(H) # {} =>
        H[Min(Grounds(H))].build =
          IF Grounds(h) = {} THEN e.build ELSE h[Min(Grounds(h))].build
  BY <1>2, <1>4, <1>6
<1> QED
  BY <1>1, <1>2, <1>3, <1>5, <1>6, <1>7 DEF H

\* The policy, one build at a time, says what it says of the whole history
\* (scripts/vllm/ci/incident_transitions.py, advance_incident).
LEMMA AdvanceTells ==
    ASSUME NEW h \in Seq(Entry), NEW s \in IncidentType, NEW e \in Entry, Told(h, s)
    PROVE  Told(Append(h, e), Advance(s, e.outcome, e.build))
<1> DEFINE H == Append(h, e)
           z == Advance(s, e.outcome, e.build)
<1>1. /\ s.status = (IF SincePass(h) = {} THEN "clear"
                     ELSE IF Grounds(h) = {} THEN "pending_soft" ELSE "confirmed")
      /\ s.start = (IF SincePass(h) = {} THEN 0 ELSE h[Min(SincePass(h))].build)
      /\ s.confirmed = (IF Grounds(h) = {} THEN 0 ELSE h[Min(Grounds(h))].build)
      /\ s.severity = (IF SincePass(h) = {} THEN "none" ELSE h[Max(SincePass(h))].outcome)
      /\ s.peak = (IF SincePass(h) = {} THEN "none"
                   ELSE IF Of(h, "hard") # {} THEN "hard" ELSE "soft")
      /\ s.status = "pending_soft" =>
           s.streak = 1 /\ \A i \in SincePass(h) : h[i].build = s.last
  BY PolicyParts DEF Told
<1>2. CASE e.outcome = "passed"
  <2>1. SincePass(H) = {}
    <3>1. Len(H) = Len(h) + 1 /\ H[Len(H)] = e /\ Len(H) \in Nat
      OBVIOUS
    <3>2. \A i \in 1..Len(H) : Len(H) \in i..Len(H)
      BY <3>1
    <3> HIDE DEF H
    <3> QED
      BY <1>2, <3>1, <3>2 DEF SincePass
  <2> HIDE DEF H
  <2>2. Of(H, "hard") = {} /\ Of(H, "soft") = {} /\ Grounds(H) = {}
    BY <2>1 DEF Of, Grounds, SecondSoft
  <2>3. z = Clear
    BY <1>2 DEF Advance
  <2>4. Told(H, Clear)
    BY <2>1, <2>2, PolicyParts DEF Told, Clear
  <2> QED
    BY <2>3, <2>4 DEF H
<1>3. CASE e.outcome # "passed"
  <2> DEFINE n == Len(h)
             further == e.outcome = "soft"
                        /\ \E j \in Of(h, "soft") : h[j].build # e.build
  <2>1. /\ SincePass(H) = SincePass(h) \cup {n + 1} /\ SincePass(H) # {}
        /\ \A o : Of(H, o) = Of(h, o) \cup (IF e.outcome = o THEN {n + 1} ELSE {})
        /\ Grounds(H) = Grounds(h) \cup
                          (IF e.outcome = "hard" \/ further THEN {n + 1} ELSE {})
    BY <1>3, AppendParts, AppendTells
  <2>2. /\ H[Max(SincePass(H))].outcome = e.outcome
        /\ H[Min(SincePass(H))].build = (IF SincePass(h) = {} THEN e.build ELSE s.start)
        /\ SincePass(h) # {} => s.start # 0
        /\ Grounds(H) # {} =>
             H[Min(Grounds(H))].build =
               IF Grounds(h) = {} THEN e.build ELSE s.confirmed
    <3>1. 0 \notin Build
      BY DEF Build
    <3>2. /\ H[Max(SincePass(H))].outcome = e.outcome
          /\ H[Min(SincePass(H))].build =
               IF SincePass(h) = {} THEN e.build ELSE h[Min(SincePass(h))].build
          /\ SincePass(h) # {} => h[Min(SincePass(h))].build \in Build
          /\ Grounds(H) # {} =>
               H[Min(Grounds(H))].build =
                 IF Grounds(h) = {} THEN e.build ELSE h[Min(Grounds(h))].build
      BY <1>3, AppendTells
    <3> HIDE DEF H
    <3> QED
      BY <1>1, <3>1, <3>2
  <2>3. e.outcome \in {"hard", "soft"}
    BY <1>3 DEF Entry, Outcome
  <2>4. /\ Grounds(h) \subseteq SincePass(h) /\ Of(h, "hard") \subseteq Grounds(h)
        /\ Of(h, "soft") \subseteq SincePass(h)
        /\ \A i \in SincePass(h) : h[i].outcome \in {"hard", "soft"}
    <3>1. \A i \in 1..n : h[i] \in Entry /\ i \in i..n
      OBVIOUS
    <3> QED
      BY <3>1 DEF Grounds, SecondSoft, Of, SincePass, Entry, Outcome
  <2>5. /\ H[n + 1] = e /\ n \in Nat
        /\ \A i \in SincePass(h) : H[i] = h[i]
    BY DEF SincePass
  <2> HIDE DEF H, n
  <2>6. CASE e.outcome = "hard"
    <3>1. z = Hard(s, e.build)
      BY <2>6 DEF Advance
    <3>2. Grounds(H) # {} /\ Of(H, "hard") # {}
      BY <2>1, <2>6
    <3>3. ByPolicy(H, Hard(s, e.build)) /\ Hard(s, e.build).status = "confirmed"
      <4>1. CASE s.status = "confirmed"
        <5>1. Grounds(h) # {} /\ SincePass(h) # {}
          BY <1>1, <4>1
        <5>2. Hard(s, e.build) = [s EXCEPT !.severity = "hard", !.peak = "hard",
                                           !.streak = 0, !.last = e.build]
          BY <4>1 DEF Hard
        <5> DEFINE w == Hard(s, e.build)
        <5>3. /\ w.status = "confirmed" /\ w.severity = "hard" /\ w.peak = "hard"
              /\ w.start = s.start /\ w.confirmed = s.confirmed
          BY <4>1, <5>2 DEF IncidentType
        <5> HIDE DEF w
        <5>4. ByPolicy(H, w)
          BY <2>1, <2>2, <2>6, <3>2, <5>1, <5>3, PolicyParts
        <5> QED
          BY <5>3, <5>4 DEF w
      <4>2. CASE s.status # "confirmed"
        <5>1. Grounds(h) = {}
          BY <1>1, <2>4, <4>2
        <5>2. Hard(s, e.build) =
                [status |-> "confirmed", severity |-> "hard", peak |-> "hard", streak |-> 0,
                 last |-> e.build, start |-> IF s.start # 0 THEN s.start ELSE e.build,
                 confirmed |-> e.build]
          BY <4>2 DEF Hard
        <5> DEFINE w == Hard(s, e.build)
        <5>3. /\ w.status = "confirmed" /\ w.severity = "hard" /\ w.peak = "hard"
              /\ w.start = (IF SincePass(h) = {} THEN e.build ELSE s.start)
              /\ w.confirmed = e.build
          <6>1. s.start # 0 <=> SincePass(h) # {}
            BY <1>1, <2>2
          <6> QED
            BY <5>2, <6>1
        <5> HIDE DEF w
        <5>4. ByPolicy(H, w)
          BY <2>1, <2>2, <2>6, <3>2, <5>1, <5>3, PolicyParts
        <5> QED
          BY <5>3, <5>4 DEF w
      <4> QED
        BY <4>1, <4>2
    <3> QED
      BY <3>1, <3>3 DEF Told, H
  <2>7. CASE e.outcome = "soft"
    <3>1. z = Soft(s, e.build) /\ Of(H, "hard") = Of(h, "hard")
      BY <2>1, <2>7 DEF Advance
    <3>2. CASE s.status = "confirmed"
      <4>1. Grounds(h) # {} /\ SincePass(h) # {} /\ Grounds(H) # {}
        BY <1>1, <2>1, <3>2
      <4>2. Soft(s, e.build) = [s EXCEPT !.severity = "soft", !.last = e.build]
        BY <3>2 DEF Soft
      <4>3. Told(H, Soft(s, e.build))
        BY <1>1, <2>1, <2>2, <2>7, <3>1, <3>2, <4>1, <4>2, PolicyParts
        DEF Told, IncidentType
      <4> QED
        BY <3>1, <4>3 DEF H
    <3>3. CASE s.status = "clear"
      <4>1. SincePass(h) = {} /\ Grounds(h) = {} /\ Of(h, "hard") = {} /\ Of(h, "soft") = {}
        BY <1>1, <2>4, <3>3
      <4>2. Grounds(H) = {} /\ SincePass(H) = {n + 1}
        BY <2>1, <2>7, <4>1
      <4>3. Soft(s, e.build) = Started(e.build)
        BY <3>3 DEF Soft
      <4>4. Told(H, Started(e.build))
        BY <2>2, <2>5, <2>7, <3>1, <4>1, <4>2, PolicyParts DEF Told, Started
      <4> QED
        BY <3>1, <4>3, <4>4 DEF H
    <3>4. CASE s.status = "pending_soft"
      <4>1. /\ SincePass(h) # {} /\ Grounds(h) = {} /\ Of(h, "hard") = {}
            /\ s.streak = 1 /\ \A i \in SincePass(h) : h[i].build = s.last
        BY <1>1, <2>4, <3>4
      <4>2. Of(h, "soft") = SincePass(h)
        BY <2>4, <4>1 DEF Of
      <4>3. further <=> s.last # e.build
        BY <2>7, <4>1, <4>2
      <4>4. CASE s.last = e.build
        <5>1. Grounds(H) = {}
          BY <2>1, <2>7, <4>1, <4>3, <4>4
        <5> DEFINE w == Soft(s, e.build)
        <5>2. /\ w.status = "pending_soft" /\ w.severity = s.severity /\ w.peak = s.peak
              /\ w.start = s.start /\ w.confirmed = s.confirmed
              /\ w.streak = 1 /\ w.last = e.build
          <6> DEFINE k == s.streak + (IF s.last # e.build THEN 1 ELSE 0)
          <6>1. w = [s EXCEPT !.streak = k, !.last = e.build,
                              !.status = IF k >= 2 THEN "confirmed" ELSE @,
                              !.confirmed = IF k >= 2 THEN e.build ELSE @]
            BY <3>4 DEF Soft
          <6>2. k = 1
            BY <4>1, <4>4
          <6> HIDE DEF w, k
          <6> QED
            BY <3>4, <6>1, <6>2 DEF IncidentType
        <5> HIDE DEF w
        <5>3. s.severity = "soft" /\ s.peak = "soft" /\ s.confirmed = 0
          <6>1. Max(SincePass(h)) \in SincePass(h)
            BY <4>1, OpenMax
          <6> QED
            BY <1>1, <4>1, <4>2, <6>1 DEF Of
        <5>4. ByPolicy(H, w)
          BY <1>1, <2>1, <2>2, <2>7, <3>1, <4>1, <5>1, <5>2, <5>3, PolicyParts
        <5>5. \A i \in SincePass(H) : H[i].build = w.last
          BY <2>1, <2>5, <4>1, <4>4, <5>2
        <5>6. Told(H, w)
          BY <5>2, <5>4, <5>5 DEF Told
        <5> QED
          BY <3>1, <5>6 DEF H, w
      <4>5. CASE s.last # e.build
        <5>1. Grounds(H) = {n + 1}
          BY <2>1, <2>7, <4>1, <4>3, <4>5
        <5> DEFINE w == Soft(s, e.build)
        <5>2. /\ w.status = "confirmed" /\ w.severity = s.severity /\ w.peak = s.peak
              /\ w.start = s.start /\ w.confirmed = e.build
          <6> DEFINE k == s.streak + (IF s.last # e.build THEN 1 ELSE 0)
          <6>1. w = [s EXCEPT !.streak = k, !.last = e.build,
                              !.status = IF k >= 2 THEN "confirmed" ELSE @,
                              !.confirmed = IF k >= 2 THEN e.build ELSE @]
            BY <3>4 DEF Soft
          <6>2. k = 2
            BY <4>1, <4>5
          <6> HIDE DEF w, k
          <6> QED
            BY <3>4, <6>1, <6>2 DEF IncidentType
        <5> HIDE DEF w
        <5>3. s.severity = "soft" /\ s.peak = "soft"
          <6>1. Max(SincePass(h)) \in SincePass(h)
            BY <4>1, OpenMax
          <6> QED
            BY <1>1, <4>1, <4>2, <6>1 DEF Of
        <5>4. ByPolicy(H, w)
          BY <1>1, <2>1, <2>2, <2>7, <3>1, <4>1, <5>1, <5>2, <5>3, PolicyParts
        <5>5. Told(H, w)
          BY <5>2, <5>4 DEF Told
        <5> QED
          BY <3>1, <5>5 DEF H, w
      <4> QED
        BY <4>4, <4>5
    <3>5. s.status \in {"clear", "pending_soft", "confirmed"}
      BY DEF IncidentType
    <3> QED
      BY <3>2, <3>3, <3>4, <3>5
  <2> QED
    BY <2>3, <2>6, <2>7
<1> QED
  BY <1>2, <1>3

\* Nothing is told by no history.
LEMMA BlankTold == Told(Blank.taken, Blank.incident)
<1>1. Blank.taken = <<>> /\ Blank.incident = Clear
  BY DEF Blank
<1>2. SincePass(<<>>) = {}
  BY DEF SincePass
<1>3. Of(<<>>, "hard") = {} /\ Of(<<>>, "soft") = {} /\ Grounds(<<>>) = {}
  BY <1>2 DEF Of, Grounds, SecondSoft
<1>4. Told(<<>>, Clear)
  BY <1>2, <1>3, PolicyParts DEF Told, Clear
<1> QED
  BY <1>1, <1>4

-----------------------------------------------------------------------------
\* A blank durable state has counted no build and its fences cover none.
THEOREM Initially == Init => IInv
<1> SUFFICES ASSUME Init PROVE IInv
  OBVIOUS
<1>1. Typed
  <2>1. rerun \in [Build -> Nat] /\ todo \subseteq Cohort(catalog)
    BY DEF Init
  <2>2. result \in [Build -> Outcome \cup {Missing, Unfinished}]
    BY DEF Init
  <2>3. catalog \in [Build -> Row]
    BY DEF Init, Nothing, Row
  <2>4. durable \in State /\ st \in State
    BY BlankTyped DEF Init
  <2> QED
    BY <2>1, <2>2, <2>3, <2>4 DEF Typed
<1>2. Len(durable.taken) = 0 /\ Len(st.taken) = 0
  BY BlankTyped DEF Init
<1> QED
  BY <1>1, <1>2, BlankTold DEF Init, IInv, Ordered, Settled, Behind, Listed

\* Between two runs only the world moves.
LEMMA WorldKeeps ==
    ASSUME IInv, (\E b \in Build : Finish(b) \/ Retry(b)) \/ Age \/ UNCHANGED vars
    PROVE  IInv'
<1>1. UNCHANGED <<durable, st, catalog, todo>>
  BY DEF Finish, Retry, Age, vars, run
<1>2. Typed'
  <2>1. rerun' \in [Build -> Nat]
    BY DEF IInv, Typed, Finish, Retry, Age, vars
  <2>2. result' \in [Build -> Outcome \cup {Missing, Unfinished}]
    BY DEF IInv, Typed, Finish, Retry, Age, vars
  <2> QED
    BY <1>1, <2>1, <2>2 DEF IInv, Typed, Cohort
<1>3. Ranks' = Ranks
  BY <1>1 DEF Ranks, Cohort
<1> QED
  BY <1>1, <1>2, <1>3 DEF IInv, Ordered, Settled, Behind, Listed

\* A run starts from what is published, or from what its migration makes of it.
LEMMA BeginKeeps ==
    ASSUME IInv, Begin
    PROVE  IInv'
<1>1. Catalog \in [Build -> Row]
  BY CatalogTyped DEF IInv
<1>2. /\ st' \in State /\ st'.taken = durable.taken /\ st'.incident = durable.incident
      /\ st'.initialized = durable.initialized /\ st'.through = durable.through
  <2>1. CASE st' = durable
    BY <2>1 DEF IInv, Typed
  <2>2. CASE st' # durable
    <3> DEFINE R == Rows(Catalog, durable.processed \cap Cohort(Catalog))
    <3>1. st' = [durable EXCEPT !.mark = Largest(R)]
      BY <2>2 DEF Begin, Migrated
    <3>2. R \in SUBSET Nat /\ IsFiniteSet(R)
      BY <1>1, RanksFinite DEF Cohort
    <3> HIDE DEF R
    <3>3. Largest(R) \in Nat
      BY <3>2, LargestBounds
    <3> QED
      BY <3>1, <3>3 DEF IInv, Typed, State
  <2> QED
    BY <2>1, <2>2
<1>3. todo' \subseteq Cohort(Catalog)
  BY DEF Begin, ToProcess
<1>4. Typed'
  BY <1>1, <1>2, <1>3 DEF IInv, Typed, Begin, Cohort
<1>5. UNCHANGED durable
  BY DEF Begin
<1> QED
  BY <1>2, <1>4, <1>5 DEF IInv, Ordered, Settled, Behind, Listed

\* A build is counted only past both fences, and moves the first one.
LEMMA TakeKeeps ==
    ASSUME IInv, Take
    PROVE  IInv'
<1> DEFINE b == Min(todo)
           row == catalog[b]
           skipped == row.outcome = Missing \/ Historical(b) \/ Fenced(b)
           e == [build |-> b, outcome |-> row.outcome, rank |-> row.rank]
<1>1. b \in todo /\ b \in Build /\ row \in Row /\ row.outcome # Unfinished
  <2>1. IsFiniteSet(Build) /\ Build \in SUBSET Nat
    BY WatchAssumption, FS_Interval DEF Build
  <2>2. todo \in SUBSET Nat /\ IsFiniteSet(todo) /\ todo # {}
    BY <2>1, FS_Subset DEF IInv, Typed, Take, Cohort
  <2>3. b \in todo
    BY <2>2, MinExists
  <2> QED
    BY <2>3 DEF IInv, Typed, Cohort
<1>2. UNCHANGED <<durable, catalog, rerun, result>> /\ Ranks' = Ranks
  BY DEF Take, Ranks, Cohort
<1>3. todo' \subseteq Cohort(catalog')
  BY <1>2 DEF IInv, Typed, Take, Cohort
<1>4. CASE skipped
  <2>1. st' = st
    BY <1>4 DEF Take
  <2> QED
    BY <1>2, <1>3, <2>1 DEF IInv, Typed, Ordered, Settled, Behind, Listed
<1>5. CASE ~skipped
  <2>1. st' = [st EXCEPT !.mark = row.rank, !.taken = Append(@, e),
                         !.incident = Advance(@, row.outcome, b)]
    BY <1>5 DEF Take
  <2>2. row.outcome \in Outcome /\ row.rank \in Nat /\ e \in Entry
    BY <1>1, <1>5 DEF Row, Entry
  <2>3. row.rank \in Ranks
    BY <1>1 DEF Ranks, Cohort
  <2>4. row.rank > st.mark /\ (st.initialized => row.rank > st.through)
    BY <1>5, <2>2 DEF Historical, Fenced, IInv, Typed, State
  <2>5. st' \in State
    <3>1. st \in State /\ Advance(st.incident, row.outcome, b) \in IncidentType
      BY <1>1, <2>2, AdvanceTyped DEF IInv, Typed, State
    <3>2. Append(st.taken, e) \in Seq(Entry)
      BY <2>2, <3>1 DEF State
    <3> QED
      BY <2>1, <2>2, <3>1, <3>2 DEF State
  <2>6. /\ st'.taken = Append(st.taken, e) /\ st'.mark = row.rank
        /\ st'.initialized = st.initialized /\ st'.through = st.through
    BY <2>1 DEF IInv, Typed, State
  <2>7. /\ st.taken \in Seq(Entry) /\ st.mark \in Nat /\ st.through \in Nat
        /\ \A i \in 1..Len(st.taken) : st.taken[i].rank \in Nat
    BY TakenRanks DEF IInv, Typed, State
  <2> DEFINE n == Len(st.taken)
  <2>8. /\ Len(st'.taken) = n + 1 /\ n \in Nat
        /\ st'.taken[n + 1].rank = row.rank
        /\ \A i \in 1..n : st'.taken[i] = st.taken[i]
    BY <2>2, <2>6, <2>7
  <2>9. \A i \in 1..n : st.taken[i].rank < row.rank
    BY <2>2, <2>4, <2>7 DEF IInv, Behind
  <2> HIDE DEF n, row
  <2>10. \A i \in 1..(n + 1) : i \in 1..n \/ i = n + 1
    BY <2>8
  <2>11. Ordered(st')
    <3> SUFFICES ASSUME NEW i \in 1..(n + 1), NEW j \in 1..(n + 1), i < j
                 PROVE  st'.taken[i].rank < st'.taken[j].rank
      BY <2>8 DEF Ordered
    <3>1. i \in 1..n
      BY <2>8
    <3>2. CASE j = n + 1
      BY <2>8, <2>9, <3>1, <3>2
    <3>3. CASE j \in 1..n
      BY <2>8, <3>1, <3>3 DEF IInv, Ordered, n
    <3> QED
      BY <2>10, <3>2, <3>3
  <2>12. Behind(st')
    <3>1. \A i \in 1..(n + 1) : st'.taken[i].rank <= row.rank
      BY <2>2, <2>7, <2>8, <2>9, <2>10 DEF n
    <3> QED
      BY <2>6, <2>8, <3>1 DEF Behind
  <2>13. Listed'
    <3> SUFFICES ASSUME NEW i \in 1..(n + 1)
                 PROVE  \/ st'.taken[i].rank \in Ranks
                        \/ st.initialized /\ st'.taken[i].rank <= st.through
      BY <1>2, <2>6, <2>8 DEF Listed
    <3>1. CASE i = n + 1
      BY <2>3, <2>8, <3>1
    <3>2. CASE i \in 1..n
      BY <2>8, <3>2 DEF IInv, Listed, n
    <3> QED
      BY <2>10, <3>1, <3>2
  <2>14. Typed'
    BY <1>2, <1>3, <2>5 DEF IInv, Typed
  <2>15. Told(st'.taken, st'.incident)
    <3>1. st'.incident = Advance(st.incident, e.outcome, e.build)
      BY <2>1 DEF IInv, Typed, State
    <3>2. st.incident \in IncidentType /\ Told(st.taken, st.incident)
      BY DEF IInv, Typed, State
    <3> HIDE DEF e
    <3> QED
      BY <2>2, <2>6, <2>7, <3>1, <3>2, AdvanceTells
  <2> QED
    BY <1>2, <2>11, <2>12, <2>13, <2>14, <2>15 DEF IInv, Ordered, Settled
<1> QED
  BY <1>4, <1>5

\* A run that publishes moves the second fence past all it counted, and only
\* then may it drop the first.
LEMMA PublishKeeps ==
    ASSUME IInv, Publish
    PROVE  IInv'
<1>1. /\ durable' = Done /\ st' = Blank /\ todo' = {} /\ catalog' = Nothing
      /\ UNCHANGED <<result, rerun>>
  BY DEF Publish, EndRun
<1> DEFINE T == {st.through} \cup Ranks
<1>2. T \in SUBSET Nat /\ IsFiniteSet(T) /\ st.through \in Nat
  <2>1. Ranks \in SUBSET Nat /\ IsFiniteSet(Ranks)
    BY RanksFinite DEF IInv, Typed, Ranks
  <2>2. st.through \in Nat
    BY DEF IInv, Typed, State
  <2>3. IsFiniteSet({st.through})
    BY FS_Singleton
  <2> QED
    BY <2>1, <2>2, <2>3, FS_Union
<1>3. Largest(T) \in Nat /\ \A y \in T : y <= Largest(T)
  <2> HIDE DEF T
  <2> QED
    BY <1>2, LargestBounds
<1>4. Seed \in Nat
  <2> DEFINE R == Rows(catalog, Build)
  <2>1. R \in SUBSET Nat /\ IsFiniteSet(R) /\ st.mark \in Nat
    BY RanksFinite DEF IInv, Typed, State
  <2>2. {st.mark} \cup R \in SUBSET Nat /\ IsFiniteSet({st.mark} \cup R)
    <3> HIDE DEF R
    <3> QED
      BY <2>1, FS_Singleton, FS_Union
  <2>3. Largest({st.mark} \cup R) \in Nat
    <3> HIDE DEF R
    <3> QED
      BY <2>2, LargestBounds
  <2> QED
    BY <2>1, <2>3 DEF Seed
<1>5. Kept(Seed) \in Nat
  BY <1>4 DEF Kept
<1>6. /\ Done \in State /\ Done.initialized /\ Done.taken = st.taken
      /\ Done.incident = st.incident /\ Done.through = Largest(T)
  <2>1. st \in State /\ Cohort(catalog) \in SUBSET Build
    BY DEF IInv, Typed, Cohort
  <2> HIDE DEF T
  <2>2. Done = [st EXCEPT !.initialized = TRUE, !.mark = Kept(Seed),
                          !.processed = Cohort(catalog), !.through = Largest(T)]
    BY DEF Done, T
  <2> QED
    BY <1>3, <1>5, <2>1, <2>2 DEF State
<1>7. Settled(Done)
  <2> SUFFICES ASSUME NEW i \in 1..Len(st.taken)
               PROVE  st.taken[i].rank <= Largest(T)
    BY <1>6 DEF Settled
  <2>1. st.taken[i].rank \in Nat
    BY TakenRanks DEF IInv, Typed
  <2>2. CASE st.taken[i].rank \in Ranks
    BY <1>3, <2>2
  <2>3. CASE st.taken[i].rank <= st.through
    <3>1. st.through <= Largest(T)
      BY <1>3
    <3> HIDE DEF T
    <3> QED
      BY <1>2, <1>3, <2>1, <2>3, <3>1
  <2>4. st.taken[i].rank \in Ranks \/ st.taken[i].rank <= st.through
    BY DEF IInv, Listed
  <2> QED
    BY <2>2, <2>3, <2>4
<1>8. Ordered(Done)
  BY <1>6 DEF IInv, Ordered
<1>9. Typed'
  BY <1>1, <1>6, BlankTyped DEF IInv, Typed, Nothing, Row
<1>10. Told(durable'.taken, durable'.incident) /\ Told(st'.taken, st'.incident)
  BY <1>1, <1>6, BlankTold DEF IInv
<1>11. Settled(durable') /\ Ordered(durable')
  BY <1>1, <1>7, <1>8
<1>12. (Ordered(st) /\ Behind(st) /\ Listed)'
  BY <1>1, BlankTyped DEF Ordered, Behind, Listed
<1> QED
  BY <1>9, <1>10, <1>11, <1>12 DEF IInv, Ordered, Settled

\* A lost run leaves what was published before.
LEMMA LoseKeeps ==
    ASSUME IInv, Lose
    PROVE  IInv'
<1>1. /\ st' = Blank /\ todo' = {} /\ catalog' = Nothing
      /\ UNCHANGED <<durable, result, rerun>>
  BY DEF Lose, EndRun
<1>2. Typed'
  BY <1>1, BlankTyped DEF IInv, Typed, Nothing, Row
<1> QED
  BY <1>1, <1>2, BlankTyped, BlankTold DEF IInv, Ordered, Behind, Listed, Settled

-----------------------------------------------------------------------------
\* The two fences hold whatever finishes late, runs again, ages out or is lost
\* (scripts/vllm/amd_main_failure_watcher.py, advance_incidents).
THEOREM Invariance == Spec => []IInv
<1>1. IInv /\ [Next]_vars => IInv'
  <2> SUFFICES ASSUME IInv, [Next]_vars PROVE IInv'
    OBVIOUS
  <2> QED
    BY WorldKeeps, BeginKeeps, TakeKeeps, PublishKeeps, LoseKeeps DEF Next
<1> QED
  BY <1>1, Initially, PTL DEF Spec

\* A finished build is counted at most once and never after a newer one, for
\* any number of builds, retries and lost runs.
THEOREM InOrderHolds == Spec => []InOrder
<1>1. IInv => InOrder
  BY DEF IInv, InOrder, Ordered
<1> QED
  BY <1>1, Invariance, PTL

\* The incident is what the policy says of the builds it was advanced by, for any
\* number of builds, retries and lost runs: a build that fails softly twice never
\* confirms it (scripts/vllm/ci/incident_transitions.py, advance_incident).
THEOREM ExplainedHolds == Spec => []Explained
<1>1. IInv => Explained
  BY DEF IInv, Explained, Told
<1> QED
  BY <1>1, Invariance, PTL
=============================================================================
