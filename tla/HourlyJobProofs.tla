-------------------------- MODULE HourlyJobProofs ---------------------------
(***************************************************************************)
(* The hourly job in three parts, for every value of the constants.        *)
(* GuardedCollection: no day has more transports than the ledger and the   *)
(* allowances let start.  RequestGuard: the processes of one job keep its  *)
(* allowance.  SurfaceSelection: what the job publishes of what it got.    *)
(***************************************************************************)
EXTENDS GuardedCollection, RequestGuard, SurfaceSelection, FunctionTheorems,
    FiniteSetTheorems, WellFoundedInduction, TLAPS

\* The charges of the window that ends at time t.
ChargesIn(t) == {c \in charged : t - Window < c.at /\ c.at <= t}

ChargeInv ==
    /\ IsFiniteSet(charged)
    /\ \A c \in charged : c.at <= now
    /\ \A c, d \in charged : c.id = d.id => c = d
    /\ \A t \in Time : Cardinality(ChargesIn(t)) <= Cap

\* A transport happened during the job of its charge, and has a number of its
\* own among the transports of that job.
StartInv ==
    /\ \A s \in transports : /\ s.n <= used[s.by.id]
                         /\ s.by.at <= s.at /\ s.at <= s.by.at + JobTimeout
    /\ \A s, z \in transports : s.by = z.by /\ s.n = z.n => s = z

CollectionInv == CollectionTypeOK /\ ChargeInv /\ StartInv

-----------------------------------------------------------------------------
\* No charge, no transport, time zero.
THEOREM CollectionInitially == CollectionInit => CollectionInv
<1> SUFFICES ASSUME CollectionInit PROVE CollectionInv
  OBVIOUS
<1>1. CollectionTypeOK
  BY CollectionAssumption DEF CollectionInit, CollectionTypeOK, Time, Charges
<1>2. \A t \in Time : ChargesIn(t) = {}
  BY DEF CollectionInit, ChargesIn
<1>3. ChargeInv
  BY <1>2, FS_EmptySet, CollectionAssumption DEF CollectionInit, ChargeInv
<1>4. StartInv
  BY DEF CollectionInit, StartInv
<1> QED
  BY <1>1, <1>3, <1>4 DEF CollectionInv

\* A charge of the ledger leaves at most Cap charges in every window.
LEMMA ReserveKeeps == ASSUME CollectionInv, NEW r \in Run, Reserve(r) PROVE CollectionInv'
<1> DEFINE k == [id |-> r, at |-> now]
<1>0. /\ now \in Nat /\ charged \subseteq Charges /\ Window \in Nat /\ Cap \in Nat
      /\ \A c \in charged : c.at \in Nat /\ c.at <= now /\ c.id \in Run
  BY CollectionAssumption DEF CollectionInv, CollectionTypeOK, Time, Charges, ChargeInv
<1>1. charged' = charged \cup {k} /\ k \notin charged /\ k \in Charges
  BY DEF Reserve, Permits!Charge, Charges, CollectionInv, CollectionTypeOK
<1>2. UNCHANGED <<now, used, over, transports>> /\ \A c \in charged : c.id # r
  BY DEF Reserve
<1>3. CollectionTypeOK'
  BY <1>1, <1>2 DEF CollectionInv, CollectionTypeOK
<1>4. StartInv'
  BY <1>2 DEF CollectionInv, StartInv
<1>5. IsFiniteSet(charged')
  BY <1>1, FS_AddElement DEF CollectionInv, ChargeInv
<1>6. \A c \in charged' : c.at <= now'
  BY <1>0, <1>1, <1>2
<1>7. \A c, d \in charged' : c.id = d.id => c = d
  BY <1>1, <1>2 DEF CollectionInv, ChargeInv
<1>8. ASSUME NEW t \in Time PROVE Cardinality(ChargesIn(t)') <= Cap
  <2>0. t \in Nat
    BY DEF Time
  <2>1. CASE t < now
    <3>1. ChargesIn(t)' = ChargesIn(t)
      BY <1>0, <1>1, <2>0, <2>1 DEF ChargesIn
    <3> QED
      BY <3>1 DEF CollectionInv, ChargeInv
  <2>2. CASE t >= now
    <3> DEFINE D == {c \in charged : c.at > now - Window}
    <3>1. Cardinality(D) < Cap
      BY DEF Reserve, Permits!Charge, Permits!Cardinality, Cardinality
    <3>2. ChargesIn(t)' \subseteq D \cup {k}
      BY <1>0, <1>1, <2>0, <2>2 DEF ChargesIn
    <3>3. IsFiniteSet(D) /\ k \notin D
      BY <1>1, FS_Subset DEF CollectionInv, ChargeInv
    <3> HIDE DEF D
    <3>4. /\ IsFiniteSet(D \cup {k})
          /\ Cardinality(D \cup {k}) = Cardinality(D) + 1
      BY <3>3, FS_AddElement
    <3>5. Cardinality(D) \in Nat /\ Cardinality(ChargesIn(t)') \in Nat
      BY <3>2, <3>3, <3>4, FS_Subset, FS_CardinalityType
    <3>6. Cardinality(ChargesIn(t)') <= Cardinality(D \cup {k})
      BY <3>2, <3>4, FS_Subset
    <3> QED
      BY <1>0, <3>1, <3>4, <3>5, <3>6
  <2> QED
    BY <1>0, <2>0, <2>1, <2>2
<1>9. ChargeInv'
  BY <1>5, <1>6, <1>7, <1>8 DEF ChargeInv, Time
<1> QED
  BY <1>3, <1>4, <1>9 DEF CollectionInv

\* A transport takes the next number of its job.
LEMMA StartKeeps == ASSUME CollectionInv, NEW c \in charged, StartNext(c) PROVE CollectionInv'
<1> DEFINE z == [by |-> c, n |-> used[c.id] + 1, at |-> now]
<1>0. /\ c.id \in Run /\ c.at \in Nat /\ now \in Time /\ now \in Nat /\ used[c.id] \in 0..JobAllowance
      /\ c.at <= now /\ JobAllowance \in Nat /\ JobTimeout \in Nat
  BY CollectionAssumption DEF CollectionInv, CollectionTypeOK, Time, Charges, ChargeInv
<1>1. /\ transports' = transports \cup {z} /\ used' = [used EXCEPT ![c.id] = @ + 1]
      /\ UNCHANGED <<now, charged, over>>
      /\ used[c.id] < JobAllowance /\ now <= c.at + JobTimeout
  BY <1>0 DEF StartNext, Spent, TimedOut
<1>2. CollectionTypeOK'
  <2>1. z \in [by : charged, n : 1..JobAllowance, at : Time]
    BY <1>0, <1>1
  <2>2. used' \in [Run -> 0..JobAllowance]
    BY <1>0, <1>1 DEF CollectionInv, CollectionTypeOK
  <2> QED
    BY <1>1, <2>1, <2>2 DEF CollectionInv, CollectionTypeOK
<1>3. ChargeInv'
  BY <1>1 DEF CollectionInv, ChargeInv, ChargesIn
<1>4. \A r \in Run : used[r] \in Nat /\ used'[r] >= used[r]
  BY <1>0, <1>1 DEF CollectionInv, CollectionTypeOK
<1>5. used'[c.id] = used[c.id] + 1
  BY <1>0, <1>1 DEF CollectionInv, CollectionTypeOK
<1>6. \A s \in transports : s.by \in charged /\ s.by.id \in Run /\ s.n \in Nat
  BY DEF CollectionInv, CollectionTypeOK, Charges
<1>7. \A s \in transports' : /\ s.n <= used'[s.by.id]
                         /\ s.by.at <= s.at /\ s.at <= s.by.at + JobTimeout
  <2> TAKE s \in transports'
  <2>1. CASE s = z
    BY <1>0, <1>1, <1>5, <2>1
  <2>2. CASE s \in transports
    <3>1. s.n <= used[s.by.id] /\ used[s.by.id] \in Nat /\ used'[s.by.id] \in Nat
      BY <1>2, <1>4, <1>6, <2>2 DEF CollectionInv, StartInv, CollectionTypeOK
    <3> QED
      BY <1>4, <1>6, <2>2, <3>1 DEF CollectionInv, StartInv
  <2> QED
    BY <1>1, <2>1, <2>2
<1>8. \A s \in transports : ~(s.by = c /\ s.n = used[c.id] + 1)
  BY <1>0, <1>6 DEF CollectionInv, StartInv
<1>9. \A s, y \in transports' : s.by = y.by /\ s.n = y.n => s = y
  BY <1>1, <1>8 DEF CollectionInv, StartInv
<1> QED
  BY <1>2, <1>3, <1>7, <1>9 DEF CollectionInv, StartInv

\* The inductive invariant of every behaviour.
THEOREM CollectionInvariance == CollectionSpec => []CollectionInv
<1>1. CollectionInv /\ [CollectionNext]_collectionVars => CollectionInv'
  <2> SUFFICES ASSUME CollectionInv, [CollectionNext]_collectionVars PROVE CollectionInv'
    OBVIOUS
  <2>1. CASE Later
    <3>1. now' \in Time /\ now <= now' /\ now \in Nat /\ now' \in Nat
      BY <2>1, CollectionAssumption DEF Later, CollectionInv, CollectionTypeOK, Time
    <3>2. CollectionTypeOK'
      BY <2>1, <3>1 DEF Later, CollectionInv, CollectionTypeOK
    <3>3. \A c \in charged' : c.at <= now'
      BY <2>1, <3>1 DEF Later, CollectionInv, CollectionTypeOK, ChargeInv, Charges, Time
    <3>4. ChargeInv'
      BY <2>1, <3>3 DEF Later, CollectionInv, ChargeInv, ChargesIn
    <3>5. StartInv'
      BY <2>1 DEF Later, CollectionInv, StartInv
    <3> QED
      BY <3>2, <3>4, <3>5 DEF CollectionInv
  <2>2. ASSUME NEW r \in Run, End(r) PROVE CollectionInv'
    BY <2>2 DEF End, CollectionInv, CollectionTypeOK, ChargeInv, ChargesIn, StartInv
  <2>3. CASE UNCHANGED collectionVars
    BY <2>3 DEF collectionVars, CollectionInv, CollectionTypeOK, ChargeInv, ChargesIn, StartInv
  <2> QED
    BY <2>1, <2>2, <2>3, ReserveKeeps, StartKeeps DEF CollectionNext
<1> QED
  BY CollectionInitially, <1>1, PTL DEF CollectionSpec

\* Type correctness: no job starts more transports than its allowance.
THEOREM CollectionTypeCorrect == CollectionSpec => []CollectionTypeOK
<1>1. CollectionInv => CollectionTypeOK
  BY DEF CollectionInv
<1> QED
  BY CollectionInvariance, <1>1, PTL

-----------------------------------------------------------------------------
\* The transports of a day map one to one into the charges of the window that
\* ends with the day, paired with the numbers up to the allowance.
LEMMA DayCount ==
  ASSUME CollectionInv, NEW t \in Time
  PROVE  Cardinality(StartsIn(t)) <= Cap * JobAllowance
<1> DEFINE A == StartsIn(t)
           C == ChargesIn(t)
           N == 1..JobAllowance
           f == [s \in A |-> <<s.by, s.n>>]
<1>0. t \in Nat /\ JobAllowance \in Nat /\ Cap \in Nat
  BY CollectionAssumption DEF Time
<1>1. \A s \in A : <<s.by, s.n>> \in C \X N
  <2> TAKE s \in A
  <2>1. /\ s \in transports /\ s.at \in Nat /\ s.by \in charged /\ s.by.at \in Nat
        /\ s.n \in N /\ t - Day < s.at /\ s.at <= t
        /\ s.by.at <= s.at /\ s.at <= s.by.at + JobTimeout
    BY DEF StartsIn, CollectionInv, CollectionTypeOK, StartInv, Charges, Time
  <2>2. s.by \in C
    BY <1>0, <2>1, CollectionAssumption DEF ChargesIn
  <2> QED
    BY <2>1, <2>2
<1>2. f \in [A -> C \X N]
  BY <1>1
<1>3. \A s, z \in A : f[s] = f[z] => s = z
  BY DEF StartsIn, CollectionInv, StartInv
<1>4. f \in Injection(A, C \X N)
  BY <1>2, <1>3 DEF Injection, IsInjective
<1>5. IsFiniteSet(C) /\ Cardinality(C) <= Cap /\ Cardinality(C) \in Nat
  BY FS_Subset, FS_CardinalityType DEF ChargesIn, CollectionInv, ChargeInv
<1>6. IsFiniteSet(N) /\ Cardinality(N) = JobAllowance
  BY <1>0, FS_Interval
<1>7. IsFiniteSet(C \X N) /\ Cardinality(C \X N) = Cardinality(C) * JobAllowance
  <2> HIDE DEF C, N
  <2> QED
    BY <1>5, <1>6, FS_Product
<1>8. Cardinality(A) <= Cardinality(C \X N) /\ IsFiniteSet(A)
  <2> HIDE DEF A, C, N, f
  <2> QED
    BY <1>4, <1>7, FS_Injection
<1>9. Cardinality(C) * JobAllowance <= Cap * JobAllowance
  <2> HIDE DEF C
  <2> QED
    BY <1>0, <1>5
<1>10. Cardinality(A) \in Nat
  BY <1>8, FS_CardinalityType
<1> HIDE DEF C, N, f
<1> QED
  BY <1>0, <1>5, <1>7, <1>8, <1>9, <1>10

\* The provider never sees more than Cap * JobAllowance transports in a day.
THEOREM DayBoundHolds == CollectionSpec => []DayBound
<1>1. CollectionInv => DayBound
  BY DayCount DEF DayBound
<1> QED
  BY CollectionInvariance, <1>1, PTL

(***************************************************************************)
(* RequestGuard: how the processes of one job keep to the allowance that   *)
(* the collection above counts on, for every finite set of processes,      *)
(* every allowance and any number of sends.                                *)
(***************************************************************************)

\* The lock, and what a process knows while it holds it.
GuardProcessInv(p) ==
    /\ pc[p] \in Critical => holder = p
    /\ pc[p] \notin {"down", "dead"} => file # NoFile
    /\ pc[p] = "read" => seen[p] = file
    /\ p \in Hidden => pc[p] \in {"down", "ready", "dead"}

GuardInv ==
    /\ TypeOK
    /\ CountExact
    /\ ChargedBefore
    /\ \A p \in Process : GuardProcessInv(p)

-----------------------------------------------------------------------------
\* The processes that charged and have not starts yet are finitely many.
LEMMA GuardPendingFinite ==
  IsFiniteSet(Pending) /\ Cardinality(Pending) \in Nat
<1>1. Pending \subseteq Process
  BY DEF Pending
<1> QED
  BY <1>1, FS_Subset, FS_CardinalityType, GuardAssumption

\* The guard starts with no file and no process.
THEOREM GuardInitially ==
  ASSUME Init PROVE GuardInv
<1>1. TypeOK
  BY GuardAssumption DEF Init, TypeOK, Steps
<1>2. Pending = {}
  BY DEF Init, Pending
<1>3. ChargedBefore
  BY <1>2, FS_EmptySet DEF Init, ChargedBefore
<1>4. CountExact /\ \A p \in Process : GuardProcessInv(p)
  BY DEF Init, CountExact, GuardProcessInv, Critical
<1> QED
  BY <1>1, <1>3, <1>4 DEF GuardInv

-----------------------------------------------------------------------------
\* A step that leaves the file and the counters alone and adds no pending
\* process keeps the count.
LEMMA GuardQuietCount ==
  ASSUME GuardInv,
         UNCHANGED <<file, starts, charges>>, Pending' \subseteq Pending
  PROVE  CountExact' /\ ChargedBefore'
<1>1. /\ Cardinality(Pending') <= Cardinality(Pending)
      /\ Cardinality(Pending') \in Nat
  BY GuardPendingFinite, FS_Subset, FS_CardinalityType
<1>2. CountExact'
  BY DEF GuardInv, CountExact
<1>3. ChargedBefore'
  BY <1>1, GuardPendingFinite DEF GuardInv, TypeOK, ChargedBefore
<1> QED
  BY <1>2, <1>3

\* A new counter file starts at zero, which is what has been charged.
LEMMA GuardCreateKeeps ==
  ASSUME GuardInv, Create PROVE GuardInv'
<1>1. TypeOK'
  BY GuardAssumption DEF Create, GuardInv, TypeOK
<1>2. Pending' = Pending
  BY DEF Create, Pending
<1>3. CountExact' /\ ChargedBefore'
  BY <1>2 DEF Create, GuardInv, CountExact, ChargedBefore
<1>4. \A p \in Process : GuardProcessInv(p)'
  BY DEF Create, GuardInv, GuardProcessInv, Critical
<1> QED
  BY <1>1, <1>3, <1>4 DEF GuardInv

\* The report reads the counter and changes nothing else.
LEMMA GuardReportKeeps ==
  ASSUME GuardInv, Report PROVE GuardInv'
<1>1. TypeOK'
  BY DEF Report, GuardInv, TypeOK
<1>2. Pending' = Pending
  BY DEF Report, Pending
<1>3. CountExact' /\ ChargedBefore'
  BY <1>2, GuardQuietCount DEF Report
<1>4. \A p \in Process : GuardProcessInv(p)'
  BY DEF Report, GuardInv, GuardProcessInv, Critical
<1> QED
  BY <1>1, <1>3, <1>4 DEF GuardInv

\* Steps of a process that write nothing.
LEMMA GuardQuietKeeps ==
  ASSUME GuardInv, NEW p \in Process,
         Install(p) \/ Send(p) \/ Acquire(p) \/ Read(p) \/ Refuse(p)
           \/ Release(p) \/ Die(p)
  PROVE  GuardInv'
<1> USE DEF Go, Steps
<1>1. TypeOK'
  <2>1. CASE Install(p)
    BY <2>1 DEF Install, GuardInv, TypeOK
  <2>2. CASE Send(p)
    BY <2>2 DEF Send, GuardInv, TypeOK
  <2>3. CASE Acquire(p)
    BY <2>3 DEF Acquire, GuardInv, TypeOK
  <2>4. CASE Read(p)
    BY <2>4 DEF Read, GuardInv, TypeOK, GuardProcessInv
  <2>5. CASE Refuse(p)
    BY <2>5 DEF Refuse, GuardInv, TypeOK
  <2>6. CASE Release(p)
    BY <2>6 DEF Release, GuardInv, TypeOK
  <2>7. CASE Die(p)
    BY <2>7 DEF Die, GuardInv, TypeOK
  <2> QED
    BY <2>1, <2>2, <2>3, <2>4, <2>5, <2>6, <2>7
<1>2. Pending' \subseteq Pending
  BY DEF Install, Send, Acquire, Read, Refuse, Release, Die, Pending, GuardInv, TypeOK
<1>3. UNCHANGED <<file, starts, charges>>
  BY DEF Install, Send, Acquire, Read, Refuse, Release, Die
<1>4. CountExact' /\ ChargedBefore'
  BY <1>2, <1>3, GuardQuietCount
<1>5. \A q \in Process : GuardProcessInv(q)'
  <2> TAKE q \in Process
  <2>0. pc \in [Process -> Steps] /\ seen \in [Process -> Nat]
    BY DEF GuardInv, TypeOK
  <2>1. CASE q = p
    BY <1>3, <2>0, <2>1
    DEF Install, Send, Acquire, Read, Refuse, Release, Die, GuardInv, GuardProcessInv,
        Critical
  <2>2. CASE q # p
    <3>1. pc'[q] = pc[q] /\ seen'[q] = seen[q] /\ file' = file
      BY <2>0, <2>2 DEF Install, Send, Acquire, Read, Refuse, Release, Die
    <3>2. pc[q] \in Critical => holder' = q
      BY <2>0, <2>2, GuardAssumption
      DEF Install, Send, Acquire, Read, Refuse, Release, Die, GuardInv, GuardProcessInv,
          Critical
    <3> QED
      BY <3>1, <3>2 DEF GuardInv, GuardProcessInv, Critical
  <2> QED
    BY <2>1, <2>2
<1> QED
  BY <1>1, <1>4, <1>5 DEF GuardInv

\* The charge, under the lock, on the count just read.
LEMMA GuardWriteKeeps ==
  ASSUME GuardInv, NEW p \in Process, Write(p)
  PROVE  GuardInv'
<1> USE DEF Go, Steps
<1>0. /\ pc \in [Process -> Steps] /\ seen[p] = file /\ file \in 0..Allowance
      /\ file < Allowance /\ file = charges /\ Allowance \in Nat
  BY GuardAssumption DEF Write, Exhausted, GuardInv, TypeOK, GuardProcessInv, CountExact
<1>1. TypeOK'
  BY <1>0 DEF Write, GuardInv, TypeOK
<1>2. CountExact'
  BY <1>0, GuardAssumption DEF Write, CountExact
<1>3. Pending' = Pending \cup {p}
  BY <1>0 DEF Write, Pending
<1>4. /\ Cardinality(Pending') <= Cardinality(Pending) + 1
      /\ Cardinality(Pending') \in Nat
  <2>1. p \notin Pending
    BY DEF Write, Pending
  <2>2. Cardinality(Pending') = Cardinality(Pending) + 1
    BY <1>3, <2>1, GuardPendingFinite, FS_AddElement
  <2> QED
    BY <2>2, GuardPendingFinite
<1>5. ChargedBefore'
  BY <1>4, GuardPendingFinite DEF Write, GuardInv, TypeOK, ChargedBefore
<1>6. \A q \in Process : GuardProcessInv(q)'
  BY <1>0, GuardAssumption DEF Write, GuardInv, GuardProcessInv, Critical
<1> QED
  BY <1>1, <1>2, <1>5, <1>6 DEF GuardInv

\* The transport of a process that was charged.
LEMMA GuardTransportKeeps ==
  ASSUME GuardInv, NEW p \in Process, Transport(p)
  PROVE  GuardInv'
<1> USE DEF Go, Steps
<1>0. /\ pc \in [Process -> Steps] /\ p \notin Hidden /\ p \in Pending
      /\ holder' = holder
  BY DEF Transport, GuardInv, TypeOK, GuardProcessInv, Pending
<1>1. TypeOK'
  BY <1>0 DEF Transport, GuardInv, TypeOK
<1>2. CountExact'
  BY DEF Transport, GuardInv, CountExact
<1>3. Pending' = Pending \ {p}
  BY <1>0 DEF Transport, Pending
<1>4. Cardinality(Pending') = Cardinality(Pending) - 1
  BY <1>0, <1>3, GuardPendingFinite, FS_RemoveElement
<1>5. ChargedBefore'
  BY <1>4, GuardPendingFinite DEF Transport, GuardInv, TypeOK, ChargedBefore
<1>6. \A q \in Process : GuardProcessInv(q)'
  BY <1>0 DEF Transport, GuardInv, GuardProcessInv, Critical
<1> QED
  BY <1>1, <1>2, <1>5, <1>6 DEF GuardInv

\* The inductive invariant of every behaviour.
THEOREM GuardInvariance == Spec => []GuardInv
<1>1. GuardInv /\ [Next]_vars => GuardInv'
  <2> SUFFICES ASSUME GuardInv, [Next]_vars PROVE GuardInv'
    OBVIOUS
  <2>1. CASE Next
    BY <2>1, GuardCreateKeeps, GuardReportKeeps, GuardQuietKeeps, GuardWriteKeeps,
       GuardTransportKeeps
    DEF Next, ProcessStep, Charging
  <2>2. CASE UNCHANGED vars
    BY <2>2
    DEF vars, GuardInv, TypeOK, CountExact, ChargedBefore, Pending, GuardProcessInv,
        Critical
  <2> QED
    BY <2>1, <2>2
<1> QED
  BY GuardInitially, <1>1, PTL DEF Spec

\* Type correctness: the counter never passes the allowance.
THEOREM GuardTypeCorrect == Spec => []TypeOK
<1>1. GuardInv => TypeOK
  BY DEF GuardInv
<1> QED
  BY GuardInvariance, <1>1, PTL

\* No charge is ever lost.
THEOREM GuardCountExactHolds == Spec => []CountExact
<1>1. GuardInv => CountExact
  BY DEF GuardInv
<1> QED
  BY GuardInvariance, <1>1, PTL

\* Nothing is transported without a charge.
THEOREM GuardChargedBeforeHolds == Spec => []ChargedBefore
<1>1. GuardInv => ChargedBefore
  BY DEF GuardInv
<1> QED
  BY GuardInvariance, <1>1, PTL

\* A reported count covers every transport started up to then.
THEOREM GuardReportCoversHolds == Spec => ReportCovers
<1>1. ASSUME GuardInv, [Next]_vars
      PROVE  [reported' # reported => reported' >= starts]_vars
  <2> SUFFICES ASSUME Next, reported' # reported PROVE reported' >= starts
    BY <1>1
  <2>1. Report
    BY DEF Next, ProcessStep, Charging, Create, Install, Send, Acquire, Read, Refuse,
       Write, Release, Transport, Die
  <2>2. reported' = charges
    BY <1>1, <2>1 DEF Report, GuardInv, CountExact
  <2> QED
    BY <1>1, <2>2, GuardPendingFinite DEF GuardInv, TypeOK, ChargedBefore
<1> QED
  BY GuardInvariance, <1>1, PTL DEF Spec, ReportCovers

\* The guard implements the start allowance of one granted attempt.
THEOREM GuardImplementsAllowance == Spec => AllowanceSpec
<1>1. Init => Allowed!Init
  BY DEF Init, Allowed!Init
<1>2. ASSUME GuardInv, [Next]_vars
      PROVE  [Allowed!Next]_<<file # NoFile, starts>>
  <2>1. CASE UNCHANGED vars
    BY <2>1 DEF vars
  <2>2. CASE Create
    BY <2>2, GuardAssumption DEF Create, Allowed!Next, Allowed!Grant
  <2>3. CASE Report
    BY <2>3 DEF Report
  <2>4. ASSUME NEW p \in Process, Transport(p)
        PROVE  Allowed!Start
    <3>1. p \in Pending /\ file # NoFile
      BY <1>2, <2>4 DEF Transport, Pending, GuardInv, GuardProcessInv
    <3>2. Cardinality(Pending) > 0
      <4>1. Cardinality(Pending) # 0
        BY <3>1, GuardPendingFinite, FS_EmptySet
      <4> QED
        BY <4>1, GuardPendingFinite
    <3>3. starts < charges /\ charges <= Allowance
      BY <1>2, <3>1, <3>2, GuardPendingFinite, GuardAssumption
      DEF GuardInv, TypeOK, ChargedBefore, CountExact
    <3>4. starts < Allowance
      BY <1>2, <3>3, GuardAssumption DEF GuardInv, TypeOK
    <3>5. starts' = starts + 1 /\ file' = file
      BY <2>4 DEF Transport
    <3> QED
      BY <3>1, <3>4, <3>5 DEF Allowed!Start
  <2>5. ASSUME NEW p \in Process, Write(p)
        PROVE  UNCHANGED <<file # NoFile, starts>>
    BY <1>2, <2>5, GuardAssumption DEF Write, GuardInv, TypeOK, GuardProcessInv
  <2>6. ASSUME NEW p \in Process,
               Install(p) \/ Send(p) \/ Acquire(p) \/ Read(p) \/ Refuse(p)
                 \/ Release(p) \/ Die(p)
        PROVE  UNCHANGED <<file # NoFile, starts>>
    BY <2>6 DEF Install, Send, Acquire, Read, Refuse, Release, Die
  <2> QED
    BY <1>2, <2>1, <2>2, <2>3, <2>4, <2>5, <2>6
    DEF Next, ProcessStep, Charging, Allowed!Next
<1> QED
  BY GuardInvariance, <1>1, <1>2, PTL DEF Spec, AllowanceSpec, Allowed!Spec

(***************************************************************************)
(* SurfaceSelection: for every set of surfaces, every chain of contracts   *)
(* and every sequence of hourly runs, refreshes and lost runs, what is     *)
(* published can be read, is not too old, holds nothing that was refused,  *)
(* leaves alone what a refresh did not attempt, and keeps quiet once only. *)
(***************************************************************************)

BaseFields == {"contract", "at", "content", "degradedSince", "fallbackSince",
               "manifest", "streak", "retries", "policy", "alert"}

\* A baseline whose clocks make sense.
Sound(b) ==
    /\ DOMAIN b = BaseFields
    /\ b.contract \in Nat /\ b.at \in Nat
    /\ Fallback(b) \subseteq Degraded(b) /\ Degraded(b) \subseteq Surface
    /\ \A s \in Degraded(b) : b.degradedSince[s] \in Nat /\ b.degradedSince[s] <= b.at
    /\ \A s \in Fallback(b) :
          b.fallbackSince[s] \in Nat /\ b.degradedSince[s] <= b.fallbackSince[s]
    /\ \A s \in DOMAIN b.streak : b.streak[s] \in Nat

\* The surfaces of run r that failed, that it carries over the baseline p as read,
\* and that it takes back together.
FailingOf(r) == {s \in Attempted(r.kind) : r.health[s].kind \in {"transient", "hard"}}
PreservedOf(r, p) == IF r.kind = Full THEN {} ELSE Degraded(p) \ {r.kind}
RetriedOf(r) == IF r.kind = Full /\ r.health[RetryOwner].kind = "retry" THEN Pair ELSE {}

RunFields == {"phase", "kind", "at", "health", "tree", "fresh", "fallback", "restored",
              "manifest", "blamed", "errors", "notes", "genuine"}

\* What a run has collected, over the baseline b it started from.
Collected(r, b) ==
    /\ DOMAIN r = RunFields
    /\ r.kind \in Attempt
    /\ r.at \in Nat /\ b.at <= r.at
    /\ DOMAIN r.tree = Surface
    /\ \A s \in Surface \ Attempted(r.kind) : r.tree[s] = b.content[s]
    /\ r.fresh \subseteq Surface /\ r.fallback \subseteq Surface

\* The two lanes hold what must be in them, and nothing without a reason.
Laned(r, p) ==
    /\ r.errors \cup FailingOf(r) \cup (PreservedOf(r, p) \cap Fallback(p)) \subseteq r.fallback
    /\ PreservedOf(r, p) \subseteq r.fresh \cup r.fallback
    /\ r.fresh \cup r.fallback
         \subseteq PreservedOf(r, p) \cup FailingOf(r) \cup RetriedOf(r) \cup r.errors \cup r.notes

\* The fallback is what is restored and attested.
Attested(r, b) ==
    /\ r.restored = r.fallback
    /\ \A s \in r.restored : r.tree[s] = b.content[s]
    /\ r.manifest = [s \in r.restored |-> r.tree[s]]

RunInv ==
    /\ run.phase # "idle" => Collected(run, base) /\ run.at <= clock
    /\ run.phase = "source" => run.errors = {} /\ run.notes = {}
    /\ run.phase \in {"candidate", "final", "selected"} =>
         Laned(run, Prior) /\ Attested(run, base)

PublishedInv ==
    /\ clock \in Nat
    /\ Sound(base) /\ base.contract \in Contract /\ base.at <= clock
    /\ base.manifest = [s \in Fallback(base) |-> base.content[s]]

ClockInv == refused = Prior.fallbackSince /\ HardLimit

\* A surface and a step of it: what failures in a row are counted for.
Counted == Surface \X CollectorStep

\* A surface that failed last time is degraded and the step has a streak, and one that
\* is to be reported raised the policy, which a refresh carries on.
Failed(n, p, b) ==
    /\ n \in Nat
    /\ n > 0 => p[1] \in Degraded(b) /\ p \in DOMAIN b.streak /\ b.streak[p] >= 1
    /\ n >= Persist => b.policy

StreakInv == \A p \in Counted : Failed(fails[p], p, Prior)

SelectionInv == PublishedInv /\ ClockInv /\ StreakInv /\ RunInv

-----------------------------------------------------------------------------
\* The reading of an older baseline.

\* A nonempty set of naturals has a least element.
LEMMA LeastElement ==
    ASSUME NEW T \in SUBSET Nat, T # {}
    PROVE  \E m \in T : \A y \in T : m <= y
<1> DEFINE R == OpToRel(<, Nat)
<1>1. IsWellFoundedOn(R, Nat)
  BY NatLessThanWellFounded
<1>2. \A x, y \in Nat : x < y => <<x, y>> \in R
  BY DEF OpToRel
<1> HIDE DEF R
<1>3. PICK m \in T : \A y \in T : ~(<<y, m>> \in R)
  BY <1>1, WFMin
<1>4. \A y \in T : m <= y
  <2> TAKE y \in T
  <2>1. ~(y < m)
    BY <1>2, <1>3
  <2> QED
    BY <2>1
<1> QED
  BY <1>4

\* So that Min is what it says.
LEMMA MinOfNaturals ==
    ASSUME NEW T \in SUBSET Nat, T # {}
    PROVE  Min(T) \in T /\ \A y \in T : Min(T) <= y
  BY LeastElement DEF Min

\* An expanded clock is the earliest one of the surfaces it came from.
LEMMA ExpandedIs ==
    ASSUME NEW f, DOMAIN f \subseteq Surface, \A o \in DOMAIN f : f[o] \in Nat,
           NEW Into \in [Surface -> SUBSET Surface]
    PROVE  LET g == Expanded(f, Into)
           IN  /\ DOMAIN g = UNION {Into[o] : o \in DOMAIN f}
               /\ DOMAIN g \subseteq Surface
               /\ \A s \in DOMAIN g : \E o \in DOMAIN f : s \in Into[o] /\ g[s] = f[o]
               /\ \A o \in DOMAIN f : \A s \in Into[o] : s \in DOMAIN g /\ g[s] <= f[o]
<1> DEFINE g == Expanded(f, Into)
           T(s) == {f[o] : o \in {p \in DOMAIN f : s \in Into[p]}}
<1>1. DOMAIN g = UNION {Into[o] : o \in DOMAIN f}
  BY DEF Expanded
<1>2. DOMAIN g \subseteq Surface
  BY <1>1
<1>3. \A s \in DOMAIN g : g[s] = Min(T(s))
  BY DEF Expanded
<1>4. \A s \in DOMAIN g : T(s) \in SUBSET Nat /\ T(s) # {}
  BY <1>1
<1>5. \A s \in DOMAIN g : Min(T(s)) \in T(s) /\ \A y \in T(s) : Min(T(s)) <= y
  <2> TAKE s \in DOMAIN g
  <2> DEFINE U == T(s)
  <2>1. U \in SUBSET Nat /\ U # {}
    BY <1>4
  <2> HIDE DEF U
  <2>2. Min(U) \in U /\ \A y \in U : Min(U) <= y
    BY <2>1, MinOfNaturals
  <2> QED
    BY <2>2 DEF U
<1>6. \A s \in DOMAIN g : \E o \in DOMAIN f : s \in Into[o] /\ g[s] = f[o]
  BY <1>3, <1>5
<1>7. \A o \in DOMAIN f : \A s \in Into[o] : s \in DOMAIN g /\ g[s] <= f[o]
  <2> TAKE o \in DOMAIN f
  <2> TAKE s \in Into[o]
  <2>1. s \in DOMAIN g
    BY <1>1
  <2>2. f[o] \in T(s)
    OBVIOUS
  <2> HIDE DEF g, T
  <2> QED
    BY <1>3, <1>5, <2>1, <2>2
<1> HIDE DEF g
<1> QED
  BY <1>1, <1>2, <1>6, <1>7 DEF g

\* A migration keeps a baseline sound, its time and its streaks.
LEMMA SplitSound ==
    ASSUME NEW b, Sound(b), NEW Into \in [Surface -> SUBSET Surface]
    PROVE  Sound(Split(b, Into)) /\ Split(b, Into).at = b.at
<1> DEFINE d == Expanded(b.degradedSince, Into)
           f == Expanded(b.fallbackSince, Into)
           w == Split(b, Into)
<1>1. /\ DOMAIN w = BaseFields /\ w.contract = b.contract + 1
      /\ w.at = b.at /\ w.streak = b.streak
      /\ w.degradedSince = d /\ w.fallbackSince = f
  BY DEF Split, Sound, BaseFields
<1>2. /\ DOMAIN d = UNION {Into[o] : o \in Degraded(b)} /\ DOMAIN d \subseteq Surface
      /\ \A s \in DOMAIN d : \E o \in Degraded(b) : s \in Into[o] /\ d[s] = b.degradedSince[o]
      /\ \A o \in Degraded(b) : \A s \in Into[o] : s \in DOMAIN d /\ d[s] <= b.degradedSince[o]
  BY ExpandedIs DEF Sound, Degraded
<1>3. /\ DOMAIN f = UNION {Into[o] : o \in Fallback(b)}
      /\ \A s \in DOMAIN f : \E o \in Fallback(b) : s \in Into[o] /\ f[s] = b.fallbackSince[o]
  BY ExpandedIs DEF Sound, Fallback
<1> HIDE DEF w, d, f
<1>4. DOMAIN f \subseteq DOMAIN d
  BY <1>2, <1>3 DEF Sound
<1>5. \A s \in DOMAIN d : d[s] \in Nat /\ d[s] <= b.at
  BY <1>2 DEF Sound
<1>6. \A s \in DOMAIN f : f[s] \in Nat /\ d[s] <= f[s]
  <2> TAKE s \in DOMAIN f
  <2>1. PICK o \in Fallback(b) : s \in Into[o] /\ f[s] = b.fallbackSince[o]
    BY <1>3
  <2>2. b.fallbackSince[o] \in Nat /\ b.degradedSince[o] <= b.fallbackSince[o]
         /\ o \in Degraded(b) /\ b.degradedSince[o] \in Nat
    BY DEF Sound
  <2>3. d[s] <= b.degradedSince[o] /\ d[s] \in Nat
    BY <1>2, <1>5, <2>1, <2>2
  <2> QED
    BY <2>1, <2>2, <2>3
<1>7. Sound(w)
  BY <1>1, <1>2, <1>4, <1>5, <1>6 DEF Sound, Fallback, Degraded
<1> QED
  BY <1>1, <1>7 DEF w

\* The chain of migrations of baseline b up to contract n.
Chain(b, f, n) ==
    f = [c \in b.contract..n |->
            IF c = b.contract THEN b ELSE Split(f[c - 1], Splits[c - 1])]

\* There is a chain up to every later contract: the least contract without one would
\* extend the chain of its predecessor.
LEMMA ChainExists ==
    ASSUME NEW b, b.contract \in Nat, NEW n \in Nat, b.contract <= n
    PROVE  \E f : Chain(b, f, n)
<1> DEFINE c0 == b.contract
           T == {k \in Nat : ~\E f : Chain(b, f, c0 + k)}
<1>1. SUFFICES T = {}
  <2>1. n - c0 \in Nat /\ c0 + (n - c0) = n
    OBVIOUS
  <2>2. n - c0 \notin T
    BY <1>1
  <2>3. \E f : Chain(b, f, c0 + (n - c0))
    BY <2>1, <2>2
  <2> QED
    BY <2>1, <2>3
<1>2. SUFFICES ASSUME T # {} PROVE FALSE
  OBVIOUS
<1>3. PICK m \in T : \A y \in T : m <= y
  BY <1>2, LeastElement
<1>4. CASE m = 0
  <2>1. Chain(b, [c \in c0..c0 |-> b], c0 + 0)
    BY DEF Chain
  <2> QED
    BY <1>3, <1>4, <2>1
<1>5. CASE m # 0
  <2>1. m - 1 \in Nat /\ m - 1 \notin T
    BY <1>3, <1>5
  <2>2. PICK f : Chain(b, f, c0 + (m - 1))
    BY <2>1
  <2> DEFINE g == [c \in c0..(c0 + m) |->
                     IF c = c0 THEN b ELSE Split(f[c - 1], Splits[c - 1])]
  <2>3. \A c \in c0..(c0 + (m - 1)) : g[c] = f[c]
    <3> TAKE c \in c0..(c0 + (m - 1))
    <3>1. c \in c0..(c0 + m)
      BY <2>1
    <3>2. f[c] = IF c = c0 THEN b ELSE Split(f[c - 1], Splits[c - 1])
      BY <2>2 DEF Chain
    <3> QED
      BY <3>1, <3>2
  <2>4. \A c \in c0..(c0 + m) : c # c0 => g[c - 1] = f[c - 1]
    <3> TAKE c \in c0..(c0 + m)
    <3> HAVE c # c0
    <3>1. c - 1 \in c0..(c0 + (m - 1))
      BY <2>1
    <3> QED
      BY <2>3, <3>1
  <2>5. g = [c \in c0..(c0 + m) |-> IF c = c0 THEN b ELSE Split(g[c - 1], Splits[c - 1])]
    BY <2>4
  <2>6. Chain(b, g, c0 + m)
    BY <2>5 DEF Chain
  <2> QED
    BY <1>3, <2>6
<1> QED
  BY <1>4, <1>5

\* The reading of a baseline is the last of its chain.
LEMMA ReadingChain ==
    ASSUME NEW b, b.contract \in Nat, b.contract <= Len(Had)
    PROVE  \E f : Chain(b, f, Len(Had)) /\ Reading(b) = f[Len(Had)]
<1> DEFINE G(g) == g = [c \in b.contract..Len(Had) |->
                          IF c = b.contract THEN b ELSE Split(g[c - 1], Splits[c - 1])]
<1>1. \E g : G(g)
  <2>1. Len(Had) \in Nat
    BY SelectionAssumption
  <2>2. \E f : Chain(b, f, Len(Had))
    BY <2>1, ChainExists
  <2> QED
    BY <2>2 DEF Chain
<1>2. G(CHOOSE g : G(g))
  BY <1>1, Zenon
<1>3. Reading(b) = (CHOOSE g : G(g))[Len(Had)]
  BY DEF Reading
<1> QED
  BY <1>2, <1>3 DEF Chain

\* A baseline of the current contract is read as it is.
LEMMA ReadingCurrent ==
    ASSUME NEW b, b.contract = Len(Had)
    PROVE  Reading(b) = b
<1>1. Len(Had) \in Nat
  BY SelectionAssumption
<1>2. PICK f : Chain(b, f, Len(Had)) /\ Reading(b) = f[Len(Had)]
  BY <1>1, ReadingChain
<1>3. f[Len(Had)] = b
  BY <1>1, <1>2 DEF Chain
<1> QED
  BY <1>2, <1>3

\* Reading keeps a baseline sound, and its time.
LEMMA ReadingSound ==
    ASSUME NEW b, Sound(b), b.contract \in Contract
    PROVE  Sound(Reading(b)) /\ Reading(b).at = b.at
<1> DEFINE n == Len(Had)
<1>1. n \in Nat /\ b.contract \in 1..n
  BY SelectionAssumption DEF Contract
<1>2. PICK f : Chain(b, f, n) /\ Reading(b) = f[n]
  BY <1>1, ReadingChain
<1> DEFINE P(c) == Sound(f[c]) /\ f[c].at = b.at
           T == {c \in b.contract..n : ~P(c)}
<1>3. SUFFICES T = {}
  <2>1. n \in b.contract..n
    BY <1>1
  <2>2. P(n)
    BY <1>3, <2>1
  <2> QED
    BY <1>2, <2>2
<1>4. SUFFICES ASSUME T # {} PROVE FALSE
  OBVIOUS
<1>5. PICK m \in T : \A y \in T : m <= y
  <2>1. T \in SUBSET Nat
    BY <1>1
  <2> HIDE DEF T
  <2> QED
    BY <1>4, <2>1, LeastElement
<1>6. m \in b.contract..n /\ ~P(m)
  BY <1>5
<1>7. CASE m = b.contract
  <2>1. f[m] = b
    BY <1>2, <1>6, <1>7 DEF Chain
  <2> QED
    BY <1>6, <2>1
<1>8. CASE m # b.contract
  <2>1. m - 1 \in b.contract..n /\ m - 1 \in 1..(n - 1)
    BY <1>1, <1>6, <1>8
  <2>2. P(m - 1)
    <3>1. ~(m <= m - 1)
      BY <1>1, <1>6
    <3> QED
      BY <1>5, <2>1, <3>1
  <2>3. f[m] = Split(f[m - 1], Splits[m - 1])
    BY <1>2, <1>6, <1>8 DEF Chain
  <2>4. Splits[m - 1] \in [Surface -> SUBSET Surface]
    <3>1. m - 1 \in 1..Len(Splits)
      BY <2>1, SelectionAssumption
    <3> QED
      BY <3>1, SelectionAssumption
  <2>5. P(m)
    BY <2>2, <2>3, <2>4, SplitSound
  <2> QED
    BY <1>6, <2>5
<1> QED
  BY <1>7, <1>8

-----------------------------------------------------------------------------
\* The operators a run is built from, field by field.

\* An audit adds to the lanes.
LEMMA WidenIs ==
    ASSUME NEW r, DOMAIN r = RunFields, NEW E, NEW D
    PROVE  LET w == Widen(r, E, D)
           IN  /\ DOMAIN w = RunFields
               /\ w.phase = r.phase /\ w.kind = r.kind /\ w.at = r.at
               /\ w.health = r.health /\ w.tree = r.tree
               /\ w.restored = r.restored /\ w.manifest = r.manifest
               /\ w.fallback = r.fallback \cup E
               /\ w.fresh = (r.fresh \cup D) \ (r.fallback \cup E)
               /\ w.blamed = E
               /\ w.errors = r.errors \cup E /\ w.notes = r.notes \cup D
  BY DEF Widen, RunFields

\* A restoration takes the content and the manifest of the fallback anew.
LEMMA RestoreIs ==
    ASSUME NEW r, DOMAIN r = RunFields, NEW S
    PROVE  LET w == Restore(r, S)
               tree == [s \in Surface |-> IF s \in S THEN base.content[s] ELSE r.tree[s]]
           IN  /\ DOMAIN w = RunFields
               /\ w.phase = r.phase /\ w.kind = r.kind /\ w.at = r.at
               /\ w.health = r.health /\ w.tree = tree
               /\ w.restored = S /\ w.manifest = [s \in S |-> tree[s]]
               /\ w.fallback = r.fallback /\ w.fresh = r.fresh
               /\ w.errors = r.errors /\ w.notes = r.notes
  BY DEF Restore, RunFields

\* A change of phase is nothing else.
LEMMA PhaseIs ==
    ASSUME NEW r, DOMAIN r = RunFields, NEW x
    PROVE  LET w == [r EXCEPT !.phase = x]
           IN  /\ DOMAIN w = RunFields
               /\ w.phase = x /\ w.kind = r.kind /\ w.at = r.at
               /\ w.health = r.health /\ w.tree = r.tree
               /\ w.restored = r.restored /\ w.manifest = r.manifest
               /\ w.fallback = r.fallback /\ w.fresh = r.fresh
               /\ w.errors = r.errors /\ w.notes = r.notes
  BY DEF RunFields

\* An audit widens the lanes and leaves the tree alone.
LEMMA WidenKeeps ==
    ASSUME NEW r, NEW b, NEW p, Collected(r, b),
           NEW E \in SUBSET Surface, NEW D \in SUBSET Surface
    PROVE  LET w == Widen(r, E, D)
           IN  Collected(w, b) /\ (Laned(r, p) => Laned(w, p))
<1> DEFINE w == Widen(r, E, D)
<1>1. DOMAIN r = RunFields
  BY DEF Collected
<1>2. /\ DOMAIN w = RunFields
      /\ w.kind = r.kind /\ w.at = r.at /\ w.health = r.health /\ w.tree = r.tree
      /\ w.fallback = r.fallback \cup E
      /\ w.fresh = (r.fresh \cup D) \ (r.fallback \cup E)
      /\ w.errors = r.errors \cup E /\ w.notes = r.notes \cup D
  BY <1>1, WidenIs
<1> HIDE DEF w
<1>3. Collected(w, b)
  BY <1>2 DEF Collected
<1>4. FailingOf(w) = FailingOf(r) /\ PreservedOf(w, p) = PreservedOf(r, p)
         /\ RetriedOf(w) = RetriedOf(r)
  BY <1>2 DEF FailingOf, PreservedOf, RetriedOf
<1>5. ASSUME Laned(r, p) PROVE Laned(w, p)
  BY <1>2, <1>4, <1>5 DEF Laned
<1> QED
  BY <1>3, <1>5 DEF w

\* A restoration makes the tree and the manifest what the lanes say.
LEMMA RestoreKeeps ==
    ASSUME NEW r, NEW p, Collected(r, base)
    PROVE  LET w == Restore(r, r.fallback)
           IN  /\ Collected(w, base) /\ Attested(w, base)
               /\ Laned(r, p) => Laned(w, p)
<1> DEFINE w == Restore(r, r.fallback)
           tree == [s \in Surface |-> IF s \in r.fallback THEN base.content[s] ELSE r.tree[s]]
<1>1. DOMAIN r = RunFields
  BY DEF Collected
<1>2. /\ DOMAIN w = RunFields
      /\ w.kind = r.kind /\ w.at = r.at /\ w.health = r.health /\ w.tree = tree
      /\ w.restored = r.fallback /\ w.manifest = [s \in r.fallback |-> tree[s]]
      /\ w.fallback = r.fallback /\ w.fresh = r.fresh
      /\ w.errors = r.errors /\ w.notes = r.notes
  BY <1>1, RestoreIs
<1>3. /\ DOMAIN tree = Surface
      /\ \A s \in Surface : tree[s] = IF s \in r.fallback THEN base.content[s] ELSE r.tree[s]
  OBVIOUS
<1> HIDE DEF w, tree
<1>4. Collected(w, base)
  BY <1>2, <1>3 DEF Collected
<1>5. Attested(w, base)
  BY <1>2, <1>3 DEF Attested, Collected
<1>6. FailingOf(w) = FailingOf(r) /\ PreservedOf(w, p) = PreservedOf(r, p)
         /\ RetriedOf(w) = RetriedOf(r)
  BY <1>2 DEF FailingOf, PreservedOf, RetriedOf
<1>7. ASSUME Laned(r, p) PROVE Laned(w, p)
  BY <1>2, <1>6, <1>7 DEF Laned
<1> QED
  BY <1>4, <1>5, <1>7 DEF w

\* A change of phase changes nothing that was collected, laned or attested.
LEMMA PhaseKeeps ==
    ASSUME NEW r, NEW b, NEW p, Collected(r, b), NEW x
    PROVE  LET w == [r EXCEPT !.phase = x]
           IN  /\ Collected(w, b)
               /\ Laned(r, p) => Laned(w, p)
               /\ Attested(r, b) => Attested(w, b)
<1> DEFINE w == [r EXCEPT !.phase = x]
<1>1. DOMAIN r = RunFields
  BY DEF Collected
<1>2. /\ DOMAIN w = RunFields
      /\ w.kind = r.kind /\ w.at = r.at /\ w.health = r.health /\ w.tree = r.tree
      /\ w.restored = r.restored /\ w.manifest = r.manifest
      /\ w.fallback = r.fallback /\ w.fresh = r.fresh
      /\ w.errors = r.errors /\ w.notes = r.notes
  BY <1>1, PhaseIs
<1> HIDE DEF w
<1>3. FailingOf(w) = FailingOf(r) /\ PreservedOf(w, p) = PreservedOf(r, p)
         /\ RetriedOf(w) = RetriedOf(r)
  BY <1>2 DEF FailingOf, PreservedOf, RetriedOf
<1>4. Collected(w, b)
  BY <1>2 DEF Collected
<1>5. ASSUME Laned(r, p) PROVE Laned(w, p)
  BY <1>2, <1>3, <1>5 DEF Laned
<1>6. ASSUME Attested(r, b) PROVE Attested(w, b)
  BY <1>2, <1>6 DEF Attested
<1> QED
  BY <1>4, <1>5, <1>6 DEF w

-----------------------------------------------------------------------------
\* The steps of a run before it publishes.

\* The surfaces named by what a run observes are surfaces.
LEMMA NamesAreSurfaces ==
    ASSUME run.phase # "idle" => run.kind \in Attempt
    PROVE  /\ run.phase # "idle" => Attempted(run.kind) \subseteq Surface
           /\ run.phase # "idle" => Bad \subseteq Surface /\ Failing \subseteq Surface
           /\ Weak \subseteq Surface /\ Stale \subseteq Surface
           /\ Pair \subseteq Surface
<1>1. run.phase # "idle" => Attempted(run.kind) \subseteq Surface
  BY SelectionAssumption DEF Attempted, Attempt
<1>2. Weak \subseteq Surface /\ Stale \subseteq Surface /\ Pair \subseteq Surface
  BY SelectionAssumption DEF Weak, Stale
<1> QED
  BY <1>1, <1>2 DEF Bad, Failing

\* A step that does not publish keeps what is published and what follows from it.
LEMMA RunKeeps ==
    ASSUME SelectionInv, UNCHANGED <<clock, base, refused, fails>>, RunInv'
    PROVE  SelectionInv'
<1>1. Prior' = Prior
  BY DEF Prior
<1>2. PublishedInv'
  BY DEF SelectionInv, PublishedInv, Fallback, Sound, Degraded
<1>3. ClockInv'
  BY <1>1 DEF SelectionInv, ClockInv, HardLimit, Fallback
<1>4. StreakInv'
  BY <1>1 DEF SelectionInv, StreakInv
<1> QED
  BY <1>2, <1>3, <1>4 DEF SelectionInv

\* A run that is over owes nothing.
LEMMA IdleKeeps == ASSUME run' = Idle PROVE RunInv'
<1>1. run'.phase = "idle"
  BY DEF Idle
<1> QED
  BY <1>1 DEF RunInv

\* A run that has restored what its lanes say goes on.
LEMMA RunGoesOn ==
    ASSUME UNCHANGED <<clock, base>>, NEW r, run' = r,
           r.phase \in {"candidate", "final", "selected"},
           Collected(r, base), r.at <= clock, Laned(r, Prior), Attested(r, base)
    PROVE  RunInv'
<1>1. Prior' = Prior
  BY DEF Prior
<1>2. (Collected(run, base) /\ run.at <= clock)'
  <2>1. Collected(run', base') = Collected(r, base)
    OBVIOUS
  <2> QED
    BY <2>1
<1>3. (Laned(run, Prior) /\ Attested(run, base))'
  <2>1. Laned(run', Prior') = Laned(r, Prior) /\ Attested(run', base') = Attested(r, base)
    BY <1>1
  <2> QED
    BY <2>1
<1>4. (run.phase # "source")'
  OBVIOUS
<1> QED
  BY <1>2, <1>3, <1>4 DEF RunInv

\* A run starts with what it collects and the baseline for the rest.
LEMMA CollectKeeps ==
    ASSUME SelectionInv, NEW kind \in Attempt, Start(kind)
    PROVE  SelectionInv'
<1> DEFINE tree == [s \in Surface |->
                      IF s \in Attempted(kind)
                      THEN [at |-> clock, weak |-> health[s].kind = "weak"]
                      ELSE base.content[s]]
<1>1. /\ DOMAIN run' = RunFields
      /\ run'.phase = "source" /\ run'.kind = kind /\ run'.at = clock
      /\ run'.tree = tree /\ run'.fresh = {} /\ run'.fallback = {}
      /\ run'.errors = {} /\ run'.notes = {}
  BY DEF Start, RunFields
<1>2. DOMAIN tree = Surface /\ \A s \in Surface \ Attempted(kind) : tree[s] = base.content[s]
  OBVIOUS
<1> HIDE DEF tree
<1>3. UNCHANGED <<clock, base, refused, fails>>
  BY DEF Start
<1>4. clock \in Nat /\ base.at \in Nat /\ base.at <= clock
  BY DEF SelectionInv, PublishedInv, Sound
<1>5. Collected(run', base')
  BY <1>1, <1>2, <1>3, <1>4 DEF Collected
<1>6. RunInv'
  BY <1>1, <1>3, <1>4, <1>5 DEF RunInv
<1> QED
  BY <1>3, <1>6, RunKeeps

\* The source audit decides the first lanes and restores the fallback.
LEMMA SourceAuditKeeps == ASSUME SelectionInv, SourceAudit PROVE SelectionInv'
<1>1. run.phase = "source" /\ UNCHANGED <<clock, base, refused, fails>>
  BY DEF SourceAudit
<1>2. Collected(run, base) /\ run.at <= clock /\ run.errors = {} /\ run.notes = {}
  BY <1>1 DEF SelectionInv, RunInv
<1> DEFINE forced == (Preserved \cap Fallback(Prior)) \cup Failing
                         \cup (IF Retrying THEN Pair ELSE {})
           r0(E, D) == [run EXCEPT !.phase = "candidate", !.genuine = (E \cup D # {}),
                                   !.fallback = forced,
                                   !.fresh = Preserved \ Fallback(Prior)]
<1>3. PICK E \in Parsed(Bad), D \in Parsed(Weak) :
        LET r == Widen(r0(E, D), E, D)
        IN  run' = IF Expired(r.fallback, run.at) THEN Idle ELSE Restore(r, r.fallback)
  BY DEF SourceAudit
<1>4. run.kind \in Attempt /\ DOMAIN run = RunFields
  BY <1>2 DEF Collected
<1>5. /\ Attempted(run.kind) \subseteq Surface /\ Failing \subseteq Surface
      /\ Pair \subseteq Surface
      /\ E \in SUBSET Surface /\ D \in SUBSET Surface
  BY <1>1, <1>4, NamesAreSurfaces DEF Parsed
<1>6. Degraded(Prior) \subseteq Surface /\ Fallback(Prior) \subseteq Degraded(Prior)
  BY ReadingSound DEF SelectionInv, PublishedInv, Prior, Sound
<1>7. Failing = FailingOf(run) /\ Preserved = PreservedOf(run, Prior)
        /\ (IF Retrying THEN Pair ELSE {}) = RetriedOf(run)
  BY DEF Failing, FailingOf, Preserved, PreservedOf, Retrying, RetriedOf
<1> DEFINE q == r0(E, D)
           r == Widen(q, E, D)
<1>8. /\ DOMAIN q = RunFields
      /\ q.phase = "candidate" /\ q.kind = run.kind /\ q.at = run.at
      /\ q.health = run.health /\ q.tree = run.tree
      /\ q.fallback = forced /\ q.fresh = Preserved \ Fallback(Prior)
      /\ q.errors = {} /\ q.notes = {}
  BY <1>2, <1>4 DEF RunFields
<1>9. run' = Idle \/ run' = Restore(r, r.fallback)
  BY <1>3
<1> HIDE DEF q
<1>10. Collected(q, base)
  <2>1. Preserved \subseteq Surface
    BY <1>6 DEF Preserved
  <2> QED
    BY <1>2, <1>5, <1>8, <2>1 DEF Collected
<1>11. Laned(q, Prior)
  <2>1. FailingOf(q) = Failing /\ PreservedOf(q, Prior) = Preserved
          /\ RetriedOf(q) = (IF Retrying THEN Pair ELSE {})
    BY <1>7, <1>8 DEF FailingOf, PreservedOf, RetriedOf
  <2> QED
    BY <1>8, <2>1 DEF Laned
<1>12. Collected(r, base) /\ Laned(r, Prior) /\ r.phase = "candidate" /\ r.at = run.at
  BY <1>5, <1>8, <1>10, <1>11, WidenKeeps, WidenIs
<1> HIDE DEF r
<1>13. ASSUME run' = Restore(r, r.fallback) PROVE RunInv'
  <2> DEFINE w == Restore(r, r.fallback)
  <2>1. Collected(w, base) /\ Attested(w, base) /\ Laned(w, Prior)
    BY <1>12, RestoreKeeps
  <2>2. w.phase = "candidate" /\ w.at = run.at
    <3>1. DOMAIN r = RunFields
      BY <1>12 DEF Collected
    <3>2. Restore(r, r.fallback).phase = r.phase /\ Restore(r, r.fallback).at = r.at
      BY <3>1 DEF Restore, RunFields
    <3> QED
      BY <1>12, <3>2
  <2> HIDE DEF w
  <2> QED
    BY <1>1, <1>2, <1>13, <2>1, <2>2, RunGoesOn DEF w
<1> QED
  BY <1>1, <1>9, <1>13, IdleKeeps, RunKeeps

\* A rebuild that fails restores every surface.
LEMMA RebuildKeeps == ASSUME SelectionInv, RebuildFails PROVE SelectionInv'
<1> DEFINE r == Widen(run, Surface, {})
           w == Restore(r, Surface)
<1>1. /\ run.phase \in {"candidate", "final"}
      /\ UNCHANGED <<clock, base, refused, fails>>
      /\ run' = Idle \/ run' = w
  BY DEF RebuildFails
<1>2. Collected(run, base) /\ run.at <= clock /\ Laned(run, Prior) /\ DOMAIN run = RunFields
  BY <1>1 DEF SelectionInv, RunInv, Collected
<1>3. /\ Collected(r, base) /\ Laned(r, Prior) /\ r.phase = run.phase /\ r.at = run.at
      /\ r.fallback = Surface
  <2>1. Collected(r, base) /\ Laned(r, Prior)
    BY <1>2, WidenKeeps
  <2>2. r.phase = run.phase /\ r.at = run.at /\ r.fallback = run.fallback \cup Surface
    BY <1>2, WidenIs
  <2>3. run.fallback \subseteq Surface
    BY <1>2 DEF Collected
  <2> QED
    BY <2>1, <2>2, <2>3
<1> HIDE DEF r
<1>4. Collected(w, base) /\ Attested(w, base) /\ Laned(w, Prior)
  BY <1>3, RestoreKeeps
<1>5. w.phase = run.phase /\ w.at = run.at
  <2>1. DOMAIN r = RunFields
    BY <1>3 DEF Collected
  <2>2. w.phase = r.phase /\ w.at = r.at
    BY <2>1, RestoreIs
  <2> QED
    BY <1>3, <2>2
<1> HIDE DEF w
<1>6. ASSUME run' = w PROVE RunInv'
  BY <1>1, <1>2, <1>4, <1>5, <1>6, RunGoesOn
<1> QED
  BY <1>1, <1>6, IdleKeeps, RunKeeps

\* An audit of the rebuilt tree ends the run, widens the fallback, or accepts a
\* tree in which nothing is left to restore.
LEMMA ConcludeKeeps ==
    ASSUME SelectionInv, run.phase \in {"candidate", "final"},
           NEW E \in SUBSET Surface, NEW D \in SUBSET Surface,
           Conclude(Widen(run, E, D)), UNCHANGED <<clock, base, refused, fails>>
    PROVE  SelectionInv'
<1> DEFINE r == Widen(run, E, D)
           v == Restore(r, r.fallback)
<1>1. /\ Collected(run, base) /\ run.at <= clock /\ DOMAIN run = RunFields
      /\ Laned(run, Prior) /\ Attested(run, base)
  BY DEF SelectionInv, RunInv, Collected
<1>2. Collected(r, base) /\ Laned(r, Prior)
  BY <1>1, WidenKeeps
<1>3. /\ r.at = run.at /\ r.tree = run.tree /\ r.restored = run.restored
      /\ r.manifest = run.manifest /\ r.fallback = run.fallback \cup E /\ r.blamed = E
  BY <1>1, WidenIs
<1>4. \/ run' = Idle
      \/ r.fallback = {} /\ run' = [r EXCEPT !.phase = "selected"]
      \/ r.blamed = {} /\ run' = [r EXCEPT !.phase = "selected"]
      \/ run' = [v EXCEPT !.phase = "final"]
  BY DEF Conclude, Select, Widened
<1> HIDE DEF r
<1>5. ASSUME r.fallback = {} \/ r.blamed = {}, run' = [r EXCEPT !.phase = "selected"]
      PROVE  RunInv'
  <2>1. Attested(r, base)
    BY <1>1, <1>3, <1>5 DEF Attested
  <2> DEFINE w == [r EXCEPT !.phase = "selected"]
  <2>2. Collected(w, base) /\ Laned(w, Prior) /\ Attested(w, base)
    BY <1>2, <2>1, PhaseKeeps
  <2>3. w.phase = "selected" /\ w.at = run.at
    BY <1>2, <1>3, PhaseIs DEF Collected
  <2> HIDE DEF w
  <2> QED
    BY <1>1, <1>5, <2>2, <2>3, RunGoesOn DEF w
<1>6. ASSUME run' = [v EXCEPT !.phase = "final"] PROVE RunInv'
  <2>1. Collected(v, base) /\ Attested(v, base) /\ Laned(v, Prior) /\ v.at = run.at
    <3>1. Collected(v, base) /\ Attested(v, base) /\ Laned(v, Prior)
      BY <1>2, RestoreKeeps
    <3>2. DOMAIN r = RunFields
      BY <1>2 DEF Collected
    <3>3. v.at = r.at
      BY <3>2, RestoreIs
    <3> QED
      BY <1>3, <3>1, <3>3
  <2> HIDE DEF v
  <2> DEFINE w == [v EXCEPT !.phase = "final"]
  <2>2. Collected(w, base) /\ Laned(w, Prior) /\ Attested(w, base)
    BY <2>1, PhaseKeeps
  <2>3. w.phase = "final" /\ w.at = run.at
    BY <2>1, PhaseIs DEF Collected
  <2> HIDE DEF w
  <2> QED
    BY <1>1, <1>6, <2>2, <2>3, RunGoesOn DEF w
<1> QED
  BY <1>4, <1>5, <1>6, IdleKeeps, RunKeeps

\* What an audit reports are surfaces, so that the audits are of this form.
LEMMA AuditsKeep ==
    ASSUME SelectionInv, run.phase \in {"candidate", "final"}, Audits,
           UNCHANGED <<clock, health, base, refused, fails>>
    PROVE  SelectionInv'
<1>1. PICK E \in SUBSET Surface, D \in SUBSET Surface : Conclude(Audited(E, D))
  <2>1. \A x \in Skew : x[1] \in SUBSET Surface /\ x[2] \in SUBSET Surface
    BY DEF Skew
  <2> QED
    BY <2>1 DEF Audits
<1>2. Bad \subseteq Surface /\ Stale \subseteq Surface /\ Weak \subseteq Surface
  BY NamesAreSurfaces DEF SelectionInv, RunInv, Collected
<1>3. Conclude(Widen(run, E \cup Stale \cup Bad, D \cup Weak))
  BY <1>1 DEF Audited
<1>4. E \cup Stale \cup Bad \in SUBSET Surface /\ D \cup Weak \in SUBSET Surface
  BY <1>2
<1> QED
  BY <1>3, <1>4, ConcludeKeeps

-----------------------------------------------------------------------------
\* What is published.

\* The fields of a publication: clocks are those of the baseline where it has them.
LEMMA PublishedIs ==
    /\ DOMAIN Published = BaseFields
    /\ Published.contract = Len(Had) /\ Published.at = clock
    /\ Published.content = run.tree /\ Published.manifest = run.manifest
    /\ Degraded(Published) = run.fresh \cup run.fallback
    /\ Fallback(Published) = run.fallback
    /\ \A s \in Degraded(Published) : Published.degradedSince[s] =
          IF s \in Degraded(Prior) THEN Prior.degradedSince[s] ELSE run.at
    /\ Published.fallbackSince = Clocks(run.fallback, Prior.fallbackSince, run.at)
    /\ \A s \in Fallback(Published) : Published.fallbackSince[s] =
          IF s \in Fallback(Prior) THEN Prior.fallbackSince[s] ELSE run.at
    /\ Published.streak = Streak
    /\ Published.policy = Policy /\ Published.alert = Alert
<1> DEFINE d == Clocks(run.fresh \cup run.fallback, Prior.degradedSince, run.at)
           f == Clocks(run.fallback, Prior.fallbackSince, run.at)
<1>1. /\ DOMAIN Published = BaseFields
      /\ Published.contract = Len(Had) /\ Published.at = clock
      /\ Published.content = run.tree /\ Published.manifest = run.manifest
      /\ Published.degradedSince = d /\ Published.fallbackSince = f
      /\ Published.streak = Streak
      /\ Published.policy = Policy /\ Published.alert = Alert
  BY DEF Published, BaseFields, Since
<1>2. /\ DOMAIN d = run.fresh \cup run.fallback
      /\ \A s \in DOMAIN d : d[s] =
           IF s \in Degraded(Prior) THEN Prior.degradedSince[s] ELSE run.at
  BY DEF Clocks, Degraded
<1>3. /\ DOMAIN f = run.fallback
      /\ \A s \in DOMAIN f : f[s] =
           IF s \in Fallback(Prior) THEN Prior.fallbackSince[s] ELSE run.at
  BY DEF Clocks, Fallback
<1> HIDE DEF d
<1> QED
  BY <1>1, <1>2, <1>3 DEF Degraded, Fallback

\* A cap keeps what reaches the threshold at the threshold.
LEMMA CappedIs ==
    ASSUME NEW n \in Nat
    PROVE  /\ Capped(n) \in Nat
           /\ n >= 1 => Capped(n) >= 1
           /\ Capped(n) >= Persist <=> n >= Persist
<1> DEFINE T == {n, Persist}
<1>1. Persist \in Nat /\ Persist >= 1
  BY SelectionAssumption
<1>2. T \in SUBSET Nat /\ T # {}
  BY <1>1
<1>3. Min(T) \in T /\ \A y \in T : Min(T) <= y
  <2> HIDE DEF T
  <2> QED
    BY <1>2, MinOfNaturals
<1>4. (Min(T) = n \/ Min(T) = Persist) /\ Min(T) <= n /\ Min(T) <= Persist
  BY <1>3
<1>5. Capped(n) = Min(T)
  BY DEF Capped
<1> HIDE DEF T
<1> QED
  BY <1>1, <1>4, <1>5

\* What a run at its end knows of the baseline.
LEMMA AtTheEnd ==
    ASSUME SelectionInv, run.phase = "selected"
    PROVE  /\ Collected(run, base) /\ run.at <= clock
           /\ Laned(run, Prior) /\ Attested(run, base)
           /\ Sound(Prior) /\ Prior.at = base.at
           /\ Failing = FailingOf(run) /\ Preserved = PreservedOf(run, Prior)
           /\ (IF Retrying THEN Pair ELSE {}) = RetriedOf(run)
           /\ Attempted(run.kind) \subseteq Surface /\ Failing \subseteq Surface
<1>1. /\ Collected(run, base) /\ run.at <= clock
      /\ Laned(run, Prior) /\ Attested(run, base)
  BY DEF SelectionInv, RunInv
<1>2. Sound(Prior) /\ Prior.at = base.at
  BY ReadingSound DEF SelectionInv, PublishedInv, Prior
<1>3. Failing = FailingOf(run) /\ Preserved = PreservedOf(run, Prior)
        /\ (IF Retrying THEN Pair ELSE {}) = RetriedOf(run)
  BY DEF Failing, FailingOf, Preserved, PreservedOf, Retrying, RetriedOf
<1>4. Attempted(run.kind) \subseteq Surface /\ Failing \subseteq Surface
  <2>1. run.kind \in Attempt
    BY <1>1 DEF Collected
  <2> QED
    BY <2>1, NamesAreSurfaces
<1> QED
  BY <1>1, <1>2, <1>3, <1>4

\* The failures in a row at p once this run is published.
Failures(p) ==
    IF p[1] \notin Attempted(run.kind) THEN fails[p]
    ELSE IF p \notin FailedAt THEN 0
    ELSE IF run.health[p[1]].kind = "hard" THEN Persist
    ELSE Capped(fails[p] + 1)

\* The streak that is published covers the failures, and what must be reported
\* raises the policy.
LEMMA FailuresKeep ==
    ASSUME SelectionInv, run.phase = "selected", NEW p \in Counted
    PROVE  /\ Failures(p) \in Nat
           /\ Failures(p) > 0 => /\ p[1] \in run.fresh \cup run.fallback
                                 /\ p \in DOMAIN Streak /\ Streak[p] >= 1
           /\ Failures(p) >= Persist => Policy
<1>1. /\ Collected(run, base) /\ Laned(run, Prior) /\ Sound(Prior)
      /\ Failing = FailingOf(run) /\ Preserved = PreservedOf(run, Prior)
  BY AtTheEnd
<1>2. /\ fails[p] \in Nat
      /\ fails[p] > 0 => /\ p[1] \in Degraded(Prior) /\ p \in DOMAIN Prior.streak
                         /\ Prior.streak[p] >= 1
      /\ fails[p] >= Persist => Prior.policy
  BY DEF SelectionInv, StreakInv, Failed
<1>3. Persist \in Nat /\ Persist >= 1 /\ Persist <= 2
  BY SelectionAssumption
<1>4. Failing \subseteq Attempted(run.kind) /\ Failing \subseteq run.fallback
        /\ Preserved \subseteq run.fresh \cup run.fallback
        /\ p[1] \in Surface /\ p[2] \in CollectorStep /\ p = <<p[1], p[2]>>
        /\ (p \in FailedAt => p[1] \in Failing)
  BY <1>1 DEF Failing, Laned, Counted, FailedAt
<1>5. CASE p[1] \notin Attempted(run.kind)
  <2>1. run.kind # Full /\ p[1] # run.kind
    BY <1>4, <1>5 DEF Attempted
  <2>2. Failures(p) = fails[p] /\ p \notin FailedAt
    BY <1>4, <1>5 DEF Failures
  <2>3. ASSUME fails[p] > 0
        PROVE  /\ p[1] \in Preserved /\ p \in DOMAIN Streak /\ Streak[p] = Prior.streak[p]
    <3>1. p[1] \in Preserved
      BY <1>2, <2>1, <2>3 DEF Preserved
    <3>2. p \in Preserved \X CollectorStep
      BY <1>4, <3>1
    <3> QED
      BY <1>2, <2>2, <2>3, <3>1, <3>2 DEF Streak
  <2>4. ASSUME fails[p] >= Persist PROVE Policy
    <3>1. Carried
      BY <1>2, <1>3, <2>3, <2>4 DEF Carried
    <3>2. ~Reconciling
      BY <2>1 DEF Reconciling, Retrying
    <3> QED
      BY <3>1, <3>2 DEF Policy, Carried
  <2> QED
    BY <1>2, <1>4, <2>2, <2>3, <2>4
<1>6. CASE p[1] \in Attempted(run.kind) /\ p \notin FailedAt
  BY <1>3, <1>6 DEF Failures
<1>7. CASE p \in FailedAt
  <2> DEFINE n == Count(Prior, p)
  <2>1. n \in Nat /\ (p \in DOMAIN Prior.streak => n = Prior.streak[p])
    BY <1>1 DEF Count, Sound
  <2>2. p \in DOMAIN Streak /\ Streak[p] = Capped(n + 1)
    BY <1>7 DEF Streak
  <2> HIDE DEF n
  <2>3. Streak[p] >= 1 /\ (n + 1 >= Persist => Streak[p] >= Persist)
    <3>1. n + 1 \in Nat /\ n + 1 >= 1
      BY <2>1
    <3> QED
      BY <2>2, <3>1, CappedIs
  <2>4. Failures(p) = IF run.health[p[1]].kind = "hard" THEN Persist ELSE Capped(fails[p] + 1)
    BY <1>4, <1>7 DEF Failures
  <2>5. /\ fails[p] + 1 \in Nat /\ Capped(fails[p] + 1) \in Nat
        /\ Capped(fails[p] + 1) >= Persist <=> fails[p] + 1 >= Persist
    <3>1. fails[p] + 1 \in Nat
      BY <1>2
    <3> QED
      BY <3>1, CappedIs
  <2>6. ASSUME Failures(p) >= Persist
        PROVE  run.health[p[1]].kind = "hard" \/ Streak[p] >= Persist
    <3> SUFFICES ASSUME run.health[p[1]].kind # "hard" PROVE Streak[p] >= Persist
      OBVIOUS
    <3>1. fails[p] + 1 >= Persist
      BY <2>4, <2>5, <2>6
    <3>2. n + 1 >= Persist
      <4>1. CASE fails[p] > 0
        BY <1>2, <1>3, <2>1, <4>1
      <4>2. CASE ~(fails[p] > 0)
        <5>1. Persist = 1
          BY <1>2, <1>3, <3>1, <4>2
        <5> QED
          BY <2>1, <5>1
      <4> QED
        BY <4>1, <4>2
    <3> QED
      BY <2>3, <3>2
  <2>7. ASSUME Failures(p) >= Persist PROVE Policy
    <3>1. CollectorAlert
      BY <1>4, <1>7, <2>6, <2>7 DEF CollectorAlert
    <3>2. ~Reconciling /\ Failing # {}
      BY <1>4, <1>7 DEF Reconciling
    <3> QED
      BY <3>1, <3>2 DEF Policy
  <2>8. Failures(p) \in Nat
    BY <1>3, <2>4, <2>5
  <2> QED
    BY <1>4, <1>7, <2>2, <2>3, <2>7, <2>8
<1> QED
  BY <1>5, <1>6, <1>7

\* Streaks are numbers.
LEMMA StreakIsCounted ==
    ASSUME SelectionInv, run.phase = "selected"
    PROVE  \A p \in DOMAIN Streak : Streak[p] \in Nat
<1>1. Sound(Prior)
  BY AtTheEnd
<1> TAKE p \in DOMAIN Streak
<1>2. p \in FailedAt \cup (DOMAIN Prior.streak \cap (Preserved \X CollectorStep))
        /\ Streak[p] = IF p \in FailedAt THEN Capped(Count(Prior, p) + 1) ELSE Prior.streak[p]
  BY DEF Streak
<1>3. Count(Prior, p) + 1 \in Nat
  BY <1>1 DEF Sound, Count
<1> QED
  BY <1>1, <1>2, <1>3, CappedIs DEF Sound

\* What a publication that takes place writes.
Lands ==
    /\ run.phase = "selected"
    /\ ~Expired(Restored, clock)
    /\ base' = Published
    /\ refused' = Clocks(Restored, refused, run.at)
    /\ fails' = [p \in Counted |-> Failures(p)]
    /\ run' = Idle /\ UNCHANGED clock

\* A publication is again a baseline the next run can build on.
LEMMA LandsKeeps == ASSUME SelectionInv, Lands PROVE SelectionInv'
<1>1. /\ Collected(run, base) /\ run.at <= clock
      /\ Laned(run, Prior) /\ Attested(run, base)
      /\ Sound(Prior) /\ Prior.at = base.at
  BY AtTheEnd DEF Lands
<1>2. base' = Published /\ clock' = clock /\ run' = Idle /\ run.phase = "selected"
  BY DEF Lands
<1>3. clock \in Nat /\ base.at \in Nat /\ base.at <= clock /\ run.at \in Nat /\ base.at <= run.at
  BY <1>1 DEF SelectionInv, PublishedInv, Sound, Collected
<1>4. Len(Had) \in Nat /\ Len(Had) \in Contract
  <2>1. Len(Had) \in Nat /\ Len(Had) >= 1
    BY SelectionAssumption
  <2> QED
    BY <2>1 DEF Contract
<1>5. Sound(Published)
  <2>1. Fallback(Published) \subseteq Degraded(Published) /\ Degraded(Published) \subseteq Surface
    BY <1>1, PublishedIs DEF Collected
  <2>2. \A s \in Degraded(Published) :
          Published.degradedSince[s] \in Nat /\ Published.degradedSince[s] <= clock
    BY <1>1, <1>3, PublishedIs DEF Sound
  <2>3. \A s \in Fallback(Published) :
          /\ Published.fallbackSince[s] \in Nat
          /\ Published.degradedSince[s] <= Published.fallbackSince[s]
    <3> TAKE s \in Fallback(Published)
    <3>1. /\ Published.degradedSince[s] =
               IF s \in Degraded(Prior) THEN Prior.degradedSince[s] ELSE run.at
          /\ Published.fallbackSince[s] =
               IF s \in Fallback(Prior) THEN Prior.fallbackSince[s] ELSE run.at
      BY <2>1, PublishedIs
    <3>2. s \in Fallback(Prior) => /\ s \in Degraded(Prior)
                                   /\ Prior.fallbackSince[s] \in Nat
                                   /\ Prior.degradedSince[s] <= Prior.fallbackSince[s]
      BY <1>1 DEF Sound
    <3>3. s \in Degraded(Prior) => /\ Prior.degradedSince[s] \in Nat
                                   /\ Prior.degradedSince[s] <= base.at
      BY <1>1 DEF Sound
    <3> QED
      BY <1>3, <3>1, <3>2, <3>3
  <2>4. \A s \in DOMAIN Published.streak : Published.streak[s] \in Nat
    BY <1>2, PublishedIs, StreakIsCounted
  <2>5. /\ DOMAIN Published = BaseFields
        /\ Published.contract = Len(Had) /\ Published.at = clock
    BY PublishedIs
  <2> QED
    BY <1>3, <1>4, <2>1, <2>2, <2>3, <2>4, <2>5 DEF Sound
<1>6. Reading(Published) = Published
  BY PublishedIs, ReadingCurrent
<1>7. Prior' = Published
  BY <1>2, <1>6 DEF Prior
<1>8. PublishedInv'
  <2>1. Published.manifest = [s \in Fallback(Published) |-> Published.content[s]]
    BY <1>1, PublishedIs DEF Attested
  <2>2. Published.contract = Len(Had) /\ Published.at = clock
    BY PublishedIs
  <2>3. Sound(base') = Sound(Published) /\ Fallback(base)' = Fallback(Published)
    BY <1>2
  <2> QED
    BY <1>2, <1>3, <1>4, <1>5, <2>1, <2>2, <2>3 DEF PublishedInv
<1>9. refused' = Published.fallbackSince
  BY <1>1, PublishedIs DEF Lands, SelectionInv, ClockInv, Attested, Restored
<1>10. HardLimit'
  <2>1. \A s \in Fallback(Published) : clock <= Published.fallbackSince[s] + MaxAge
    <3> TAKE s \in Fallback(Published)
    <3>1. s \in Restored /\ Since(Restored)[s] = Published.fallbackSince[s]
      BY <1>1, PublishedIs DEF Attested, Restored, Since
    <3>2. ~(clock > Since(Restored)[s] + MaxAge)
      BY <3>1 DEF Lands, Expired
    <3>3. Published.fallbackSince[s] \in Nat /\ MaxAge \in Nat
      BY <1>5, SelectionAssumption DEF Sound
    <3> QED
      BY <1>3, <3>1, <3>2, <3>3
  <2>2. base'.at = clock /\ Fallback(base)' = Fallback(Published)
    BY <1>2, PublishedIs
  <2> QED
    BY <1>9, <2>1, <2>2 DEF HardLimit
<1>11. StreakInv'
  <2> SUFFICES ASSUME NEW p \in Counted PROVE Failed(fails'[p], p, Prior')
    BY DEF StreakInv
  <2>1. fails'[p] = Failures(p)
    BY DEF Lands
  <2>2. /\ Failures(p) \in Nat
        /\ Failures(p) > 0 => /\ p[1] \in run.fresh \cup run.fallback
                              /\ p \in DOMAIN Streak /\ Streak[p] >= 1
        /\ Failures(p) >= Persist => Policy
    BY <1>2, FailuresKeep
  <2>3. /\ Degraded(Published) = run.fresh \cup run.fallback
        /\ Published.streak = Streak /\ Published.policy = Policy
    BY PublishedIs
  <2>4. Failed(Failures(p), p, Published)
    BY <2>2, <2>3 DEF Failed
  <2> QED
    BY <1>7, <2>1, <2>4
<1>12. RunInv'
  BY <1>2, IdleKeeps
<1> QED
  BY <1>7, <1>8, <1>9, <1>10, <1>11, <1>12 DEF SelectionInv, ClockInv

\* A publication changes the baseline, or the live audit refuses it.
LEMMA PublishIs ==
    ASSUME Publish
    PROVE  \/ Lands
           \/ UNCHANGED <<clock, base, refused, fails>> /\ run' = Idle
  BY DEF Publish, Lands, Failures, Counted

-----------------------------------------------------------------------------
\* The theorems.

\* It holds of a first baseline of any contract, with its clocks and its fallback.
THEOREM SelectionInitially == SelectionInit => SelectionInv
<1> SUFFICES ASSUME SelectionInit PROVE SelectionInv
  OBVIOUS
<1>1. PICK b \in Beginning : base = First(b)
  BY DEF SelectionInit
<1>2. /\ clock = 1 /\ run = Idle /\ refused = Prior.fallbackSince
      /\ fails = [p \in Counted |-> 0]
  BY DEF SelectionInit, Counted
<1>3. /\ b.contract \in Contract /\ b.fallback \subseteq DOMAIN b.degradedSince
      /\ DOMAIN b.degradedSince \subseteq Surface
      /\ \A s \in DOMAIN b.degradedSince : b.degradedSince[s] \in 0..1
  BY SelectionAssumption
<1>4. Contract \subseteq Nat
  BY DEF Contract
<1>5. /\ DOMAIN base = BaseFields /\ base.contract = b.contract /\ base.at = 1
      /\ base.content = [s \in Surface |-> [at |-> 0, weak |-> FALSE]]
      /\ base.degradedSince = b.degradedSince
      /\ base.fallbackSince = [s \in b.fallback |-> b.degradedSince[s]]
      /\ base.manifest = [s \in b.fallback |-> [at |-> 0, weak |-> FALSE]]
      /\ base.streak = <<>>
  BY <1>1 DEF First, BaseFields
<1>6. Sound(base)
  <2>1. Degraded(base) = DOMAIN b.degradedSince /\ Fallback(base) = b.fallback
    BY <1>5 DEF Degraded, Fallback
  <2>2. \A s \in Degraded(base) :
          base.degradedSince[s] \in Nat /\ base.degradedSince[s] <= base.at
    BY <1>3, <1>5, <2>1
  <2>3. \A s \in Fallback(base) :
          /\ base.fallbackSince[s] \in Nat
          /\ base.degradedSince[s] <= base.fallbackSince[s]
    BY <1>3, <1>5, <2>1
  <2>4. \A s \in DOMAIN base.streak : base.streak[s] \in Nat
    BY <1>5
  <2>5. Fallback(base) \subseteq Degraded(base) /\ Degraded(base) \subseteq Surface
    BY <1>3, <2>1
  <2>6. base.contract \in Nat /\ base.at \in Nat
    <3>1. b.contract \in Nat /\ base.contract = b.contract /\ base.at = 1
      BY <1>3, <1>4, <1>5, Zenon
    <3> QED
      BY <3>1
  <2> QED
    BY <1>5, <2>2, <2>3, <2>4, <2>5, <2>6 DEF Sound
<1>7. PublishedInv
  <2>1. \A s \in b.fallback : base.content[s] = [at |-> 0, weak |-> FALSE]
    BY <1>3, <1>5
  <2>2. base.manifest = [s \in Fallback(base) |-> base.content[s]]
    BY <1>5, <2>1 DEF Fallback
  <2> QED
    BY <1>2, <1>3, <1>5, <1>6, <2>2 DEF PublishedInv
<1>8. Sound(Prior)
  BY <1>3, <1>5, <1>6, ReadingSound DEF Prior
<1>9. HardLimit
  <2> SUFFICES ASSUME NEW s \in Fallback(base) \cap DOMAIN refused
               PROVE  base.at <= refused[s] + MaxAge
    BY DEF HardLimit
  <2>1. refused[s] \in Nat
    BY <1>2, <1>8 DEF Sound, Fallback
  <2>2. MaxAge \in Nat /\ MaxAge >= 1
    BY SelectionAssumption
  <2> QED
    BY <1>5, <2>1, <2>2
<1>10. StreakInv
  <2>1. Persist >= 1 /\ Persist \in Nat
    BY SelectionAssumption
  <2> QED
    BY <1>2, <2>1 DEF StreakInv, Failed
<1>11. RunInv
  <2>1. run.phase = "idle"
    BY <1>2 DEF Idle
  <2> QED
    BY <2>1 DEF RunInv
<1> QED
  BY <1>2, <1>7, <1>9, <1>10, <1>11 DEF SelectionInv, ClockInv

\* Every step keeps it; a step that touches neither the site nor a run trivially.
LEMMA SelectionKeeps == ASSUME SelectionInv, [SelectionNext]_selectionVars PROVE SelectionInv'
<1>1. ASSUME NEW kind \in Attempt, Start(kind) PROVE SelectionInv'
  BY <1>1, CollectKeeps
<1>2. CASE SourceAudit
  BY <1>2, SourceAuditKeeps
<1>3. CASE CandidateAudit \/ FinalAudit
  BY <1>3, AuditsKeep DEF CandidateAudit, FinalAudit
<1>4. CASE Publish
  BY <1>4, PublishIs, LandsKeeps, IdleKeeps, RunKeeps
<1>5. CASE RebuildFails
  BY <1>5, RebuildKeeps
<1>6. CASE Stop
  BY <1>6, IdleKeeps, RunKeeps DEF Stop
<1>7. CASE Tick
  <2>1. /\ clock' = clock + 1 /\ UNCHANGED <<base, run, refused, fails>>
    BY <1>7 DEF Tick
  <2>2. Prior' = Prior
    BY <2>1 DEF Prior
  <2>3. clock \in Nat /\ base.at \in Nat /\ base.at <= clock
    BY DEF SelectionInv, PublishedInv, Sound
  <2>4. PublishedInv'
    BY <2>1, <2>3 DEF SelectionInv, PublishedInv, Fallback, Degraded, Sound
  <2>5. ClockInv' /\ StreakInv'
    BY <2>1, <2>2 DEF SelectionInv, ClockInv, StreakInv, HardLimit, Fallback
  <2>6. RunInv'
    <3>1. Collected(run', base') = Collected(run, base)
            /\ Laned(run', Prior') = Laned(run, Prior)
            /\ Attested(run', base') = Attested(run, base)
      BY <2>1, <2>2
    <3>2. Collected(run, base) /\ run.at <= clock => run'.at <= clock'
      BY <2>1, <2>3 DEF Collected
    <3> QED
      BY <2>1, <3>1, <3>2 DEF SelectionInv, RunInv
  <2> QED
    BY <2>4, <2>5, <2>6 DEF SelectionInv
<1>8. ASSUME UNCHANGED <<clock, base, run, refused, fails>> PROVE SelectionInv'
  <2>1. Prior' = Prior
    BY <1>8 DEF Prior
  <2>2. RunInv'
    <3>1. Collected(run', base') = Collected(run, base)
            /\ Laned(run', Prior') = Laned(run, Prior)
            /\ Attested(run', base') = Attested(run, base)
      BY <1>8, <2>1
    <3> QED
      BY <1>8, <3>1 DEF SelectionInv, RunInv
  <2> QED
    BY <1>8, <2>2, RunKeeps
<1>9. ASSUME NEW s \in Surface, NEW to \in Health, Turn(s, to) PROVE SelectionInv'
  BY <1>8, <1>9 DEF Turn
<1>10. CASE UNCHANGED selectionVars
  BY <1>8, <1>10 DEF selectionVars
<1> QED
  BY <1>1, <1>2, <1>3, <1>4, <1>5, <1>6, <1>7, <1>9, <1>10 DEF SelectionNext, Step

\* The inductive invariant: the site can be read, its clocks are the first ones, its
\* streaks cover the failures, and a run has restored what its lanes say.
THEOREM SelectionInvariance == SelectionSpec => []SelectionInv
  BY SelectionInitially, SelectionKeeps, PTL DEF SelectionSpec

\* The baseline changes in a publication that takes place and in no other step.
LEMMA OnlyLands ==
    ASSUME [SelectionNext]_selectionVars, base' # base
    PROVE  Lands
  BY PublishIs DEF SelectionNext, selectionVars, Start, Step, SourceAudit, CandidateAudit,
     FinalAudit, RebuildFails, Stop, Tick, Turn

\* What is published can be read by the next run: the manifest attests exactly what
\* is restored, and no clock is missing, ahead of time or out of order.
THEOREM ReadableHolds == SelectionSpec => []Readable
<1>1. SelectionInv => Readable
  BY DEF SelectionInv, PublishedInv, Sound, Readable
<1> QED
  BY <1>1, SelectionInvariance, PTL

\* A surface is not published as last-known-good for longer than the limit after the
\* run that first restored it.
THEOREM HardLimitHolds == SelectionSpec => []HardLimit
<1>1. SelectionInv => HardLimit
  BY DEF SelectionInv, ClockInv
<1> QED
  BY <1>1, SelectionInvariance, PTL

\* What an audit blamed or a collector failed on is published as the baseline has it.
THEOREM QuarantinedHolds == SelectionSpec => Quarantined
<1>1. ASSUME SelectionInv, [SelectionNext]_selectionVars
      PROVE  [base' # base =>
                \A s \in run.errors \cup Failing : base'.content[s] = base.content[s]]_selectionVars
  <2> SUFFICES ASSUME base' # base, NEW s \in run.errors \cup Failing
               PROVE  base'.content[s] = base.content[s]
    OBVIOUS
  <2>1. Lands
    BY <1>1, OnlyLands
  <2>2. Laned(run, Prior) /\ Attested(run, base) /\ Failing = FailingOf(run)
    BY <1>1, <2>1, AtTheEnd DEF Lands
  <2>3. s \in run.restored
    BY <2>2 DEF Laned, Attested
  <2>4. base'.content = run.tree
    BY <2>1, PublishedIs DEF Lands
  <2> QED
    BY <2>2, <2>3, <2>4 DEF Attested
<1> QED
  BY <1>1, SelectionInvariance, PTL DEF SelectionSpec, Quarantined

\* A refresh of one surface leaves content, lanes, clocks and streaks of the others.
THEOREM RefreshOnlyHolds == SelectionSpec => RefreshOnly
<1> DEFINE Left(s) ==
       /\ base'.content[s] = base.content[s]
       /\ s \in Degraded(Prior) =>
             /\ s \in Degraded(base')
             /\ base'.degradedSince[s] = Prior.degradedSince[s]
             /\ \A e \in CollectorStep : Count(base', <<s, e>>) = Count(Prior, <<s, e>>)
       /\ s \in Fallback(Prior) =>
             /\ s \in Fallback(base')
             /\ base'.fallbackSince[s] = Prior.fallbackSince[s]
<1>1. ASSUME SelectionInv, [SelectionNext]_selectionVars
      PROVE  [base' # base /\ run.kind # Full =>
                \A s \in Surface \ {run.kind} : Left(s)]_selectionVars
  <2> SUFFICES ASSUME base' # base, run.kind # Full, NEW s \in Surface \ {run.kind}
               PROVE  Left(s)
    OBVIOUS
  <2>1. Lands /\ base' = Published
    BY <1>1, OnlyLands DEF Lands
  <2>2. /\ Collected(run, base) /\ Laned(run, Prior) /\ Sound(Prior)
        /\ Preserved = PreservedOf(run, Prior)
    BY <1>1, <2>1, AtTheEnd DEF Lands
  <2>3. s \notin Attempted(run.kind) /\ s \notin Failing
    BY DEF Attempted, Failing
  <2>4. base'.content[s] = base.content[s]
    BY <2>1, <2>2, <2>3, PublishedIs DEF Collected
  <2>5. ASSUME s \in Degraded(Prior)
        PROVE  /\ s \in Degraded(base')
               /\ base'.degradedSince[s] = Prior.degradedSince[s]
               /\ \A e \in CollectorStep : Count(base', <<s, e>>) = Count(Prior, <<s, e>>)
    <3>1. s \in Preserved
      BY <2>5 DEF Preserved
    <3>2. s \in Degraded(Published)
      BY <2>2, <3>1, PublishedIs DEF Laned
    <3>3. Published.degradedSince[s] = Prior.degradedSince[s]
      BY <2>5, <3>2, PublishedIs
    <3>5. ASSUME NEW e \in CollectorStep
          PROVE  Count(Published, <<s, e>>) = Count(Prior, <<s, e>>)
      <4>1. <<s, e>> \notin FailedAt /\ <<s, e>> \in Preserved \X CollectorStep
        BY <2>3, <3>1 DEF FailedAt
      <4>2. /\ <<s, e>> \in DOMAIN Streak <=> <<s, e>> \in DOMAIN Prior.streak
            /\ <<s, e>> \in DOMAIN Streak => Streak[<<s, e>>] = Prior.streak[<<s, e>>]
        BY <4>1 DEF Streak
      <4> QED
        BY <4>2, PublishedIs DEF Count
    <3> QED
      BY <2>1, <3>2, <3>3, <3>5
  <2>6. ASSUME s \in Fallback(Prior)
        PROVE  s \in Fallback(base') /\ base'.fallbackSince[s] = Prior.fallbackSince[s]
    <3>1. s \in Preserved
      BY <2>2, <2>6 DEF Preserved, Sound
    <3>2. s \in Fallback(Published)
      BY <2>2, <2>6, <3>1, PublishedIs DEF Laned
    <3>3. Published.fallbackSince[s] = Prior.fallbackSince[s]
      BY <2>6, <3>2, PublishedIs
    <3> QED
      BY <2>1, <3>2, <3>3
  <2> QED
    BY <2>4, <2>5, <2>6
<1> QED
  BY <1>1, SelectionInvariance, PTL DEF SelectionSpec, RefreshOnly

\* A publication without an alert has not raised the policy, unless nothing is
\* degraded.
LEMMA QuietIs ==
    ASSUME ~Alert, run.fresh \cup run.fallback # {}
    PROVE  ~Policy /\ (Reconciling \/ Found \subseteq Typed)
  BY DEF Alert, Unexpected

\* A publication without an alert degrades no surface that failed for good or twice in
\* a row at one step, and none of this run for another reason than a first failure of
\* a step or a retry.
THEOREM QuietOnceHolds == SelectionSpec => QuietOnce
<1> DEFINE Quiet(s) ==
       /\ \A e \in CollectorStep : fails'[<<s, e>>] < Persist
       /\ s \in Attempted(run.kind) => s \in Failing \cup (IF Retrying THEN Pair ELSE {})
<1>1. ASSUME SelectionInv, [SelectionNext]_selectionVars
      PROVE  [base' # base /\ ~base'.alert =>
                \A s \in Degraded(base') : Quiet(s)]_selectionVars
  <2> SUFFICES ASSUME base' # base, ~base'.alert, NEW s \in Degraded(base') PROVE Quiet(s)
    OBVIOUS
  <2>1. Lands /\ base' = Published /\ run.phase = "selected"
    BY <1>1, OnlyLands DEF Lands
  <2>2. /\ Collected(run, base) /\ Laned(run, Prior)
        /\ Failing = FailingOf(run) /\ Preserved = PreservedOf(run, Prior)
        /\ (IF Retrying THEN Pair ELSE {}) = RetriedOf(run)
    BY <1>1, <2>1, AtTheEnd
  <2>3. s \in run.fresh \cup run.fallback /\ s \in Surface /\ ~Alert
    BY <2>1, <2>2, PublishedIs DEF Collected
  <2>4. ~Policy /\ (Reconciling \/ Found \subseteq Typed)
    BY <2>3, QuietIs
  <2>5. ASSUME NEW e \in CollectorStep PROVE fails'[<<s, e>>] < Persist
    <3> DEFINE p == <<s, e>>
    <3>0. p \in Counted
      BY <2>3 DEF Counted
    <3> HIDE DEF p
    <3>1. fails'[p] = Failures(p)
      BY <2>1, <3>0 DEF Lands
    <3>2. Failures(p) \in Nat /\ ~(Failures(p) >= Persist)
      BY <1>1, <2>1, <2>4, <3>0, FailuresKeep
    <3>3. Persist \in Nat
      BY SelectionAssumption
    <3> QED
      BY <3>1, <3>2, <3>3 DEF p
  <2>6. ASSUME s \in Attempted(run.kind), s \notin Failing,
               s \notin (IF Retrying THEN Pair ELSE {})
        PROVE  FALSE
    <3>1. s \notin Preserved
      BY <2>6 DEF Attempted, Preserved
    <3>2. s \in Found
      BY <2>2, <2>3, <2>6, <3>1 DEF Laned, Found
    <3>3. CASE Reconciling
      BY <2>6, <3>2, <3>3 DEF Reconciling
    <3>4. CASE Found \subseteq Typed
      <4>1. PICK p \in DOMAIN Streak : p[1] = s
        BY <3>2, <3>4 DEF Typed
      <4>2. p[1] \in Failing \cup Preserved
        BY <4>1 DEF Streak, FailedAt
      <4> QED
        BY <2>6, <3>1, <4>1, <4>2
    <3> QED
      BY <2>4, <3>3, <3>4
  <2> QED
    BY <2>5, <2>6
<1> QED
  BY <1>1, SelectionInvariance, PTL DEF SelectionSpec, QuietOnce
=============================================================================
