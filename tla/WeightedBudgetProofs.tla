------------------------ MODULE WeightedBudgetProofs ------------------------
(***************************************************************************)
(* The weighted ledgers implement the weighted permit, and no day sees     *)
(* more than Cap request starts, for every set of jobs, every policy that  *)
(* load_policy accepts and every telemetry of the cutover.                 *)
(***************************************************************************)
EXTENDS WeightedBudget, FunctionTheorems, FiniteSetTheorems, TLAPS

\* A job that is to push may commit; one that has pushed is charged and has spent
\* nothing yet; one that collects has a charge for each kind it will ask for, and
\* has spent none that it has not done.
CommandInv(c, r) ==
    /\ IsFiniteSet(c.seen.rows) /\ c.clock <= now
    /\ c.pc \in {"push", "verify"} => c.seen.updated <= c.clock /\ MayCommit(c, r)
    /\ c.pc # "job" => c.done = {} /\ c.permit = {}
    /\ c.pc = "verify" =>
         /\ Reserved(c, r) \subseteq charged
         /\ \A s \in spent : s.row \notin Reserved(c, r)
    /\ c.pc = "job" =>
         /\ Collects(c) \subseteq c.permit
         /\ \A k \in c.permit : Reservation(r, k, c.clock) \in charged
         /\ \A k \in c.permit \ c.done : \A s \in spent :
              s.row # Reservation(r, k, c.clock)

\* Every reservation still in the window of the ledger is one of its rows, and none
\* is later than the ledger.
Remembered ==
    \A x \in charged : /\ x.at <= store.updated
                       /\ x.at > store.updated - Window => x \in store.rows

\* What the jobs reserved of the window that ends at time t.
ReservedIn(t) == {x \in charged : x.kind \in Kind /\ t - Window < x.at /\ x.at <= t}
RollingCap == \A t \in Nat : Starts(ReservedIn(t)) <= Cap

\* What was started was reserved, once, at most the time of a job before.
SpentInv ==
    /\ \A s \in spent : /\ s.row \in charged /\ s.row.kind \in Kind
                        /\ s.row.at <= s.at /\ s.at <= s.row.at + JobTimeout
                        /\ s.starts = s.row.starts
    /\ \A s, z \in spent : s.row = z.row => s = z

IInv ==
    /\ TypeOK
    /\ IsFiniteSet(store.rows) /\ IsFiniteSet(charged)
    /\ \A r \in Run : CommandInv(cmd[r], r)
    /\ Remembered /\ RollingCap /\ SpentInv
-----------------------------------------------------------------------------
\* The weight of a set of rows.

\* A finite set of rows has finitely many starts.
LEMMA UnitsFinite ==
    ASSUME NEW S, IsFiniteSet(S)
    PROVE  IsFiniteSet(Units(S)) /\ Starts(S) \in Nat
<1>1. IsFiniteSet(1..MaxStarts)
  BY FS_Interval, PolicyAssumption
<1>2. IsFiniteSet(S \X (1..MaxStarts))
  BY <1>1, FS_Product
<1>3. Units(S) \in SUBSET (S \X (1..MaxStarts))
  BY DEF Units
<1>4. IsFiniteSet(Units(S))
  BY <1>2, <1>3, FS_Subset
<1> QED
  BY <1>4, FS_CardinalityType DEF Starts

\* Fewer rows have no more starts.
LEMMA StartsMonotone ==
    ASSUME NEW T, IsFiniteSet(T), NEW S \in SUBSET T
    PROVE  Starts(S) <= Starts(T) /\ Starts(S) \in Nat /\ Starts(T) \in Nat
<1>1. Units(S) \in SUBSET Units(T)
  BY DEF Units
<1>2. IsFiniteSet(Units(T)) /\ IsFiniteSet(S)
  BY UnitsFinite, FS_Subset
<1>3. Cardinality(Units(S)) <= Cardinality(Units(T))
  BY <1>1, <1>2, FS_Subset
<1> QED
  BY <1>2, <1>3, UnitsFinite DEF Starts

\* No reservation starts no request.
LEMMA NoStarts == Starts({}) = 0
<1>1. Units({}) = {}
  BY DEF Units
<1> QED
  BY <1>1, FS_EmptySet DEF Starts

\* The kinds of a reservation, and its rows.
LEMMA ReservedTyped ==
    ASSUME NEW r \in Run, NEW c \in Command
    PROVE  /\ Asked(c) \in SUBSET Kind /\ Asked(c) # {}
           /\ Reserved(c, r) \in SUBSET Row /\ IsFiniteSet(Reserved(c, r))
<1>1. Asked(c) \in SUBSET Kind /\ Asked(c) # {}
  BY DEF Asked, Kind
<1>2. \A k \in Kind : Reservation(r, k, c.clock) \in Row
  BY PolicyAssumption DEF Command, Reservation, Row
<1>3. Reserved(c, r) \in SUBSET Row
  BY <1>1, <1>2 DEF Reserved
<1>4. Reserved(c, r) \subseteq {Reservation(r, "metrics", c.clock),
                               Reservation(r, "details", c.clock),
                               Reservation(r, "scan", c.clock)}
  BY <1>1 DEF Reserved, Kind
<1>5. IsFiniteSet({Reservation(r, "metrics", c.clock)} \cup
                  {Reservation(r, "details", c.clock)} \cup
                  {Reservation(r, "scan", c.clock)})
  BY FS_Singleton, FS_Union
<1>6. Reserved(c, r) \in
        SUBSET ({Reservation(r, "metrics", c.clock)} \cup
                {Reservation(r, "details", c.clock)} \cup
                {Reservation(r, "scan", c.clock)})
  BY <1>4
<1>7. IsFiniteSet(Reserved(c, r))
  BY <1>5, <1>6, FS_Subset
<1> QED
  BY <1>1, <1>3, <1>7
-----------------------------------------------------------------------------
\* What a job that may push knows: it has the ledger of the branch, every charge
\* that its window still holds is one of its rows, and none is one it makes.
LEMMA PushKnows ==
    ASSUME IInv, NEW r \in Run, Push(r)
    PROVE  LET c == cmd[r]
           IN  /\ c \in Command /\ c.clock \in Nat /\ c.clock <= now
               /\ MayCommit(c, r) /\ c.seen = store
               /\ IsFiniteSet(Rows(c)) /\ Rows(c) \in SUBSET Row
               /\ \A x \in charged :
                    /\ x.at <= c.clock
                    /\ x.at > c.clock - Window => x \in Rows(c)
               /\ \A x \in charged : x \notin Reserved(c, r)
<1> DEFINE c == cmd[r]
<1>1. /\ c \in Command /\ c.clock \in Nat /\ store \in Ledger
      /\ charged \in SUBSET Row /\ now \in Nat /\ Window \in Nat \ {0}
  BY PolicyAssumption, DomainAssumption DEF IInv, TypeOK, Command
<1>2. /\ c.pc = "push" /\ store = c.seen /\ CommandInv(c, r)
  BY DEF Push, LeaseHolds, IInv
<1>3. /\ MayCommit(c, r) /\ store.updated <= c.clock /\ c.clock <= now
  BY <1>2 DEF CommandInv
<1>4. store.updated \in Int /\ IsFiniteSet(store.rows) /\ store.rows \in SUBSET Row
  BY <1>1 DEF IInv, Ledger, NoTime
<1>5. Rows(c) = {x \in store.rows : x.at > c.clock - Window}
  BY <1>2 DEF Rows, Active
<1>6. IsFiniteSet(Rows(c)) /\ Rows(c) \in SUBSET Row
  BY <1>4, <1>5, FS_Subset
<1>7. \A x \in charged : /\ x.at <= c.clock
                         /\ x.at > c.clock - Window => x \in Rows(c)
  <2> SUFFICES ASSUME NEW x \in charged
               PROVE  /\ x.at <= c.clock
                      /\ x.at > c.clock - Window => x \in Rows(c)
    OBVIOUS
  <2>1. /\ x.at <= store.updated
        /\ x.at > store.updated - Window => x \in store.rows
    BY DEF IInv, Remembered
  <2>2. x.at \in Nat
    BY <1>1 DEF Row
  <2>3. x.at <= c.clock
    BY <1>1, <1>3, <1>4, <2>1, <2>2
  <2>4. x.at > c.clock - Window => x.at > store.updated - Window
    BY <1>1, <1>3, <1>4, <2>2
  <2> QED
    BY <1>5, <2>1, <2>3, <2>4
<1>8. \A x \in charged : x \notin Reserved(c, r)
  <2> SUFFICES ASSUME NEW x \in charged, x \in Reserved(c, r)
               PROVE  FALSE
    OBVIOUS
  <2>1. x.id = r /\ x.kind \in Asked(c) /\ x.at = c.clock
    BY DEF Reserved, Reservation
  <2>2. x \in Rows(c)
    BY <1>1, <1>7, <2>1
  <2> QED
    BY <1>3, <2>1, <2>2 DEF MayCommit, FreshId
<1> QED
  BY <1>1, <1>2, <1>3, <1>6, <1>7, <1>8

-----------------------------------------------------------------------------
\* No ledger and no job.
THEOREM Initially == Init => IInv
<1> SUFFICES ASSUME Init PROVE IInv
  OBVIOUS
<1> USE DEF Init
<1>1. NoLedger \in Ledger /\ Idle \in Command
  BY DEF NoLedger, Ledger, Idle, Command, NoTime
<1>2. TypeOK
  BY <1>1, DomainAssumption DEF TypeOK
<1>3. IsFiniteSet({}) /\ NoLedger.rows = {} /\ Idle.seen = NoLedger
  BY FS_EmptySet DEF NoLedger, Idle
<1>4. \A r \in Run : CommandInv(cmd[r], r)
  <2> SUFFICES ASSUME NEW r \in Run
               PROVE  CommandInv(Idle, r)
    OBVIOUS
  <2>1. /\ Idle.pc = "idle" /\ Idle.clock = 0 /\ Idle.done = {} /\ Idle.permit = {}
    BY DEF Idle
  <2> QED
    BY <1>3, <2>1 DEF CommandInv
<1>5. RollingCap
  <2> SUFFICES ASSUME NEW t \in Nat
               PROVE  Starts(ReservedIn(t)) <= Cap
    BY DEF RollingCap
  <2>1. ReservedIn(t) = {}
    BY DEF ReservedIn
  <2>2. Starts(ReservedIn(t)) = 0
    BY <2>1, NoStarts
  <2> QED
    BY <2>2, PolicyAssumption
<1>6. Remembered /\ SpentInv
  BY DEF Remembered, SpentInv
<1> QED
  BY <1>2, <1>3, <1>4, <1>5, <1>6 DEF IInv

\* What a job decides depends on what it knows and on the tool alone.
LEMMA SameTool ==
    ASSUME NEW q \in Run, tool' = tool
    PROVE  /\ MayCommit(cmd[q], q)' = MayCommit(cmd'[q], q)
           /\ Reserved(cmd[q], q)' = Reserved(cmd'[q], q)
           /\ Collects(cmd[q])' = Collects(cmd'[q])
BY DEF MayCommit, Reserved, Asked, IntervalGated, CapacityGated, Draft, FreshId,
       Collects

\* A step of job r that leaves the ledger and the histories alone keeps the
\* invariant, if it keeps the part about r.
LEMMA QuietStep ==
    ASSUME IInv, NEW r \in Run, UNCHANGED <<tool, now, store, charged, spent>>,
           NEW d \in Command, cmd' = [cmd EXCEPT ![r] = d],
           scan' \in Nat \cup {NoTime}, CommandInv(d, r)
    PROVE  IInv'
<1>1. cmd \in [Run -> Command]
  BY DEF IInv, TypeOK
<1>2. TypeOK'
  BY <1>1 DEF IInv, TypeOK
<1>3. \A q \in Run : CommandInv(cmd'[q], q)
  <2> SUFFICES ASSUME NEW q \in Run
               PROVE  CommandInv(cmd'[q], q)
    OBVIOUS
  <2>1. CASE q = r
    BY <1>1, <2>1
  <2>2. CASE q # r
    <3>1. cmd'[q] = cmd[q]
      BY <1>1, <2>2
    <3> QED
      BY <3>1 DEF IInv
  <2> QED
    BY <2>1, <2>2
<1>4. \A q \in Run : CommandInv(cmd[q], q)'
  <2> SUFFICES ASSUME NEW q \in Run
               PROVE  CommandInv(cmd[q], q)'
    OBVIOUS
  <2>1. CommandInv(cmd'[q], q)
    BY <1>3
  <2>2. /\ MayCommit(cmd[q], q)' = MayCommit(cmd'[q], q)
        /\ Reserved(cmd[q], q)' = Reserved(cmd'[q], q)
        /\ Collects(cmd[q])' = Collects(cmd'[q])
    BY SameTool
  <2> QED
    BY <2>1, <2>2 DEF CommandInv
<1>5. (Remembered /\ SpentInv)'
  BY DEF IInv, Remembered, SpentInv
<1>6. RollingCap'
  BY DEF IInv, RollingCap, ReservedIn
<1>7. IsFiniteSet(store.rows)' /\ IsFiniteSet(charged)'
  BY DEF IInv
<1> QED
  BY <1>2, <1>4, <1>5, <1>6, <1>7 DEF IInv

\* The steps of a job that only change what it knows, and the scanner state.
LEMMA CommandKeeps ==
    ASSUME IInv, NEW r \in Run,
           Call(r) \/ Look(r) \/ Gate(r) \/ Decide(r) \/ Verify(r)
             \/ PublishScan(r) \/ End(r)
    PROVE  IInv'
<1> DEFINE c == cmd[r]
<1>1. /\ c \in Command /\ CommandInv(c, r) /\ now \in Nat /\ store \in Ledger
      /\ scan \in Nat \cup {NoTime} /\ IsFiniteSet(store.rows)
  BY DEF IInv, TypeOK
<1>2. Idle \in Command /\ CommandInv(Idle, r)
  <2>1. /\ Idle \in Command /\ IsFiniteSet(Idle.seen.rows) /\ Idle.clock = 0
        /\ Idle.pc = "idle" /\ Idle.done = {} /\ Idle.permit = {}
    BY FS_EmptySet DEF Idle, NoLedger, Ledger, Command, NoTime
  <2> QED
    BY <1>1, <2>1 DEF CommandInv
<1>3. CASE Call(r)
  <2> DEFINE d == [Idle EXCEPT !.pc = "look", !.clock = now, !.base = scan]
  <2>1. d \in Command
    BY <1>1, <1>2 DEF Command
  <2>2. /\ d.pc = "look" /\ d.clock = now /\ d.done = {} /\ d.permit = {}
        /\ d.seen.rows = {}
    BY DEF Idle, NoLedger
  <2>3. CommandInv(d, r)
    BY <1>1, <2>2, FS_EmptySet DEF CommandInv
  <2> HIDE DEF d
  <2>4. /\ cmd' = [cmd EXCEPT ![r] = d] /\ scan' \in Nat \cup {NoTime}
        /\ UNCHANGED <<tool, now, store, charged, spent>>
    BY <1>1, <1>3 DEF Call, d
  <2> QED
    BY <2>1, <2>3, <2>4, QuietStep
<1>4. CASE Look(r)
  <2> DEFINE d == [c EXCEPT !.pc = "fetch", !.seen = store]
  <2>1. d \in Command
    BY <1>1 DEF Command
  <2>2. /\ d.pc = "fetch" /\ d.clock = c.clock /\ d.done = c.done
        /\ d.permit = c.permit /\ d.seen = store /\ c.pc = "look"
    BY <1>1, <1>4 DEF Command, Look
  <2>3. CommandInv(d, r)
    BY <1>1, <2>2 DEF CommandInv
  <2>4. /\ cmd' = [cmd EXCEPT ![r] = d] /\ scan' \in Nat \cup {NoTime}
        /\ UNCHANGED <<tool, now, store, charged, spent>>
    BY <1>1, <1>4 DEF Look
  <2> HIDE DEF d
  <2> QED
    BY <2>1, <2>3, <2>4, QuietStep
<1>5. CASE Gate(r)
  <2> DEFINE d == [c EXCEPT !.pc = "job"]
  <2>1. d \in Command
    BY <1>1 DEF Command
  <2>2. /\ d.pc = "job" /\ d.clock = c.clock /\ d.done = c.done /\ d.base = c.base
        /\ d.permit = c.permit /\ d.seen = c.seen /\ c.pc = "fetch"
    BY <1>1, <1>5 DEF Command, Gate, Fetched
  <2>3. tool = "dns" /\ ~ScanDue(c.base, c.clock)
    BY <1>5 DEF Gate, IntervalGated
  <2>4. Collects(d) = {} /\ d.permit = {}
    BY <1>1, <2>2, <2>3 DEF Collects, CommandInv
  <2>5. CommandInv(d, r)
    BY <1>1, <2>2, <2>4 DEF CommandInv
  <2>6. /\ cmd' = [cmd EXCEPT ![r] = d] /\ scan' \in Nat \cup {NoTime}
        /\ UNCHANGED <<tool, now, store, charged, spent>>
    BY <1>1, <1>5 DEF Gate
  <2> HIDE DEF d
  <2> QED
    BY <2>1, <2>5, <2>6, QuietStep
<1>6. CASE Decide(r)
  <2> DEFINE d == [c EXCEPT !.pc = "push"]
  <2>1. d \in Command
    BY <1>1 DEF Command
  <2>2. /\ d.pc = "push" /\ d.clock = c.clock /\ d.done = c.done /\ d.base = c.base
        /\ d.permit = c.permit /\ d.seen = c.seen /\ c.pc = "fetch"
    BY <1>1, <1>6 DEF Command, Decide, Fetched
  <2>3. c.seen.updated <= c.clock /\ MayCommit(c, r)
    BY <1>6 DEF Decide, Fetched
  <2>4. MayCommit(d, r) = MayCommit(c, r)
    BY <2>2 DEF MayCommit, IntervalGated, CapacityGated, FreshId, Draft, Rows,
                Reserved, Asked
  <2>5. CommandInv(d, r)
    BY <1>1, <2>2, <2>3, <2>4 DEF CommandInv
  <2>6. /\ cmd' = [cmd EXCEPT ![r] = d] /\ scan' \in Nat \cup {NoTime}
        /\ UNCHANGED <<tool, now, store, charged, spent>>
    BY <1>1, <1>6 DEF Decide
  <2> HIDE DEF d
  <2> QED
    BY <2>1, <2>5, <2>6, QuietStep
<1>7. CASE Verify(r)
  <2> DEFINE d == [c EXCEPT !.pc = "job", !.permit = Asked(c)]
  <2>1. d \in Command
    BY <1>1, ReservedTyped DEF Command
  <2>2. /\ d.pc = "job" /\ d.clock = c.clock /\ d.done = c.done /\ d.base = c.base
        /\ d.permit = Asked(c) /\ d.seen = c.seen /\ c.pc = "verify"
    BY <1>1, <1>7 DEF Command, Verify
  <2>3. Collects(d) \subseteq Asked(c)
    <3>1. CASE tool = "queue"
      BY <2>2, <3>1 DEF Collects
    <3>2. CASE tool # "queue"
      <4>1. tool = "dns"
        BY <3>2 DEF IInv, TypeOK
      <4>2. Collects(d) \subseteq {"scan"}
        BY <3>2 DEF Collects
      <4> QED
        BY <4>1, <4>2 DEF Asked
    <3> QED
      BY <3>1, <3>2
  <2>4. \A k \in Asked(c) : Reservation(r, k, d.clock) \in Reserved(c, r)
    BY <2>2 DEF Reserved
  <2>5. /\ Reserved(c, r) \subseteq charged
        /\ \A s \in spent : s.row \notin Reserved(c, r)
    BY <1>1, <2>2 DEF CommandInv
  <2>6. CommandInv(d, r)
    BY <1>1, <2>2, <2>3, <2>4, <2>5 DEF CommandInv
  <2>7. /\ cmd' = [cmd EXCEPT ![r] = d] /\ scan' \in Nat \cup {NoTime}
        /\ UNCHANGED <<tool, now, store, charged, spent>>
    BY <1>1, <1>7 DEF Verify
  <2> HIDE DEF d
  <2> QED
    BY <2>1, <2>6, <2>7, QuietStep
<1>8. CASE PublishScan(r) \/ End(r)
  <2>1. /\ cmd' = [cmd EXCEPT ![r] = Idle] /\ scan' \in Nat \cup {NoTime}
        /\ UNCHANGED <<tool, now, store, charged, spent>>
    BY <1>1, <1>8 DEF PublishScan, End, Command
  <2> QED
    BY <1>2, <2>1, QuietStep
<1> QED
  BY <1>3, <1>4, <1>5, <1>6, <1>7, <1>8

\* Time passes.
LEMMA TickKeeps == IInv /\ Tick => IInv'
<1> SUFFICES ASSUME IInv, Tick PROVE IInv'
  OBVIOUS
<1>1. now \in 0..MaxTime /\ now' = now + 1 /\ now' \in 0..MaxTime
  BY DomainAssumption DEF IInv, TypeOK, Tick
<1>2. UNCHANGED <<tool, store, scan, cmd, charged, spent>>
  BY DEF Tick
<1>3. TypeOK'
  BY <1>1, <1>2 DEF IInv, TypeOK
<1>4. \A r \in Run : CommandInv(cmd[r], r)'
  <2> SUFFICES ASSUME NEW r \in Run
               PROVE  CommandInv(cmd[r], r)'
    OBVIOUS
  <2>1. CommandInv(cmd[r], r) /\ cmd[r] \in Command /\ cmd' = cmd
    BY <1>2 DEF IInv, TypeOK
  <2>2. cmd[r].clock <= now'
    BY <1>1, <2>1 DEF CommandInv, Command
  <2>3. /\ MayCommit(cmd[r], r)' = MayCommit(cmd[r], r)
        /\ Reserved(cmd[r], r)' = Reserved(cmd[r], r)
        /\ Collects(cmd[r])' = Collects(cmd[r])
    BY <1>2 DEF MayCommit, Reserved, Asked, IntervalGated, CapacityGated, Draft,
                FreshId, Collects
  <2> QED
    BY <1>2, <2>1, <2>2, <2>3 DEF CommandInv
<1>5. (Remembered /\ SpentInv /\ RollingCap)'
  BY <1>2 DEF IInv, Remembered, SpentInv, RollingCap, ReservedIn
<1> QED
  BY <1>2, <1>3, <1>4, <1>5 DEF IInv

\* The cutover: telemetry is no reservation of a job, and nothing was charged.
LEMMA InitializeKeeps ==
    ASSUME IInv, NEW t \in 0..MaxTime, NEW seeds \in SeedFile, Initialize(t, seeds)
    PROVE  IInv' /\ charged = {}
<1>1. /\ store = NoLedger /\ t <= now /\ store' = [updated |-> t,
         debt |-> Starts(seeds) > Cap, rows |-> seeds]
      /\ charged' = seeds
      /\ \A x \in seeds : x.at <= t
      /\ UNCHANGED <<tool, now, scan, cmd, spent>>
  BY DEF Initialize, ValidLedger
<1>2. /\ IsFiniteSet(seeds) /\ seeds \subseteq Row
      /\ \A x \in seeds : x.kind = "legacy_seed" /\ x.kind \notin Kind
  BY SeedAssumption DEF Kind
<1>3. charged = {}
  <2> SUFFICES ASSUME NEW x \in charged PROVE FALSE
    OBVIOUS
  <2>1. x.at \in Nat
    BY DEF IInv, TypeOK, Row
  <2>2. x.at <= NoTime
    BY <1>1 DEF IInv, Remembered, NoLedger
  <2> QED
    BY <2>1, <2>2 DEF NoTime
<1>4. spent = {}
  BY <1>3 DEF IInv, SpentInv
<1>5. store' \in Ledger /\ IsFiniteSet(store'.rows) /\ IsFiniteSet(charged')
  <2>1. t \in Nat
    BY DomainAssumption
  <2> QED
    BY <1>1, <1>2, <2>1 DEF Ledger
<1>6. TypeOK'
  BY <1>1, <1>2, <1>5 DEF IInv, TypeOK
<1>7. \A r \in Run : CommandInv(cmd[r], r)'
  <2> SUFFICES ASSUME NEW r \in Run
               PROVE  CommandInv(cmd[r], r)'
    OBVIOUS
  <2>1. CommandInv(cmd[r], r)
    BY DEF IInv
  <2>2. cmd[r].pc = "verify" => Reserved(cmd[r], r) = {}
    BY <1>3, <2>1 DEF CommandInv
  <2>3. cmd[r].pc = "job" => cmd[r].permit = {}
    BY <1>3, <2>1 DEF CommandInv
  <2>4. /\ MayCommit(cmd[r], r)' = MayCommit(cmd[r], r)
        /\ Reserved(cmd[r], r)' = Reserved(cmd[r], r)
        /\ Collects(cmd[r])' = Collects(cmd[r])
    BY <1>1 DEF MayCommit, Reserved, Asked, IntervalGated, CapacityGated, Draft,
                FreshId, Collects
  <2> QED
    BY <1>1, <2>1, <2>2, <2>3, <2>4 DEF CommandInv
<1>8. Remembered'
  BY <1>1 DEF Remembered
<1>9. RollingCap'
  <2> SUFFICES ASSUME NEW u \in Nat
               PROVE  Starts(ReservedIn(u)') <= Cap
    BY DEF RollingCap
  <2>1. ReservedIn(u)' = {}
    BY <1>1, <1>2 DEF ReservedIn
  <2>2. Starts(ReservedIn(u)') = 0
    BY <2>1, NoStarts
  <2> QED
    BY <2>2, PolicyAssumption
<1>10. SpentInv'
  BY <1>1, <1>4 DEF SpentInv
<1> QED
  BY <1>3, <1>5, <1>6, <1>7, <1>8, <1>9, <1>10 DEF IInv

\* A landed push: the one step that moves the ledger of a running budget.
LEMMA PushKeeps ==
    ASSUME IInv, NEW r \in Run, Push(r)
    PROVE  IInv'
<1> DEFINE c == cmd[r]
           d == [c EXCEPT !.pc = "verify"]
           new == Reserved(c, r)
<1>1. /\ c \in Command /\ c.clock \in Nat /\ c.clock <= now /\ now \in Nat
      /\ MayCommit(c, r) /\ IsFiniteSet(Rows(c)) /\ Rows(c) \in SUBSET Row
      /\ new \in SUBSET Row /\ IsFiniteSet(new) /\ Window \in Nat \ {0}
      /\ cmd \in [Run -> Command] /\ charged \in SUBSET Row /\ IsFiniteSet(charged)
  BY PushKnows, ReservedTyped, PolicyAssumption DEF IInv, TypeOK
<1>2. \A x \in charged : /\ x.at <= c.clock /\ x \notin new
                         /\ x.at > c.clock - Window => x \in Rows(c)
  BY PushKnows
<1>3. \A x \in new : x.at = c.clock /\ x.id = r
  BY DEF Reserved, Reservation
<1>4. /\ store' = Draft(c, r) /\ charged' = charged \cup new
      /\ cmd' = [cmd EXCEPT ![r] = d] /\ UNCHANGED <<tool, now, scan, spent>>
  BY <1>1 DEF Push
<1>5. /\ store'.updated = c.clock /\ store'.rows = Rows(c) \cup new
      /\ store' \in Ledger /\ IsFiniteSet(store'.rows) /\ IsFiniteSet(charged')
      /\ charged' \in SUBSET Row
  <2>1. IsFiniteSet(Rows(c) \cup new) /\ IsFiniteSet(charged \cup new)
    BY <1>1, FS_Union
  <2> HIDE DEF new
  <2>2. Draft(c, r) = [updated |-> c.clock, debt |-> FALSE,
                      rows |-> Rows(c) \cup new]
    BY DEF Draft, new
  <2> QED
    BY <1>1, <1>4, <2>1, <2>2 DEF Ledger
<1>6. d \in Command
  BY <1>1 DEF Command
<1>7. TypeOK'
  BY <1>1, <1>4, <1>5, <1>6 DEF IInv, TypeOK
<1>8. \A q \in Run : CommandInv(cmd[q], q)'
  <2> SUFFICES ASSUME NEW q \in Run
               PROVE  CommandInv(cmd[q], q)'
    OBVIOUS
  <2> DEFINE e == cmd'[q]
  <2>1. CASE q = r
    <3>1. e = d /\ e.pc = "verify" /\ e.clock = c.clock /\ e.done = c.done
          /\ e.permit = c.permit /\ e.seen = c.seen /\ e.base = c.base /\ c.pc = "push"
      BY <1>1, <1>4, <2>1 DEF Push, Command
    <3>2. CommandInv(c, r)
      BY DEF IInv
    <3> HIDE DEF d
    <3>3. /\ MayCommit(cmd[q], q)' = MayCommit(c, r)
          /\ Reserved(cmd[q], q)' = Reserved(c, r)
      BY <1>4, <2>1, <3>1 DEF MayCommit, Reserved, Asked, IntervalGated,
                              CapacityGated, Draft, FreshId, Rows
    <3>4. \A s \in spent : s.row \notin Reserved(c, r)
      BY <1>2 DEF IInv, SpentInv
    <3>5. c.seen.updated <= c.clock /\ IsFiniteSet(c.seen.rows)
          /\ c.done = {} /\ c.permit = {}
      BY <3>1, <3>2 DEF CommandInv
    <3> QED
      BY <1>1, <1>4, <3>1, <3>3, <3>4, <3>5 DEF CommandInv
  <2>2. CASE q # r
    <3>1. cmd'[q] = cmd[q]
      BY <1>1, <1>4, <2>2
    <3>2. CommandInv(cmd[q], q)
      BY DEF IInv
    <3>3. /\ MayCommit(cmd[q], q)' = MayCommit(cmd[q], q)
          /\ Reserved(cmd[q], q)' = Reserved(cmd[q], q)
          /\ Collects(cmd[q])' = Collects(cmd[q])
      BY <1>4, <3>1, SameTool
    <3>4. /\ charged \subseteq charged' /\ UNCHANGED <<now, spent>>
      BY <1>4
    <3> QED
      BY <3>1, <3>2, <3>3, <3>4 DEF CommandInv
  <2> QED
    BY <2>1, <2>2
<1>9. Remembered'
  <2> SUFFICES ASSUME NEW x \in charged'
               PROVE  /\ x.at <= c.clock
                      /\ x.at > c.clock - Window => x \in Rows(c) \cup new
    BY <1>5 DEF Remembered
  <2>1. CASE x \in charged
    BY <1>2, <2>1
  <2>2. CASE x \in new
    BY <1>1, <1>3, <2>2
  <2> QED
    BY <1>4, <2>1, <2>2
<1>10. RollingCap'
  <2> SUFFICES ASSUME NEW t \in Nat
               PROVE  Starts(ReservedIn(t)') <= Cap
    BY DEF RollingCap
  <2>1. CASE t < c.clock
    <3>1. ReservedIn(t)' = ReservedIn(t)
      BY <1>1, <1>3, <1>4, <2>1 DEF ReservedIn
    <3> QED
      BY <3>1 DEF IInv, RollingCap
  <2>2. CASE t >= c.clock
    <3>1. ReservedIn(t)' \in SUBSET (Rows(c) \cup new)
      <4> SUFFICES ASSUME NEW x \in ReservedIn(t)'
                   PROVE  x \in Rows(c) \cup new
        OBVIOUS
      <4>1. x \in charged' /\ t - Window < x.at
        BY DEF ReservedIn
      <4>2. x.at \in Nat
        BY <1>5, <4>1 DEF Row
      <4>3. x.at > c.clock - Window
        BY <1>1, <2>2, <4>1, <4>2
      <4> QED
        BY <1>2, <1>4, <4>1, <4>3
    <3>2. IsFiniteSet(Rows(c) \cup new)
      BY <1>1, FS_Union
    <3>3. ~(Starts(Rows(c) \cup new) > Cap)
      BY <1>1 DEF MayCommit, CapacityGated
    <3> HIDE DEF new
    <3>4. /\ Starts(ReservedIn(t)') <= Starts(Rows(c) \cup new)
          /\ Starts(ReservedIn(t)') \in Nat /\ Starts(Rows(c) \cup new) \in Nat
      BY <3>1, <3>2, StartsMonotone
    <3> QED
      BY <3>3, <3>4, PolicyAssumption
  <2> QED
    BY <1>1, <2>1, <2>2
<1>11. SpentInv'
  BY <1>4 DEF IInv, SpentInv
<1> QED
  BY <1>5, <1>7, <1>8, <1>9, <1>10, <1>11 DEF IInv

\* The requests of one reservation.
LEMMA SpendKeeps ==
    ASSUME IInv, NEW r \in Run, NEW k \in Kind, Spend(r, k)
    PROVE  IInv'
<1> DEFINE c == cmd[r]
           d == [c EXCEPT !.done = @ \cup {k}]
           row == Reservation(r, k, c.clock)
           new == [row |-> row, at |-> now, starts |-> Weight[k]]
<1>1. /\ c \in Command /\ CommandInv(c, r) /\ now \in Nat /\ c.clock \in Nat
      /\ cmd \in [Run -> Command] /\ JobTimeout \in Nat
  BY PolicyAssumption DEF IInv, TypeOK, Command
<1>2. /\ c.pc = "job" /\ k \in Collects(c) /\ k \notin c.done
      /\ now <= c.clock + JobTimeout
      /\ cmd' = [cmd EXCEPT ![r] = d] /\ spent' = spent \cup {new}
      /\ UNCHANGED <<tool, now, store, scan, charged>>
  BY <1>1 DEF Spend
<1>3. /\ k \in c.permit /\ row \in charged /\ c.clock <= now
      /\ \A s \in spent : s.row # row
  BY <1>1, <1>2 DEF CommandInv
<1>4. row.kind = k /\ row.at = c.clock /\ row.id = r /\ row.starts = Weight[k]
  BY DEF Reservation
<1>5. /\ new.row = row /\ new.at = now /\ new.starts = row.starts
      /\ new \in [row : Row, at : Nat, starts : 1..MaxStarts]
  <2>1. row \in Row /\ row.starts \in 1..MaxStarts
    BY <1>3 DEF IInv, TypeOK, Row
  <2> QED
    BY <1>1, <1>4, <2>1
<1>6. d \in Command
  BY <1>1 DEF Command
<1>7. TypeOK'
  <2> HIDE DEF d, new
  <2> QED
    BY <1>1, <1>2, <1>5, <1>6 DEF IInv, TypeOK
<1>8. SpentInv'
  <2> HIDE DEF new, row, d
  <2>1. \A s \in spent' : /\ s.row \in charged' /\ s.row.kind \in Kind
                          /\ s.row.at <= s.at /\ s.at <= s.row.at + JobTimeout
                          /\ s.starts = s.row.starts
    BY <1>2, <1>3, <1>4, <1>5 DEF IInv, SpentInv
  <2>2. \A s, z \in spent' : s.row = z.row => s = z
    BY <1>2, <1>3, <1>5 DEF IInv, SpentInv
  <2> QED
    BY <2>1, <2>2 DEF SpentInv
<1>9. \A q \in Run : CommandInv(cmd[q], q)'
  <2> SUFFICES ASSUME NEW q \in Run
               PROVE  CommandInv(cmd[q], q)'
    OBVIOUS
  <2>1. CASE q = r
    <3>1. /\ cmd'[q] = d /\ d.pc = "job" /\ d.clock = c.clock /\ d.base = c.base
          /\ d.done = c.done \cup {k} /\ d.permit = c.permit /\ d.seen = c.seen
      BY <1>1, <1>2, <2>1 DEF Command
    <3> HIDE DEF d
    <3>2. Collects(cmd[q])' = Collects(c)
      BY <1>2, <3>1 DEF Collects
    <3>3. \A j \in c.permit \ d.done : \A s \in spent' :
            s.row # Reservation(r, j, c.clock)
      <4> SUFFICES ASSUME NEW j \in c.permit \ d.done, NEW s \in spent'
                   PROVE  s.row # Reservation(r, j, c.clock)
        OBVIOUS
      <4>1. j \in c.permit \ c.done /\ j # k
        BY <3>1
      <4>2. CASE s \in spent
        BY <1>1, <1>2, <4>1, <4>2 DEF CommandInv
      <4>3. CASE s = new
        <5>1. s.row.kind = k
          BY <1>4, <4>3
        <5>2. Reservation(r, j, c.clock).kind = j
          BY DEF Reservation
        <5> QED
          BY <4>1, <5>1, <5>2
      <4> QED
        BY <1>2, <4>2, <4>3
    <3>4. /\ IsFiniteSet(c.seen.rows) /\ c.clock <= now /\ Collects(c) \subseteq c.permit
          /\ \A j \in c.permit : Reservation(r, j, c.clock) \in charged
      BY <1>1, <1>2 DEF CommandInv
    <3> HIDE DEF new
    <3> QED
      BY <1>2, <2>1, <3>1, <3>2, <3>3, <3>4 DEF CommandInv
  <2>2. CASE q # r
    <3>1. cmd'[q] = cmd[q]
      BY <1>1, <1>2, <2>2
    <3>2. CommandInv(cmd[q], q)
      BY DEF IInv
    <3>3. /\ MayCommit(cmd[q], q)' = MayCommit(cmd[q], q)
          /\ Reserved(cmd[q], q)' = Reserved(cmd[q], q)
          /\ Collects(cmd[q])' = Collects(cmd[q])
      BY <1>2, <3>1, SameTool
    <3>4. \A j \in Kind : new.row # Reservation(q, j, cmd[q].clock)
      BY <1>4, <2>2 DEF Reservation
    <3>5. new.row \notin Reserved(cmd[q], q)
      BY <1>4, <2>2 DEF Reserved, Reservation
    <3>6. cmd[q].permit \subseteq Kind
      BY <1>1 DEF Command
    <3> HIDE DEF new
    <3> QED
      BY <1>2, <3>1, <3>2, <3>3, <3>4, <3>5, <3>6 DEF CommandInv
  <2> QED
    BY <2>1, <2>2
<1>10. Remembered' /\ RollingCap'
  BY <1>2 DEF IInv, Remembered, RollingCap, ReservedIn
<1>11. IsFiniteSet(store.rows)' /\ IsFiniteSet(charged)'
  BY <1>2 DEF IInv
<1> QED
  BY <1>7, <1>8, <1>9, <1>10, <1>11 DEF IInv

-----------------------------------------------------------------------------
\* Every behaviour of the jobs keeps the invariant.
THEOREM Invariance == Spec => []IInv
<1>1. IInv /\ [Next]_vars => IInv'
  <2> SUFFICES ASSUME IInv, [Next]_vars PROVE IInv'
    OBVIOUS
  <2>1. CASE Tick
    BY <2>1, TickKeeps
  <2>2. ASSUME NEW t \in 0..MaxTime, NEW seeds \in SeedFile, Initialize(t, seeds)
        PROVE  IInv'
    BY <2>2, InitializeKeeps
  <2>3. ASSUME NEW r \in Run, RunStep(r)
        PROVE  IInv'
    BY <2>3, CommandKeeps, PushKeeps, SpendKeeps DEF RunStep
  <2>4. CASE UNCHANGED vars
    <3>1. UNCHANGED <<tool, now, store, scan, cmd, charged, spent>>
      BY <2>4 DEF vars
    <3>2. \A q \in Run : CommandInv(cmd[q], q)'
      <4> SUFFICES ASSUME NEW q \in Run
                   PROVE  CommandInv(cmd[q], q)'
        OBVIOUS
      <4>1. CommandInv(cmd[q], q) /\ cmd'[q] = cmd[q]
        BY <3>1 DEF IInv
      <4>2. /\ MayCommit(cmd[q], q)' = MayCommit(cmd[q], q)
            /\ Reserved(cmd[q], q)' = Reserved(cmd[q], q)
            /\ Collects(cmd[q])' = Collects(cmd[q])
        BY <3>1, <4>1, SameTool
      <4> QED
        BY <3>1, <4>1, <4>2 DEF CommandInv
    <3>3. (TypeOK /\ Remembered /\ RollingCap /\ SpentInv)'
      BY <3>1 DEF IInv, TypeOK, Remembered, RollingCap, SpentInv, ReservedIn
    <3> QED
      BY <3>1, <3>2, <3>3 DEF IInv
  <2> QED
    BY <2>1, <2>2, <2>3, <2>4 DEF Next
<1> QED
  BY <1>1, Initially, PTL DEF Spec

\* Type correctness.
THEOREM TypeCorrect == Spec => []TypeOK
<1>1. IInv => TypeOK
  BY DEF IInv
<1> QED
  BY <1>1, Invariance, PTL

-----------------------------------------------------------------------------
\* A landed push is a charge of the permit.
LEMMA PushCharges ==
    ASSUME IInv, NEW r \in Run, Push(r)
    PROVE  Permits!Charge(r, Asked(cmd[r]), cmd[r].clock)
<1> DEFINE c == cmd[r]
           t == c.clock
           kinds == Asked(c)
           window == {x \in charged : x.at > t - Window}
<1>1. /\ c \in Command /\ t \in Nat /\ MayCommit(c, r) /\ IsFiniteSet(Rows(c))
      /\ \A x \in charged : /\ x.at <= t
                            /\ x.at > t - Window => x \in Rows(c)
  BY PushKnows
<1>2. /\ kinds \in SUBSET Kind /\ kinds # {} /\ IsFiniteSet(Reserved(c, r))
  BY <1>1, ReservedTyped
<1>3. /\ charged \in SUBSET Row /\ Window \in Nat \ {0}
      /\ \A x \in charged : x.at \in Nat
      /\ \A k \in Kind : Interval[k] \in Nat /\ Interval[k] <= Window
  BY PolicyAssumption DEF IInv, TypeOK, Row
<1>4. \A x \in charged : x.kind \in kinds => x.at + Interval[x.kind] <= t
  <2> SUFFICES ASSUME NEW x \in charged, x.kind \in kinds
               PROVE  x.at + Interval[x.kind] <= t
    OBVIOUS
  <2>1. /\ x.kind \in Kind /\ Interval[x.kind] \in Nat /\ Interval[x.kind] <= Window
        /\ x.at \in Nat /\ x.at <= t
    BY <1>1, <1>2, <1>3
  <2>2. CASE x.at <= t - Window
    BY <1>1, <1>3, <2>1, <2>2
  <2>3. CASE x.at > t - Window /\ tool = "queue"
    <3>1. x.kind \in {"metrics", "details"} /\ ~IntervalGated(c)
      BY <1>1, <2>3 DEF Asked, MayCommit
    <3>2. Due(Rows(c), x.kind, t)
      BY <2>3, <3>1 DEF IntervalGated, Asked
    <3>3. x \in LastRows(Rows(c), x.kind)
      BY <1>1, <2>3 DEF LastRows
    <3>4. t - x.at >= Interval[x.kind]
      BY <3>2, <3>3 DEF Due
    <3> QED
      BY <1>1, <2>1, <3>4
  <2>4. CASE tool # "queue"
    <3>1. x.kind = "scan"
      BY <2>4 DEF Asked, IInv, TypeOK
    <3> QED
      BY <2>1, <3>1, PolicyAssumption
  <2> QED
    BY <1>1, <1>3, <2>1, <2>2, <2>3, <2>4
<1>5. \A x \in charged : x.id = r /\ x.kind \in kinds => x.at + Window <= t
  <2> SUFFICES ASSUME NEW x \in charged, x.id = r, x.kind \in kinds
               PROVE  x.at + Window <= t
    OBVIOUS
  <2>1. x \notin Rows(c)
    BY <1>1 DEF MayCommit, FreshId
  <2> QED
    BY <1>1, <1>3, <2>1
<1>6. Reserved(c, r) = Permits!Reservations(r, kinds, t)
  BY DEF Reserved, Reservation, Permits!Reservations
<1>7. Starts(window \cup Reserved(c, r)) <= Cap
  <2>1. window \cup Reserved(c, r) \in SUBSET (Rows(c) \cup Reserved(c, r))
    BY <1>1
  <2>2. IsFiniteSet(Rows(c) \cup Reserved(c, r))
    BY <1>1, <1>2, FS_Union
  <2>3. ~(Starts(Rows(c) \cup Reserved(c, r)) > Cap)
    BY <1>1 DEF MayCommit, CapacityGated
  <2> HIDE DEF window
  <2>4. /\ Starts(window \cup Reserved(c, r)) <= Starts(Rows(c) \cup Reserved(c, r))
        /\ Starts(window \cup Reserved(c, r)) \in Nat
        /\ Starts(Rows(c) \cup Reserved(c, r)) \in Nat
    BY <2>1, <2>2, StartsMonotone
  <2> QED
    BY <2>3, <2>4, PolicyAssumption
<1>8. \A S : Permits!Starts(S) = Starts(S)
  BY DEF Permits!Starts, Permits!Units, Permits!Cardinality, Starts, Units, Cardinality
<1>9. charged' = charged \cup Reserved(c, r)
  BY DEF Push
<1>10. Permits!Starts(window \cup Permits!Reservations(r, kinds, t)) <= Cap
  <2> HIDE DEF window, kinds
  <2> QED
    BY <1>6, <1>7, <1>8
<1>11. charged' = charged \cup Permits!Reservations(r, kinds, t)
  BY <1>6, <1>9
<1> QED
  BY <1>2, <1>4, <1>5, <1>10, <1>11 DEF Permits!Charge

\* The ledger keeps the promise of a permit that never forgets: every step of the
\* jobs is a charge of every kind asked for, the cutover, or no step of the permit.
THEOREM ImplementsPermit == Spec => PermitSpec
<1>1. Init => Permits!Init
  BY DEF Init, Permits!Init
<1>2. IInv /\ [Next]_vars => [Permits!Next]_charged
  <2> SUFFICES ASSUME IInv, [Next]_vars
               PROVE  Permits!Next \/ UNCHANGED charged
    BY DEF Permits!Next
  <2>1. ASSUME NEW t \in 0..MaxTime, NEW seeds \in SeedFile, Initialize(t, seeds)
        PROVE  Permits!Next
    <3>1. charged = {} /\ charged' = seeds
      BY <2>1, InitializeKeeps DEF Initialize
    <3> QED
      BY <3>1 DEF Permits!Next, Permits!Account
  <2>2. ASSUME NEW r \in Run, Push(r)
        PROVE  Permits!Next
    <3>1. Permits!Charge(r, Asked(cmd[r]), cmd[r].clock)
      BY <2>2, PushCharges
    <3>2. Asked(cmd[r]) \in SUBSET Kind /\ cmd[r].clock \in 0..MaxTime
      <4>1. /\ cmd[r] \in Command /\ cmd[r].clock \in Nat /\ cmd[r].clock <= now
        BY <2>2, PushKnows
      <4>2. now \in 0..MaxTime /\ MaxTime \in Nat
        BY DomainAssumption DEF IInv, TypeOK
      <4> QED
        BY <4>1, <4>2, ReservedTyped
    <3> QED
      BY <3>1, <3>2 DEF Permits!Next
  <2>3. ASSUME NEW r \in Run, RunStep(r), ~Push(r)
        PROVE  UNCHANGED charged
    BY <2>3 DEF RunStep, Call, Look, Gate, Decide, Verify, Spend, PublishScan, End
  <2>4. CASE Tick \/ UNCHANGED vars
    BY <2>4 DEF Tick, vars
  <2> QED
    BY <2>1, <2>2, <2>3, <2>4 DEF Next
<1> QED
  BY <1>1, <1>2, Invariance, PTL DEF Spec, PermitSpec, Permits!Spec

-----------------------------------------------------------------------------
\* The starts of a day are at most those of the reservations of a window.
LEMMA DayWithinWindow ==
    ASSUME IInv, NEW t \in Nat
    PROVE  Starts(SpentIn(t)) <= Starts(ReservedIn(t)) /\ Starts(SpentIn(t)) \in Nat
<1> DEFINE S == Units(SpentIn(t))
           T == Units(ReservedIn(t))
           f == [p \in S |-> <<p[1].row, p[2]>>]
<1>1. \A s \in SpentIn(t) : s.row \in ReservedIn(t) /\ s.starts = s.row.starts
  <2> SUFFICES ASSUME NEW s \in SpentIn(t)
               PROVE  s.row \in ReservedIn(t) /\ s.starts = s.row.starts
    OBVIOUS
  <2>1. /\ s \in spent /\ t - Day < s.at /\ s.at <= t
        /\ s.row \in charged /\ s.row.kind \in Kind
        /\ s.row.at <= s.at /\ s.at <= s.row.at + JobTimeout
        /\ s.starts = s.row.starts
    BY DEF SpentIn, IInv, SpentInv
  <2>2. /\ s.at \in Nat /\ s.row.at \in Nat /\ JobTimeout \in Nat /\ Day \in Nat
        /\ Window \in Nat /\ Day + JobTimeout <= Window
    BY <2>1, PolicyAssumption DEF IInv, TypeOK, Row
  <2>3. t - Window < s.row.at /\ s.row.at <= t
    BY <2>1, <2>2
  <2> QED
    BY <2>1, <2>3 DEF ReservedIn
<1>2. f \in Injection(S, T)
  <2>1. \A p \in S : f[p] \in T
    <3> SUFFICES ASSUME NEW p \in S PROVE f[p] \in T
      OBVIOUS
    <3>1. p[1] \in SpentIn(t) /\ p[2] \in 1..MaxStarts /\ p[2] <= p[1].starts
      BY DEF Units
    <3> QED
      BY <1>1, <3>1 DEF Units
  <2>2. \A p, q \in S : f[p] = f[q] => p = q
    <3> SUFFICES ASSUME NEW p \in S, NEW q \in S, f[p] = f[q] PROVE p = q
      OBVIOUS
    <3>1. /\ p = <<p[1], p[2]>> /\ q = <<q[1], q[2]>>
          /\ p[1] \in spent /\ q[1] \in spent
      BY DEF Units, SpentIn
    <3>2. p[1].row = q[1].row /\ p[2] = q[2]
      OBVIOUS
    <3>3. p[1] = q[1]
      BY <3>1, <3>2 DEF IInv, SpentInv
    <3> QED
      BY <3>1, <3>2, <3>3
  <2> QED
    BY <2>1, <2>2 DEF Injection, IsInjective
<1>3. IsFiniteSet(T)
  <2>1. IsFiniteSet(ReservedIn(t))
    <3>1. ReservedIn(t) \in SUBSET charged
      BY DEF ReservedIn
    <3> QED
      BY <3>1, FS_Subset DEF IInv
  <2> QED
    BY <2>1, UnitsFinite
<1>4. IsFiniteSet(S) /\ Cardinality(S) <= Cardinality(T)
  <2> HIDE DEF S, T, f
  <2> QED
    BY <1>2, <1>3, FS_Injection
<1> QED
  BY <1>4, FS_CardinalityType DEF Starts

\* No rolling day sees more than Cap request starts, whatever jobs overlap, fail or
\* lose the answers of their pushes.
THEOREM DailyStartsHolds == Spec => []DailyStarts
<1>1. IInv => DailyStarts
  <2> SUFFICES ASSUME IInv, NEW t \in 0..MaxTime
               PROVE  Starts(SpentIn(t)) <= Cap
    BY DEF DailyStarts
  <2>1. t \in Nat
    BY DomainAssumption
  <2>2. Starts(SpentIn(t)) <= Starts(ReservedIn(t)) /\ Starts(SpentIn(t)) \in Nat
    BY <2>1, DayWithinWindow
  <2>3. Starts(ReservedIn(t)) <= Cap
    BY <2>1 DEF IInv, RollingCap
  <2>4. Starts(ReservedIn(t)) \in Nat
    <3>1. ReservedIn(t) \in SUBSET charged
      BY DEF ReservedIn
    <3>2. IsFiniteSet(ReservedIn(t))
      BY <3>1, FS_Subset DEF IInv
    <3> QED
      BY <3>2, UnitsFinite
  <2> QED
    BY <2>2, <2>3, <2>4, PolicyAssumption
<1> QED
  BY <1>1, Invariance, PTL
=============================================================================
