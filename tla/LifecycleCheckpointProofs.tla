---------------------- MODULE LifecycleCheckpointProofs ---------------------
(***************************************************************************)
(* What a complete query has seen and what the ledger knows, for every set *)
(* of builds, every retention, lookback and overlap, every page size and   *)
(* any number of interrupted runs.                                         *)
(*                                                                         *)
(* AliveSeen speaks of a checkpoint without a pending unit.  Its invariant *)
(* says of every checkpoint, at any page and also while it waits in the    *)
(* cache, that what was not observed yet will still be asked for.          *)
(* FinishedKnown needs the same of the builds that finished before the     *)
(* horizon, that a checkpoint on its way to the ledger was started from    *)
(* that very ledger and ends after it, and that the days a ledger says it  *)
(* left builds out of are carried on while a query does not reach back.    *)
(***************************************************************************)
EXTENDS LifecycleCheckpoint, TLAPS

UnitSet == [cohort : Cohort, from : Int, to : Int, complete : BOOLEAN]

Checkpoint ==
    [base : Nat, start : Int, end : Nat, queues : Nat, units : SUBSET UnitSet,
     terminal : BOOLEAN, seen : SUBSET Build, done : SUBSET Build]

LedgerSet ==
    [generation : Nat, watermark : Nat \cup {Never}, full : Nat \cup {Never},
     done : SUBSET Build, omitted : SUBSET {Day(t) : t \in Int}]

Typed ==
    /\ now \in Nat /\ queues \in Nat
    /\ clock \in Nat /\ clock <= now
    /\ created \in [Build -> Nat \cup {Never}]
    /\ finished \in [Build -> Nat \cup {Never}]
    /\ ledger \in LedgerSet /\ base \in LedgerSet
    /\ cache \in Checkpoint \cup {NoCheckpoint}
    /\ wip \in Checkpoint \cup {NoCheckpoint}

\* A build is created and finishes in the past, in this order.
BuildInv(b) ==
    /\ created[b] <= now
    /\ finished[b] # Never => created[b] # Never /\ created[b] <= finished[b]

\* A unit of cohort k that is still asked for holds the builds created at time t.
Asked(c, k, t) ==
    \E u \in Pending(c) : u.cohort = k /\ u.from <= t /\ t < u.to

\* Of a build created at time made, inside the lookback of the query, that ends
\* at time ended or has not ended.  Alive at the horizon, it is seen or is still
\* asked for: a recent one in any state, an older one as finished and, until it
\* finishes, as active.
AliveKept(c, b, made, ended) ==
    ended = Never \/ ended >= c.end =>
        \/ b \in c.seen
        \/ made >= c.start /\ Asked(c, "recent_created", made)
        \/ /\ made < c.start /\ Asked(c, "older_finished", made)
           /\ ended = Never => Asked(c, "older_active", made)

\* Ended before the horizon, its end is recorded, or it is still asked for, or it
\* is old and ended before the query starts.
EndKept(c, b, made, ended) ==
    ended # Never /\ ended < c.end =>
        \/ b \in c.done
        \/ made >= c.start /\ Asked(c, "recent_created", made)
        \/ made < c.start /\ Asked(c, "older_finished", made)
        \/ made < c.start /\ ended < c.start

Kept(c, b, made, ended) ==
    made # Never /\ c.end - Lookback <= made /\ made < c.end =>
        AliveKept(c, b, made, ended) /\ EndKept(c, b, made, ended)

\* A checkpoint, wherever it is kept.  The one that starts from the present
\* ledger ends after it.
Sound(c) ==
    c # NoCheckpoint =>
        /\ c.end <= now /\ c.start <= c.end
        /\ \A b \in Build : Kept(c, b, created[b], finished[b])
        /\ c.base <= ledger.generation
        /\ c.base = ledger.generation => ledger.watermark <= c.end

\* What FinishedKnown says of one build and any ledger.
Known(l, b, made, ended) ==
    /\ l.watermark # Never
    /\ made # Never /\ l.watermark - Lookback <= made
    /\ ended # Never /\ ended < l.watermark
    /\ l.watermark - Retention <= ended
    => b \in l.done \/ Day(ended) \in l.omitted

Knows(l) == \A b \in Build : Known(l, b, created[b], finished[b])

\* The ledgers: each push makes a generation of its own.
LedgerInv ==
    /\ ledger.watermark <= now /\ Knows(ledger) /\ Knows(base)
    /\ base.watermark <= clock
    /\ base.generation <= ledger.generation
    /\ base.generation = ledger.generation => base = ledger

\* The checkpoint of the run in progress continues the query of its base.
Continues ==
    wip.base = base.generation /\ wip.start = QueryStart(base, wip.end)

RunInv ==
    /\ pc = "discover" => wip = NoCheckpoint \/ Continues
    /\ pc \in {"query", "ready"} => wip # NoCheckpoint /\ Continues
    /\ pc = "ready" => Complete(wip)

IInv ==
    /\ Typed
    /\ \A b \in Build : BuildInv(b)
    /\ Sound(cache) /\ Sound(wip)
    /\ LedgerInv
    /\ RunInv

-----------------------------------------------------------------------------
\* Lemmas about the operators of a checkpoint.

\* The time of what never happened comes before all times.
LEMMA NeverIsInt == Never \in Int /\ Never < 0
  BY DEF Never

\* A checkpoint is not the absence of one.
LEMMA CheckpointExists == \A c \in Checkpoint : c # NoCheckpoint
  BY DEF Checkpoint, NoCheckpoint, Never

\* Where a query starts: at the lookback, or no later than the last watermark.
LEMMA StartTyped ==
    ASSUME NEW l \in LedgerSet, NEW end \in Nat
    PROVE  /\ QueryStart(l, end) \in Int
           /\ l.watermark <= end => QueryStart(l, end) <= end
           /\ QueryStart(l, end) > end - Lookback =>
                l.watermark # Never /\ QueryStart(l, end) <= l.watermark
  BY LifecycleAssumption, NeverIsInt DEF QueryStart, Larger, IsFull, LedgerSet

\* A new query asks for everything.
LEMMA NewKept ==
    ASSUME NEW l \in LedgerSet, NEW end \in Nat, l.watermark <= end,
           queues \in Nat
    PROVE  /\ NewCheckpoint(l, end) \in Checkpoint
           /\ NewCheckpoint(l, end).base = l.generation
           /\ NewCheckpoint(l, end).end = end
           /\ NewCheckpoint(l, end).start = QueryStart(l, end)
           /\ QueryStart(l, end) <= end
           /\ \A b \in Build, made \in Int, ended \in Int :
                 Kept(NewCheckpoint(l, end), b, made, ended)
<1> DEFINE c == NewCheckpoint(l, end)
           start == QueryStart(l, end)
<1>1. start \in Int /\ start <= end /\ Lookback \in Nat
  BY StartTyped, LifecycleAssumption
<1>2. /\ c.base = l.generation /\ c.end = end /\ c.start = start
      /\ c.units = Roots(start, end)
  BY DEF NewCheckpoint
<1>3. Roots(start, end) \subseteq UnitSet
  <2>1. \A k \in Cohort, from, to \in Int : Unit(k, from, to) \in UnitSet
    BY DEF Unit, UnitSet
  <2>2. end - Lookback \in Int /\ end \in Int
    BY <1>1
  <2> QED
    BY <1>1, <2>1, <2>2 DEF Roots, Cohort
<1>4. c \in Checkpoint
  BY <1>1, <1>3 DEF NewCheckpoint, Checkpoint, LedgerSet
<1>5. ASSUME NEW t \in Int, end - Lookback <= t, t < end
      PROVE  IF t >= start THEN Asked(c, "recent_created", t)
             ELSE Asked(c, "older_active", t) /\ Asked(c, "older_finished", t)
  <2>1. CASE t >= start
    <3>1. Unit("recent_created", start, end) \in Pending(c)
      BY <1>2 DEF Pending, Roots, Unit
    <3> QED
      BY <1>5, <2>1, <3>1 DEF Asked, Unit
  <2>2. CASE ~(t >= start)
    <3>1. \A k \in {"older_active", "older_finished"} :
             Unit(k, end - Lookback, start) \in Pending(c)
      BY <1>1, <1>2, <1>5, <2>2 DEF Pending, Roots, Unit
    <3>2. \A k \in {"older_active", "older_finished"} : Asked(c, k, t)
      BY <1>1, <1>5, <2>2, <3>1 DEF Asked, Unit
    <3> QED
      BY <2>2, <3>2
  <2> QED
    BY <2>1, <2>2
<1>6. ASSUME NEW b \in Build, NEW made \in Int, NEW ended \in Int
      PROVE  Kept(c, b, made, ended)
  BY <1>1, <1>2, <1>5 DEF Kept, AliveKept, EndKept
<1>7. \A b \in Build, made \in Int, ended \in Int : Kept(c, b, made, ended)
  BY <1>6
<1> QED
  BY <1>1, <1>2, <1>4, <1>7
\* Another unit is still asked for when a unit is accepted.
LEMMA AcceptPending ==
    ASSUME NEW c \in Checkpoint, NEW u \in Pending(c), NEW rows
    PROVE  /\ Pending(Accept(c, u, rows)) = Pending(c) \ {u}
           /\ Accept(c, u, rows).seen = c.seen \cup rows
           /\ Accept(c, u, rows).done =
                c.done \cup {b \in rows : finished[b] # Never /\ finished[b] < c.end}
           /\ Accept(c, u, rows).start = c.start /\ Accept(c, u, rows).end = c.end
           /\ Accept(c, u, rows).base = c.base
<1>1. u \in UnitSet /\ ~u.complete
  BY DEF Pending, Checkpoint
<1>2. [u EXCEPT !.complete = TRUE].complete
  BY <1>1 DEF UnitSet
<1>3. Accept(c, u, rows).units = (c.units \ {u}) \cup {[u EXCEPT !.complete = TRUE]}
  BY DEF Accept, Checkpoint
<1>4. Pending(Accept(c, u, rows)) = Pending(c) \ {u}
  BY <1>2, <1>3 DEF Pending
<1> QED
  BY <1>4 DEF Accept, Checkpoint

\* A short page keeps what the query still owes.  Active builds are asked for
\* before finished ones, so that a build that finishes in between is found.
LEMMA AcceptKeeps ==
    ASSUME NEW c \in Checkpoint, c.start <= c.end, NEW u, FirstPending(c, u),
           NEW b \in Build, created[b] \in Int, finished[b] \in Int,
           Kept(c, b, created[b], finished[b])
    PROVE  Kept(Accept(c, u, Rows(c, u)), b, created[b], finished[b])
<1> DEFINE d == Accept(c, u, Rows(c, u))
           made == created[b]
           ended == finished[b]
<1> SUFFICES ASSUME made # Never, c.end - Lookback <= made, made < c.end
             PROVE  AliveKept(d, b, made, ended) /\ EndKept(d, b, made, ended)
  <2>1. d.end = c.end
    BY AcceptPending DEF FirstPending
  <2> QED
    BY <2>1 DEF Kept
<1>1. /\ u \in Pending(c) /\ u \in UnitSet /\ c.start \in Int /\ c.end \in Int
      /\ Pending(d) = Pending(c) \ {u}
      /\ d.seen = c.seen \cup Rows(c, u)
      /\ d.done = c.done \cup {x \in Rows(c, u) : finished[x] # Never /\ finished[x] < c.end}
      /\ d.start = c.start /\ d.end = c.end
  BY AcceptPending DEF FirstPending, Pending, Checkpoint
<1> DEFINE In == u.from <= made /\ made < u.to
<1>2. \A k : Asked(c, k, made) => Asked(d, k, made) \/ (In /\ u.cohort = k)
  BY <1>1 DEF Asked
<1>3. In /\ u.cohort = "recent_created" => b \in Rows(c, u)
  BY DEF Rows
<1>4. In /\ u.cohort = "older_finished" /\ ended # Never /\ ended >= c.start
        => b \in Rows(c, u)
  BY DEF Rows
<1>5. In /\ u.cohort = "older_active" /\ ended = Never => b \in Rows(c, u)
  BY DEF Rows
<1>6. u.cohort = "older_finished" => ~Asked(c, "older_active", made)
  <2>1. Rank["older_active"] < Rank["older_finished"]
    BY DEF Rank, Cohort
  <2>2. \A v \in Pending(c) : ~Before(v, u)
    BY DEF FirstPending
  <2> QED
    BY <2>1, <2>2 DEF Asked, Before
<1> HIDE DEF d, made, ended, In
<1>7. AliveKept(c, b, made, ended) /\ EndKept(c, b, made, ended)
  BY DEF Kept, made, ended
<1>8. AliveKept(d, b, made, ended)
  <2> SUFFICES ASSUME ended = Never \/ ended >= c.end, b \notin d.seen
               PROVE  \/ made >= c.start /\ Asked(d, "recent_created", made)
                      \/ /\ made < c.start /\ Asked(d, "older_finished", made)
                         /\ ended = Never => Asked(d, "older_active", made)
    BY <1>1 DEF AliveKept
  <2>1. b \notin c.seen /\ b \notin Rows(c, u)
    BY <1>1
  <2>2. CASE made >= c.start /\ Asked(c, "recent_created", made)
    BY <1>2, <1>3, <2>1, <2>2
  <2>3. CASE /\ made < c.start /\ Asked(c, "older_finished", made)
             /\ ended = Never => Asked(c, "older_active", made)
    <3>1. ended # Never => ended >= c.start
      BY <1>1 DEF ended
    <3>2. Asked(d, "older_finished", made)
      BY <1>2, <1>4, <1>6, <2>1, <2>3, <3>1
    <3>3. ended = Never => Asked(d, "older_active", made)
      BY <1>2, <1>5, <2>1, <2>3
    <3> QED
      BY <2>3, <3>2, <3>3
  <2> QED
    BY <1>7, <2>1, <2>2, <2>3 DEF AliveKept
<1>9. EndKept(d, b, made, ended)
  <2> SUFFICES ASSUME ended # Never, ended < c.end, b \notin d.done
               PROVE  \/ made >= c.start /\ Asked(d, "recent_created", made)
                      \/ made < c.start /\ Asked(d, "older_finished", made)
                      \/ made < c.start /\ ended < c.start
    BY <1>1 DEF EndKept
  <2>1. b \notin c.done /\ b \notin Rows(c, u)
    BY <1>1 DEF ended
  <2>2. ended \in Int
    BY DEF ended
  <2> QED
    BY <1>1, <1>2, <1>3, <1>4, <1>7, <2>1, <2>2 DEF EndKept
<1> QED
  BY <1>8, <1>9

\* A split unit is asked for in its halves.
LEMMA SplitKeeps ==
    ASSUME NEW c \in Checkpoint, NEW u \in Pending(c), NEW b \in Build,
           NEW made \in Int, NEW ended \in Int, Kept(c, b, made, ended)
    PROVE  Kept(Split(c, u), b, made, ended)
<1> DEFINE d == Split(c, u)
           mid == u.from + (u.to - u.from) \div 2
<1>1. u \in UnitSet /\ u.from \in Int /\ u.to \in Int /\ mid \in Int
  BY DEF Pending, Checkpoint, UnitSet
<1>2. /\ d.units = (c.units \ {u}) \cup Halves(u)
      /\ d.start = c.start /\ d.end = c.end /\ d.seen = c.seen /\ d.done = c.done
  BY DEF Split, Checkpoint
<1>3. Halves(u) = {Unit(u.cohort, u.from, mid), Unit(u.cohort, mid, u.to)}
  BY DEF Halves
<1> HIDE DEF d, mid
<1>4. Unit(u.cohort, u.from, mid) \in Pending(d) /\ Unit(u.cohort, mid, u.to) \in Pending(d)
  BY <1>2, <1>3 DEF Pending, Unit
<1>5. \A v \in Pending(c) : v # u => v \in Pending(d)
  BY <1>2 DEF Pending
<1>6. ASSUME NEW k, Asked(c, k, made) PROVE Asked(d, k, made)
  <2>1. PICK v \in Pending(c) : v.cohort = k /\ v.from <= made /\ made < v.to
    BY <1>6 DEF Asked
  <2>2. CASE v # u
    BY <1>5, <2>1, <2>2 DEF Asked
  <2>3. CASE v = u /\ made < mid
    BY <1>1, <1>4, <2>1, <2>3 DEF Asked, Unit
  <2>4. CASE v = u /\ ~(made < mid)
    BY <1>1, <1>4, <2>1, <2>4 DEF Asked, Unit
  <2> QED
    BY <2>2, <2>3, <2>4
<1> QED
  BY <1>2, <1>6 DEF Kept, AliveKept, EndKept, d

\* An accepted page, a split unit and a terminal mark leave a checkpoint.
LEMMA CheckpointSteps ==
    ASSUME NEW c \in Checkpoint, NEW u \in Pending(c)
    PROVE  /\ Accept(c, u, Rows(c, u)) \in Checkpoint
           /\ Split(c, u) \in Checkpoint
           /\ [c EXCEPT !.terminal = TRUE] \in Checkpoint
<1>1. /\ u \in UnitSet /\ u.cohort \in Cohort /\ u.from \in Int /\ u.to \in Int
      /\ u.from + (u.to - u.from) \div 2 \in Int
  BY DEF Pending, Checkpoint, UnitSet
<1>2. [u EXCEPT !.complete = TRUE] \in UnitSet
  BY <1>1 DEF UnitSet
<1>3. Halves(u) \subseteq UnitSet
  BY <1>1 DEF Halves, Unit, UnitSet
<1>4. c.units \subseteq UnitSet /\ Rows(c, u) \subseteq Build
  BY DEF Checkpoint, Rows
<1>5. Accept(c, u, Rows(c, u)) \in Checkpoint
  <2> DEFINE done == {b \in Rows(c, u) : finished[b] # Never /\ finished[b] < c.end}
  <2>1. done \subseteq Build
    BY <1>4
  <2>2. (c.units \ {u}) \cup {[u EXCEPT !.complete = TRUE]} \subseteq UnitSet
    BY <1>2, <1>4
  <2> QED
    BY <1>4, <2>1, <2>2 DEF Accept, Checkpoint
<1>6. Split(c, u) \in Checkpoint
  <2>1. (c.units \ {u}) \cup Halves(u) \subseteq UnitSet
    BY <1>3, <1>4
  <2> QED
    BY <2>1 DEF Split, Checkpoint
<1>7. [c EXCEPT !.terminal = TRUE] \in Checkpoint
  BY DEF Checkpoint
<1> QED
  BY <1>5, <1>6, <1>7

-----------------------------------------------------------------------------
\* The invariant, action by action.

\* No run, no checkpoint, nothing finished.
LEMMA Initially == Init => IInv
<1> SUFFICES ASSUME Init PROVE IInv
  OBVIOUS
<1>1. Lookback \in Nat /\ 0 \in Nat /\ {} \subseteq Build
  BY LifecycleAssumption
<1>2. ledger \in LedgerSet
  BY <1>1 DEF Init, LedgerSet
<1>3. Typed
  BY <1>1, <1>2 DEF Init, Typed
<1>4. \A b \in Build : BuildInv(b)
  BY <1>1 DEF Init, BuildInv, Never
<1>5. LedgerInv
  BY <1>1 DEF Init, LedgerInv, Knows, Known, Never
<1> QED
  BY <1>3, <1>4, <1>5 DEF Init, IInv, Sound, RunInv

\* A step that leaves the clock, the builds and the ledger alone.
LEMMA LocalStep ==
    ASSUME IInv, UNCHANGED <<now, builds, ledger>>,
           queues' \in Nat, clock' \in Nat, clock' <= now,
           cache' \in Checkpoint \cup {NoCheckpoint}, Sound(cache)',
           wip' \in Checkpoint \cup {NoCheckpoint}, Sound(wip)',
           \/ UNCHANGED <<base, clock>>
           \/ base' = ledger /\ clock' = now,
           RunInv'
    PROVE  IInv'
<1>1. Typed'
  BY DEF IInv, Typed, builds
<1>2. \A b \in Build : BuildInv(b)'
  BY DEF IInv, BuildInv, builds
<1>3. LedgerInv'
  <2>1. Knows(ledger)' /\ Knows(base)'
    BY DEF IInv, LedgerInv, Knows, builds
  <2>2. CASE UNCHANGED <<base, clock>>
    BY <2>1, <2>2 DEF IInv, LedgerInv
  <2>3. CASE base' = ledger /\ clock' = now
    BY <2>1, <2>3 DEF IInv, Typed, LedgerSet, LedgerInv
  <2> QED
    BY <2>2, <2>3
<1> QED
  BY <1>1, <1>2, <1>3 DEF IInv

\* What is sound stays so while the clock, the builds and the ledger stay.
LEMMA SoundStays ==
    ASSUME UNCHANGED <<now, builds, ledger>>
    PROVE  /\ Sound(cache) /\ cache' \in {cache, NoCheckpoint} => Sound(cache)'
           /\ Sound(wip) /\ wip' \in {wip, NoCheckpoint} => Sound(wip)'
           /\ Sound(cache) /\ wip' = cache => Sound(wip)'
           /\ Sound(wip) /\ cache' = wip => Sound(cache)'
  BY DEF Sound, builds

\* A run restores the ledger and the cache as they are.
LEMMA BeginKeeps == ASSUME IInv, Begin PROVE IInv'
<1>1. Sound(cache)' /\ Sound(wip)'
  BY SoundStays DEF Begin, IInv
<1>2. RunInv'
  BY DEF Begin, RunInv
<1> QED
  BY <1>1, <1>2, LocalStep DEF Begin, IInv, Typed

\* A checkpoint of another ledger is dropped; one that is kept continues its query.
LEMMA LoadKeeps == ASSUME IInv, Load PROVE IInv'
<1>1. Sound(cache)' /\ Sound(wip)'
  BY SoundStays DEF Load, IInv
<1>2. RunInv'
  BY DEF Load, Usable, RunInv, Continues, Complete
<1> QED
  BY <1>1, <1>2, LocalStep DEF Load, IInv, Typed

\* A run goes on with the restored checkpoint, or asks for everything anew.
LEMMA DiscoverKeeps == ASSUME IInv, Discover PROVE IInv'
<1>1. /\ UNCHANGED <<now, builds, ledger, base, clock, queues, cache>>
      /\ pc = "discover" /\ pc' = "query"
  BY DEF Discover
<1>2. /\ clock \in Nat /\ now \in Nat /\ clock <= now /\ queues \in Nat
      /\ base \in LedgerSet /\ base.watermark <= clock
      /\ base.generation <= ledger.generation
      /\ base.generation = ledger.generation => base = ledger
      /\ \A b \in Build : created[b] \in Int /\ finished[b] \in Int
  BY NeverIsInt DEF IInv, Typed, LedgerInv
<1> DEFINE c == NewCheckpoint(base, clock)
<1>3. /\ c \in Checkpoint /\ c.base = base.generation /\ c.end = clock
      /\ c.start = QueryStart(base, clock) /\ c.start <= clock
      /\ \A b \in Build : Kept(c, b, created[b], finished[b])
  BY <1>2, NewKept
<1> HIDE DEF c
<1>4. Sound(c)
  BY <1>2, <1>3 DEF Sound
<1>5. CASE wip' = c
  <2>1. Sound(wip)'
    BY <1>1, <1>4, <1>5 DEF Sound, builds
  <2>2. c # NoCheckpoint
    BY <1>3, CheckpointExists
  <2>3. RunInv'
    BY <1>1, <1>3, <1>5, <2>2 DEF RunInv, Continues
  <2> QED
    BY <1>1, <1>3, <1>5, <2>1, <2>3, SoundStays, LocalStep DEF IInv, Typed
<1>6. CASE wip' = wip /\ wip # NoCheckpoint
  <2>1. RunInv'
    BY <1>1, <1>6 DEF IInv, RunInv, Continues
  <2> QED
    BY <1>1, <1>6, <2>1, SoundStays, LocalStep DEF IInv, Typed
<1> QED
  BY <1>5, <1>6 DEF Discover, c

\* A short page observes all that its unit still asks for.
LEMMA ShortPageKeeps == ASSUME IInv, ShortPage PROVE IInv'
<1>1. /\ UNCHANGED <<now, builds, queues, ledger, base, clock, cache>>
      /\ pc = "query" /\ pc' \in {"ready", "query"}
      /\ pc' = "ready" => Complete(wip')
  BY DEF ShortPage
<1>2. PICK u \in wip.units : FirstPending(wip, u) /\ wip' = Accept(wip, u, Rows(wip, u))
  BY DEF ShortPage
<1>3. /\ wip \in Checkpoint /\ Continues /\ u \in Pending(wip)
      /\ wip.end <= now /\ wip.start <= wip.end
      /\ wip.base <= ledger.generation
      /\ wip.base = ledger.generation => ledger.watermark <= wip.end
      /\ \A b \in Build : Kept(wip, b, created[b], finished[b])
      /\ \A b \in Build : created[b] \in Int /\ finished[b] \in Int
  BY <1>1, <1>2, NeverIsInt DEF IInv, Typed, RunInv, Sound, FirstPending
<1>4. /\ wip' \in Checkpoint /\ wip' # NoCheckpoint
      /\ wip'.base = wip.base /\ wip'.start = wip.start /\ wip'.end = wip.end
  BY <1>2, <1>3, CheckpointSteps, CheckpointExists, AcceptPending
<1>5. \A b \in Build : Kept(wip', b, created[b], finished[b])
  BY <1>2, <1>3, AcceptKeeps
<1>6. Sound(wip)'
  BY <1>1, <1>3, <1>4, <1>5 DEF Sound, builds
<1>7. RunInv'
  BY <1>1, <1>3, <1>4 DEF RunInv, Continues
<1> QED
  BY <1>1, <1>4, <1>6, <1>7, SoundStays, LocalStep DEF IInv, Typed

\* The halves of a full unit ask for what the unit asked for.
LEMMA FullPageKeeps == ASSUME IInv, FullPage PROVE IInv'
<1>1. /\ UNCHANGED <<now, builds, queues, ledger, base, clock, cache>>
      /\ pc = "query" /\ pc' \in {"query", "save"}
  BY DEF FullPage
<1>2. PICK u \in wip.units :
        /\ FirstPending(wip, u)
        /\ wip' = Split(wip, u) \/ wip' = [wip EXCEPT !.terminal = TRUE]
  BY DEF FullPage
<1>3. /\ wip \in Checkpoint /\ Continues /\ u \in Pending(wip)
      /\ wip.end <= now /\ wip.start <= wip.end
      /\ wip.base <= ledger.generation
      /\ wip.base = ledger.generation => ledger.watermark <= wip.end
      /\ \A b \in Build : Kept(wip, b, created[b], finished[b])
      /\ \A b \in Build : created[b] \in Int /\ finished[b] \in Int
  BY <1>1, <1>2, NeverIsInt DEF IInv, Typed, RunInv, Sound, FirstPending
<1>4. /\ wip' \in Checkpoint /\ wip' # NoCheckpoint
      /\ wip'.base = wip.base /\ wip'.start = wip.start /\ wip'.end = wip.end
  <2>1. wip' \in Checkpoint /\ wip' # NoCheckpoint
    BY <1>2, <1>3, CheckpointSteps, CheckpointExists
  <2> QED
    BY <1>2, <1>3, <2>1 DEF Split, Checkpoint
<1>5. \A b \in Build : Kept(wip', b, created[b], finished[b])
  <2>1. CASE wip' = Split(wip, u)
    BY <1>3, <2>1, SplitKeeps
  <2>2. CASE wip' = [wip EXCEPT !.terminal = TRUE]
    <3>1. /\ wip'.units = wip.units /\ wip'.start = wip.start /\ wip'.end = wip.end
          /\ wip'.seen = wip.seen /\ wip'.done = wip.done
      BY <1>3, <2>2 DEF Checkpoint
    <3> QED
      BY <1>3, <3>1 DEF Kept, AliveKept, EndKept, Asked, Pending
  <2> QED
    BY <1>2, <2>1, <2>2
<1>6. Sound(wip)'
  BY <1>1, <1>3, <1>4, <1>5 DEF Sound, builds
<1>7. RunInv'
  BY <1>1, <1>3, <1>4 DEF RunInv, Continues
<1> QED
  BY <1>1, <1>4, <1>6, <1>7, SoundStays, LocalStep DEF IInv, Typed

\* A checkpoint at its byte limit is marked, and stays what it is.
LEMMA AtCapacityKeeps == ASSUME IInv, AtCapacity PROVE IInv'
<1>1. /\ UNCHANGED <<now, builds, queues, ledger, base, clock, cache>>
      /\ pc = "query" /\ pc' = "save" /\ wip' = [wip EXCEPT !.terminal = TRUE]
  BY DEF AtCapacity
<1>2. wip \in Checkpoint /\ wip # NoCheckpoint /\ Sound(wip)
  BY <1>1 DEF IInv, Typed, RunInv
<1>3. /\ wip' \in Checkpoint
      /\ wip'.units = wip.units /\ wip'.start = wip.start /\ wip'.end = wip.end
      /\ wip'.seen = wip.seen /\ wip'.done = wip.done /\ wip'.base = wip.base
  BY <1>1, <1>2 DEF Checkpoint
<1>4. \A b \in Build : Kept(wip', b, created[b], finished[b])
  BY <1>2, <1>3 DEF Sound, Kept, AliveKept, EndKept, Asked, Pending
<1>5. Sound(wip)'
  BY <1>1, <1>2, <1>3, <1>4 DEF Sound, builds
<1>6. RunInv'
  BY <1>1 DEF RunInv
<1> QED
  BY <1>1, <1>3, <1>5, <1>6, SoundStays, LocalStep DEF IInv, Typed

\* The run ends, in whatever way, or only its step changes.
LEMMA LeaveKeeps ==
    ASSUME IInv, Yield \/ Fail \/ Clear \/ Save \/ Kill \/ Evict \/ QueuesChange
    PROVE  IInv'
<1>1. UNCHANGED <<now, builds, ledger>> /\ queues' \in Nat
  BY DEF Yield, Fail, Clear, Save, Kill, Evict, QueuesChange, run, IInv, Typed
<1>2. /\ wip' \in {wip, NoCheckpoint}
      /\ cache' \in {cache, NoCheckpoint} \/ cache' = wip
      /\ UNCHANGED <<base, clock>> \/ (base' = ledger /\ clock' = now)
  BY DEF Yield, Fail, Clear, Save, Kill, Evict, QueuesChange, run, EndRun
<1>3. /\ clock' \in Nat /\ clock' <= now
      /\ cache' \in Checkpoint \cup {NoCheckpoint}
      /\ wip' \in Checkpoint \cup {NoCheckpoint}
  BY <1>2 DEF IInv, Typed
<1>4. Sound(cache)' /\ Sound(wip)'
  BY <1>1, <1>2, SoundStays DEF IInv
<1>5. RunInv'
  BY DEF Yield, Fail, Clear, Save, Kill, Evict, QueuesChange, run, EndRun,
         IInv, RunInv, Continues, Complete
<1> QED
  BY <1>1, <1>2, <1>3, <1>4, <1>5, LocalStep

-----------------------------------------------------------------------------
\* The clock and the builds.

\* A build is created at the horizon or after it: no query owes it.
LEMMA CreatedKept ==
    ASSUME NEW c \in Checkpoint, NEW b, NEW t \in Nat, c.end <= t, NEW ended
    PROVE  Kept(c, b, t, ended)
  BY DEF Kept, Checkpoint

\* A build that was alive finishes at the horizon or after it: it was alive there.
LEMMA FinishedKept ==
    ASSUME NEW c \in Checkpoint, NEW b, NEW made \in Int, NEW t \in Nat, c.end <= t,
           c.start <= c.end, Kept(c, b, made, Never)
    PROVE  Kept(c, b, made, t)
  BY NeverIsInt DEF Kept, AliveKept, EndKept, Checkpoint

\* Time passes, a build is created or finishes.
LEMMA WorldKeeps ==
    ASSUME IInv, Tick \/ \E b \in Build : BuildCreated(b) \/ BuildFinished(b)
    PROVE  IInv'
<1>1. /\ UNCHANGED <<queues, ledger, cache, pc, clock, base, wip>>
      /\ now \in Nat /\ now' \in Nat /\ now <= now'
      /\ clock \in Nat /\ clock <= now
      /\ ledger \in LedgerSet /\ base \in LedgerSet
  BY DEF Tick, BuildCreated, BuildFinished, run, builds, IInv, Typed
<1>2. ASSUME NEW b \in Build
      PROVE  /\ created[b] \in Nat \cup {Never} /\ finished[b] \in Nat \cup {Never}
             /\ \/ created'[b] = created[b] /\ finished'[b] = finished[b]
                \/ /\ created[b] = Never /\ created'[b] = now
                   /\ finished'[b] = finished[b] /\ finished[b] = Never
                \/ /\ created'[b] = created[b] /\ created[b] # Never
                   /\ finished[b] = Never /\ finished'[b] = now
  BY DEF Tick, BuildCreated, BuildFinished, run, builds, IInv, Typed, BuildInv
<1>3. Typed'
  BY <1>1 DEF IInv, Typed, Tick, BuildCreated, BuildFinished, builds
<1>4. \A b \in Build : BuildInv(b)'
  BY <1>1, <1>2, NeverIsInt DEF IInv, BuildInv
<1>5. ASSUME NEW c \in Checkpoint, c.end <= now, c.start <= c.end, NEW b \in Build,
             Kept(c, b, created[b], finished[b])
      PROVE  Kept(c, b, created'[b], finished'[b])
  BY <1>1, <1>2, <1>5, CreatedKept, FinishedKept, NeverIsInt
<1>6. ASSUME NEW l \in LedgerSet, l.watermark <= now, NEW b \in Build,
             Known(l, b, created[b], finished[b])
      PROVE  Known(l, b, created'[b], finished'[b])
  BY <1>1, <1>2, <1>6, NeverIsInt DEF Known, LedgerSet
<1>7. Sound(cache)' /\ Sound(wip)'
  BY <1>1, <1>5 DEF Sound, IInv, Typed, Checkpoint
<1>8. LedgerInv'
  <2>0. ledger.watermark \in Int /\ base.watermark \in Int
    BY <1>1, NeverIsInt DEF LedgerSet
  <2>1. ledger.watermark <= now /\ base.watermark <= now
    BY <1>1, <2>0 DEF IInv, LedgerInv
  <2>2. Knows(ledger)' /\ Knows(base)'
    BY <1>1, <1>6, <2>1 DEF IInv, LedgerInv, Knows
  <2> QED
    BY <1>1, <2>0, <2>1, <2>2 DEF IInv, LedgerInv
<1>9. RunInv'
  BY <1>1 DEF IInv, RunInv, Continues, Complete
<1> QED
  BY <1>3, <1>4, <1>7, <1>8, <1>9 DEF IInv
-----------------------------------------------------------------------------
\* The ledger.

\* The merged ledger, cut to its byte limits, knows what its query observed, and of
\* what ended before the query starts what the ledger it is merged into knew: the
\* query starts at most Overlap before the watermark of that one.  A build that is
\* left out leaves its day among those omitted, and a day omitted before stays
\* there, since a query that starts after the lookback is not a full one.
LEMMA PublishedKnown ==
    ASSUME NEW l \in LedgerSet, NEW c \in Checkpoint,
           c.start = QueryStart(l, c.end), l.watermark <= c.end, Complete(c),
           NEW kept \in SUBSET Merged(l, c),
           NEW b \in Build, created[b] \in Int, finished[b] \in Int, BuildInv(b),
           Kept(c, b, created[b], finished[b]),
           Known(l, b, created[b], finished[b])
    PROVE  Known(Published(l, c, kept), b, created[b], finished[b])
<1> DEFINE made == created[b]
           ended == finished[b]
           new == Published(l, c, kept)
<1>1. /\ new.watermark = c.end /\ new.done = kept /\ new.omitted = Omitted(l, c, kept)
      /\ Merged(l, c) = {x \in l.done \cup c.done : finished[x] >= c.end - Retention}
  BY DEF Published, Merged, Retained
<1>2. /\ c.end \in Int /\ c.start \in Int /\ l.watermark \in Int
      /\ l.watermark = Never \/ l.watermark \in Nat
      /\ Lookback \in Nat /\ Retention \in Nat
  BY LifecycleAssumption, NeverIsInt DEF Checkpoint, LedgerSet
<1> SUFFICES ASSUME /\ made # Never /\ c.end - Lookback <= made
                    /\ ended # Never /\ ended < c.end
                    /\ c.end - Retention <= ended
             PROVE  b \in kept \/ Day(ended) \in Omitted(l, c, kept)
  BY <1>1, <1>2 DEF Known, new
<1>3. made <= ended /\ made < c.end
  BY <1>2 DEF BuildInv
<1>4. \A k : ~Asked(c, k, made)
  BY DEF Asked, Pending, Complete
<1>5. b \in c.done \/ (made < c.start /\ ended < c.start)
  BY <1>3, <1>4 DEF Kept, EndKept
<1>6. ASSUME made < c.start, ended < c.start
      PROVE  ~IsFull(l, c.end) /\ (b \in l.done \/ Day(ended) \in l.omitted)
  <2>1. /\ l.watermark # Never /\ c.start <= l.watermark
    BY <1>2, <1>6, StartTyped DEF Checkpoint
  <2>2. ~IsFull(l, c.end)
    BY <1>2, <1>6 DEF QueryStart
  <2> QED
    BY <1>2, <1>6, <2>1, <2>2 DEF Known
<1>7. CASE b \in l.done \cup c.done
  <2>1. b \in Merged(l, c)
    BY <1>1, <1>7
  <2> QED
    BY <2>1 DEF Omitted
<1>8. CASE ~IsFull(l, c.end) /\ Day(ended) \in l.omitted
  <2>1. ended \in (c.end - Retention)..(c.end - 1)
    BY <1>2
  <2>2. Day(ended) \in Window(c.end)
    BY <2>1 DEF Window
  <2> QED
    BY <1>8, <2>2 DEF Omitted
<1> QED
  BY <1>5, <1>6, <1>7, <1>8

\* What fits is of the rows.
LEMMA FittingSubset == ASSUME NEW rows PROVE Fitting(rows) \subseteq SUBSET rows
  BY DEF Fitting

\* A pushed ledger is one.
LEMMA PublishedTyped ==
    ASSUME NEW l \in LedgerSet, NEW c \in Checkpoint,
           finished \in [Build -> Nat \cup {Never}],
           NEW kept \in SUBSET Merged(l, c)
    PROVE  /\ Published(l, c, kept) \in LedgerSet
           /\ Published(l, c, kept).generation = l.generation + 1
           /\ Published(l, c, kept).watermark = c.end
<1>1. Merged(l, c) \subseteq Build
  BY DEF Merged, Retained, LedgerSet, Checkpoint
<1>2. \A b \in Build : finished[b] \in Int
  BY NeverIsInt
<1>3. Omitted(l, c, kept) \subseteq {Day(t) : t \in Int}
  <2>1. {Day(finished[b]) : b \in Merged(l, c) \ kept} \subseteq {Day(t) : t \in Int}
    BY <1>1, <1>2
  <2>2. l.omitted \subseteq {Day(t) : t \in Int}
    BY DEF LedgerSet
  <2> QED
    BY <2>1, <2>2 DEF Omitted
<1>4. kept \in SUBSET Build /\ l.generation + 1 \in Nat
      /\ c.end \in Nat /\ l.full \in Nat \cup {Never}
  BY <1>1 DEF LedgerSet, Checkpoint
<1> QED
  BY <1>3, <1>4 DEF Published, LedgerSet

\* The push of a complete checkpoint, under its lease.
LEMMA PublishKnows ==
    ASSUME IInv, Publish, Leased
    PROVE  /\ base = ledger /\ wip \in Checkpoint /\ Complete(wip)
           /\ \E kept \in SUBSET Merged(ledger, wip) :
                 ledger' = Published(ledger, wip, kept)
           /\ ledger' \in LedgerSet
           /\ ledger'.generation = ledger.generation + 1
           /\ ledger'.watermark = wip.end
           /\ ledger.watermark <= wip.end /\ wip.end <= now
           /\ Knows(ledger)'
<1>1. /\ base = ledger /\ ledger \in LedgerSet /\ Knows(ledger)
      /\ UNCHANGED builds
  BY DEF Publish, Leased, IInv, Typed, LedgerInv
<1>2. PICK kept \in SUBSET Merged(ledger, wip) : ledger' = Published(ledger, wip, kept)
  BY <1>1, FittingSubset DEF Publish
<1>3. /\ wip \in Checkpoint /\ Complete(wip) /\ wip # NoCheckpoint
      /\ wip.base = ledger.generation /\ wip.start = QueryStart(ledger, wip.end)
  BY <1>1 DEF Publish, IInv, Typed, RunInv, Continues
<1>4. /\ wip.end <= now /\ ledger.watermark <= wip.end
      /\ \A b \in Build : Kept(wip, b, created[b], finished[b])
  BY <1>3 DEF IInv, Sound
<1>5. /\ ledger' \in LedgerSet /\ ledger'.generation = ledger.generation + 1
      /\ ledger'.watermark = wip.end
  BY <1>1, <1>2, <1>3, PublishedTyped DEF IInv, Typed
<1>6. \A b \in Build : /\ created[b] \in Int /\ finished[b] \in Int /\ BuildInv(b)
                       /\ Known(ledger, b, created[b], finished[b])
  BY <1>1, NeverIsInt DEF IInv, Typed, Knows
<1>7. \A b \in Build : Known(ledger', b, created[b], finished[b])
  BY <1>1, <1>2, <1>3, <1>4, <1>6, PublishedKnown
<1>8. Knows(ledger)'
  BY <1>1, <1>7 DEF Knows, builds
<1> QED
  BY <1>1, <1>2, <1>3, <1>4, <1>5, <1>8

\* A step that gives the ledger a new generation.
LEMMA PushedStep ==
    ASSUME IInv, UNCHANGED <<now, builds, queues, cache, clock, base, wip>>,
           ledger' \in LedgerSet, ledger'.generation = ledger.generation + 1,
           ledger'.watermark <= now, Knows(ledger)', RunInv'
    PROVE  IInv'
<1>1. ledger.generation \in Nat /\ base.generation \in Nat
      /\ base.generation <= ledger.generation
  BY DEF IInv, Typed, LedgerSet, LedgerInv
<1>2. Typed' /\ \A b \in Build : BuildInv(b)'
  BY DEF IInv, Typed, BuildInv, builds
<1>3. LedgerInv'
  <2>1. Knows(base)'
    BY DEF IInv, LedgerInv, Knows, builds
  <2> QED
    BY <1>1, <2>1 DEF IInv, LedgerInv
<1>4. ASSUME NEW c \in Checkpoint, c.base <= ledger.generation
      PROVE  c.base <= ledger'.generation /\ c.base # ledger'.generation
  BY <1>1, <1>4 DEF Checkpoint
<1>5. Sound(cache)' /\ Sound(wip)'
  BY <1>4 DEF IInv, Typed, Sound, builds
<1> QED
  BY <1>2, <1>3, <1>5 DEF IInv

\* A push merges a complete checkpoint into the ledger it started from.
LEMMA PublishKeeps == ASSUME IInv, Publish PROVE IInv'
<1>1. UNCHANGED <<now, builds, queues, cache, clock, base, wip>>
      /\ pc' \in {"clear", "save"}
  BY DEF Publish
<1>2. RunInv'
  BY <1>1 DEF RunInv
<1>3. CASE Leased
  BY <1>1, <1>2, <1>3, PublishKnows, PushedStep
<1>4. CASE ~Leased
  BY <1>1, <1>2, <1>4, SoundStays, LocalStep DEF Publish, IInv, Typed
<1> QED
  BY <1>3, <1>4

\* A push of another run makes a generation that no checkpoint starts from.
LEMMA ForeignPushKeeps == ASSUME IInv, ForeignPush PROVE IInv'
<1>1. /\ UNCHANGED <<now, builds, queues, cache, run>>
      /\ ledger' = [ledger EXCEPT !.generation = @ + 1] /\ ledger \in LedgerSet
  BY DEF ForeignPush, IInv, Typed
<1>2. /\ ledger' \in LedgerSet /\ ledger'.generation = ledger.generation + 1
      /\ ledger'.watermark = ledger.watermark /\ ledger'.done = ledger.done
      /\ ledger'.omitted = ledger.omitted
  BY <1>1 DEF LedgerSet
<1>3. Knows(ledger)'
  BY <1>1, <1>2 DEF IInv, LedgerInv, Knows, Known, builds
<1>4. RunInv'
  BY <1>1 DEF IInv, RunInv, Continues, Complete, run
<1> QED
  BY <1>1, <1>2, <1>3, <1>4, PushedStep DEF IInv, LedgerInv, run

\* Every step keeps the invariant.
LEMMA StepKeeps == IInv /\ [Next]_vars => IInv'
<1> SUFFICES ASSUME IInv, [Next]_vars PROVE IInv'
  OBVIOUS
<1>1. CASE UNCHANGED vars
  BY <1>1, SoundStays, LocalStep
     DEF vars, builds, run, IInv, Typed, RunInv, Continues, Complete
<1>2. CASE Next
  BY <1>2, BeginKeeps, LoadKeeps, DiscoverKeeps, ShortPageKeeps, FullPageKeeps,
     AtCapacityKeeps, PublishKeeps, LeaveKeeps, ForeignPushKeeps, WorldKeeps DEF Next, Step
<1> QED
  BY <1>1, <1>2

\* Every checkpoint, in a run or in the cache, is sound, and every ledger knows
\* what FinishedKnown says.
THEOREM Invariance == Spec => []IInv
  BY Initially, StepKeeps, PTL DEF Spec

\* When a query is complete nothing is pending: what was owed has been seen, though
\* builds were created and finished between its pages and its runs were killed.
THEOREM AliveSeenHolds == Spec => []AliveSeen
<1>1. IInv => AliveSeen
  <2> SUFFICES ASSUME IInv, pc = "ready", NEW b \in Build,
                      created[b] # Never,
                      wip.end - Lookback <= created[b], created[b] < wip.end,
                      finished[b] = Never \/ finished[b] >= wip.end
               PROVE  b \in wip.seen
    BY DEF AliveSeen
  <2>1. Complete(wip) /\ Kept(wip, b, created[b], finished[b])
    BY DEF IInv, RunInv, Sound
  <2>2. \A k : ~Asked(wip, k, created[b])
    BY <2>1 DEF Asked, Pending, Complete
  <2> QED
    BY <2>1, <2>2 DEF Kept, AliveKept
<1> QED
  BY <1>1, Invariance, PTL

\* The ledger knows every end before its watermark or names its day as incomplete,
\* across full and incremental queries, discarded checkpoints, foreign pushes and
\* ledgers cut to their byte limits.
THEOREM FinishedKnownHolds == Spec => []FinishedKnown
<1>1. IInv => FinishedKnown
  BY DEF IInv, LedgerInv, Knows, Known, FinishedKnown
<1> QED
  BY <1>1, Invariance, PTL

\* No push forgets an end inside the retention window without naming its day, calls
\* such a day complete without a full query, or moves the watermark back.
THEOREM MonotoneHolds == Spec => Monotone
<1> DEFINE Told == \A b \in Retained(ledger.done, ledger'.watermark) :
                      b \in ledger'.done \/ Day(finished[b]) \in ledger'.omitted
           Carried == \/ ledger.omitted \cap Window(ledger'.watermark)
                            \subseteq ledger'.omitted
                      \/ ledger'.full = ledger'.watermark
           Onward == Told /\ Carried /\ ledger.watermark <= ledger'.watermark
<1>1. ASSUME IInv, [Next]_vars, ledger' # ledger PROVE Onward
  <2>1. (Publish /\ Leased) \/ ForeignPush
    BY <1>1 DEF Next, vars, Step, Begin, Load, Discover, ShortPage, FullPage, Publish,
       Clear, Save, Yield, AtCapacity, Fail, Kill, Evict, QueuesChange, Tick,
       BuildCreated, BuildFinished
  <2>2. CASE Publish /\ Leased
    <3>1. PICK kept \in SUBSET Merged(ledger, wip) :
            ledger' = Published(ledger, wip, kept)
      BY <1>1, <2>2, PublishKnows
    <3>2. /\ ledger'.done = kept /\ ledger'.omitted = Omitted(ledger, wip, kept)
          /\ ledger'.watermark = wip.end
          /\ IsFull(ledger, wip.end) => ledger'.full = wip.end
      BY <3>1 DEF Published
    <3>3. Retained(ledger.done, wip.end) \subseteq Merged(ledger, wip)
      BY DEF Merged, Retained
    <3>4. Told
      BY <3>2, <3>3 DEF Omitted
    <3>5. Carried
      BY <3>2 DEF Omitted
    <3>6. ledger.watermark <= ledger'.watermark
      BY <1>1, <2>2, <3>2, PublishKnows
    <3> QED
      BY <3>4, <3>5, <3>6
  <2>3. CASE ForeignPush
    <3>1. /\ ledger'.watermark = ledger.watermark /\ ledger'.done = ledger.done
          /\ ledger'.omitted = ledger.omitted /\ ledger.watermark \in Int
      BY <1>1, <2>3, NeverIsInt DEF ForeignPush, IInv, Typed, LedgerSet
    <3> QED
      BY <3>1 DEF Retained
  <2> QED
    BY <2>1, <2>2, <2>3
<1>2. IInv /\ [Next]_vars => [ledger' # ledger => Onward]_vars
  BY <1>1
<1> QED
  BY <1>2, Invariance, PTL DEF Spec, Monotone
=============================================================================
