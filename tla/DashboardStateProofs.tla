------------------------ MODULE DashboardStateProofs ------------------------
(***************************************************************************)
(* Proofs about DashboardState, for every set of runs and state commits    *)
(* and any number of foreign writes and faults; then, about what the state *)
(* is published as, those about PublicationRecovery.                       *)
(***************************************************************************)
EXTENDS DashboardState, PublicationRecovery, TLAPS

\* What a run that holds a candidate, or has checked a slot, knows.
RunInv(r) ==
    /\ pc[r] = "rotate" =>
         candidate[r] \in Full /\ base[candidate[r]] = sawCurrent[r]
    /\ pc[r] = "promoted" => sawCurrent[r] \in Full
    /\ pc[r] \in {"build", "rotate"} =>
         \/ sawCurrent[r] \in Full
         \/ sawCurrent[r] = Absent /\ sawPrevious[r] = Absent /\ BootstrapAllowed

IInv ==
    /\ TypeOK
    /\ PairConsistent
    /\ \A r \in Run : RunInv(r)

-----------------------------------------------------------------------------
\* The refs, the leases and the history start in a consistent state.
THEOREM Initially == Init => IInv
<1> SUFFICES ASSUME Init PROVE IInv
  OBVIOUS
<1>1. TypeOK
  <2>1. base \in [Commit -> Slot]
    BY StateAssumption DEF Init, Slot
  <2>2. /\ pc \in [Run -> Steps]
        /\ sawCurrent \in [Run -> Slot] /\ sawPrevious \in [Run -> Slot]
        /\ candidate \in [Run -> Full \cup {Absent}]
    BY DEF Init, Slot, Steps
  <2>3. current \in Slot /\ previous \in Slot
    BY StateAssumption DEF Init, Slot
  <2>4. damage \in 0..MaxDamage /\ faults \in 0..MaxFault
    BY StateAssumption DEF Init
  <2>5. torn \in BOOLEAN
    BY DEF Init
  <2> QED
    BY <2>1, <2>2, <2>3, <2>4, <2>5 DEF TypeOK
<1>2. PairConsistent
  <2>1. CASE current = Absent
    BY <2>1, StateAssumption DEF Init, PairConsistent
  <2>2. CASE current \in Commit /\ current # previous
    BY <2>2, StateAssumption DEF Init, PairConsistent
  <2>3. CASE current = previous
    BY <2>3 DEF PairConsistent
  <2> QED
    BY <2>1, <2>2, <2>3, StateAssumption DEF Init
<1>3. \A r \in Run : RunInv(r)
  BY DEF RunInv, Init
<1> QED
  BY <1>1, <1>2, <1>3 DEF IInv

-----------------------------------------------------------------------------
\* A step that moves run s on, leaves the refs and base alone, and hands s what
\* its new step demands keeps the invariant.
LEMMA LocalStep ==
  ASSUME NEW s \in Run, NEW step \in Steps, NEW c \in Slot, NEW p \in Slot,
         NEW k \in Full \cup {Absent}, IInv,
         UNCHANGED <<refs, base, torn>>,
         damage' \in 0..MaxDamage, faults' \in 0..MaxFault,
         pc' = [pc EXCEPT ![s] = step],
         sawCurrent' = [sawCurrent EXCEPT ![s] = c],
         sawPrevious' = [sawPrevious EXCEPT ![s] = p],
         candidate' = [candidate EXCEPT ![s] = k],
         step = "rotate" => k \in Full /\ base[k] = c,
         step = "promoted" => c \in Full,
         step \in {"build", "rotate"} =>
           c \in Full \/ (c = Absent /\ p = Absent /\ BootstrapAllowed)
  PROVE  IInv'
<1>1. TypeOK'
  BY DEF IInv, TypeOK, refs
<1>2. PairConsistent'
  BY DEF IInv, PairConsistent, refs
<1>3. \A r \in Run : RunInv(r)'
  <2> TAKE r \in Run
  <2>1. CASE r = s
    BY <2>1 DEF IInv, TypeOK, RunInv
  <2>2. CASE r # s
    BY <2>2 DEF IInv, TypeOK, RunInv
  <2> QED
    BY <2>1, <2>2
<1> QED
  BY <1>1, <1>2, <1>3 DEF IInv

\* A push of an equal pair, or of a successor of the rollback slot, that moves
\* run s on keeps it as well.
LEMMA PushedStep ==
  ASSUME NEW s \in Run, NEW step \in Steps, NEW c \in Slot, NEW p \in Slot,
         NEW k \in Slot, NEW q \in Slot, IInv, PushBoth(s, c, p),
         c = p \/ (c \in Commit /\ p = base[c]),
         UNCHANGED <<candidate, base, damage, faults>>,
         pc' = [pc EXCEPT ![s] = step],
         sawCurrent' = [sawCurrent EXCEPT ![s] = k],
         sawPrevious' = [sawPrevious EXCEPT ![s] = q],
         step \notin {"build", "rotate"},
         step = "promoted" => k \in Full
  PROVE  IInv'
<1>1. TypeOK'
  BY DEF IInv, TypeOK, PushBoth
<1>2. PairConsistent'
  BY DEF IInv, PairConsistent, PushBoth
<1>3. \A r \in Run : RunInv(r)'
  <2> TAKE r \in Run
  <2>1. CASE r = s
    BY <2>1 DEF IInv, TypeOK, RunInv
  <2>2. CASE r # s
    BY <2>2 DEF IInv, TypeOK, RunInv
  <2> QED
    BY <2>1, <2>2
<1> QED
  BY <1>1, <1>2, <1>3 DEF IInv
\* Building makes a commit that is not on a ref and that no run holds.
LEMMA BuildKeeps ==
  ASSUME NEW s \in Run, IInv, Build(s)
  PROVE  IInv'
<1>1. PICK k \in Fresh : /\ candidate' = [candidate EXCEPT ![s] = k]
                         /\ base' = [base EXCEPT ![k] = sawCurrent[s]]
  BY DEF Build
<1>2. /\ k \in Full /\ k \in Commit /\ k # current /\ k # previous
      /\ \A r \in Run : k # candidate[r]
  BY StateAssumption DEF Fresh
<1>3. TypeOK'
  BY <1>1, <1>2 DEF Build, Go, Steps, refs, IInv, TypeOK
<1>4. PairConsistent'
  BY <1>1, <1>2 DEF Build, refs, IInv, TypeOK, PairConsistent
<1>5. \A r \in Run : RunInv(r)'
  <2> TAKE r \in Run
  <2>1. CASE r = s
    BY <1>1, <1>2, <2>1 DEF Build, Go, IInv, TypeOK, RunInv
  <2>2. CASE r # s
    <3>1. UNCHANGED <<pc[r], sawCurrent[r], sawPrevious[r], candidate[r]>>
      BY <1>1, <2>2 DEF Build, Go, IInv, TypeOK
    <3>2. base'[candidate[r]] = base[candidate[r]]
      BY <1>1, <1>2 DEF IInv, TypeOK
    <3> QED
      BY <3>1, <3>2 DEF IInv, RunInv
  <2> QED
    BY <2>1, <2>2
<1> QED
  BY <1>3, <1>4, <1>5 DEF IInv

-----------------------------------------------------------------------------
\* No step of a run, and nobody else's write, breaks the invariant.
LEMMA RunKeeps ==
  ASSUME NEW s \in Run, IInv, RunStep(s)
  PROVE  IInv'
<1> USE DEF Lease, Go, Steps
<1>0. /\ sawCurrent[s] \in Slot /\ sawPrevious[s] \in Slot
      /\ candidate[s] \in Full \cup {Absent}
      /\ sawCurrent = [sawCurrent EXCEPT ![s] = sawCurrent[s]]
      /\ sawPrevious = [sawPrevious EXCEPT ![s] = sawPrevious[s]]
      /\ candidate = [candidate EXCEPT ![s] = candidate[s]]
      /\ current \in Slot /\ previous \in Slot /\ Absent \in Slot
      /\ damage \in 0..MaxDamage /\ faults \in 0..MaxFault
  BY DEF IInv, TypeOK, Slot
<1>1. CASE ProbeCurrent(s)
  <2>1. candidate' = [candidate EXCEPT ![s] = candidate[s]]
    BY <1>0, <1>1 DEF ProbeCurrent
  <2> QED
    BY <1>0, <1>1, <2>1, LocalStep DEF ProbeCurrent
<1>2. CASE ProbePrevious(s)
  <2>1. CASE sawCurrent[s] = Absent /\ previous = Absent
    BY <1>0, <1>2, <2>1, LocalStep DEF ProbePrevious
  <2>2. CASE ~(sawCurrent[s] = Absent /\ previous = Absent)
    BY <1>0, <1>2, <2>2, LocalStep DEF ProbePrevious
  <2> QED
    BY <2>1, <2>2
<1>3. CASE RepairNothing(s)
  BY <1>0, <1>3, LocalStep DEF RepairNothing
<1>4. CASE RepairCopy(s)
  <2>1. Survivor(sawCurrent[s], sawPrevious[s]) \in Slot
    BY <1>0 DEF Survivor
  <2> QED
    BY <1>0, <1>4, <2>1, PushedStep DEF RepairCopy
<1>5. CASE RepairVerified(s, "repaired", "validate")
  BY <1>0, <1>5, LocalStep DEF RepairVerified
<1>6. CASE Restore(s)
  BY <1>0, <1>6, LocalStep DEF Restore
<1>7. CASE Promote(s)
  BY <1>0, <1>7, PushedStep DEF Promote
<1>8. CASE RepairVerified(s, "promoted", "build")
  <2>1. sawCurrent[s] \in Full
    BY <1>8 DEF RepairVerified, IInv, RunInv
  <2> QED
    BY <1>0, <1>8, <2>1, LocalStep DEF RepairVerified
<1>9. CASE Build(s)
  BY <1>0, <1>9, BuildKeeps
<1>10. CASE Rotate(s)
  <2>1. candidate[s] \in Full /\ base[candidate[s]] = sawCurrent[s]
    BY <1>10 DEF Rotate, IInv, RunInv
  <2>2. candidate[s] \in Slot /\ candidate[s] \in Commit
    BY <2>1, StateAssumption DEF Slot
  <2>3. NewPrevious(sawCurrent[s], candidate[s]) \in Slot
    BY <1>0, <2>2 DEF NewPrevious
  <2> QED
    BY <1>0, <1>10, <2>1, <2>2, <2>3, PushedStep DEF Rotate, NewPrevious
<1>11. CASE RotateVerified(s) \/ Exit(s)
  BY <1>0, <1>11, LocalStep DEF RotateVerified, Exit, Forget
<1>12. CASE Decline(s)
  BY <1>0, <1>12, LocalStep DEF Decline
<1> QED
  BY <1>1, <1>2, <1>3, <1>4, <1>5, <1>6, <1>7, <1>8, <1>9, <1>10, <1>11, <1>12
  DEF RunStep

\* What a run knows stays true when somebody else writes a ref or a run fails.
LEMMA OthersKeep ==
  ASSUME IInv, Damage \/ \E r \in Run : Fault(r)
  PROVE  IInv'
<1>1. CASE Damage
  <2>1. damage' \in 0..MaxDamage
    BY <1>1, StateAssumption DEF Damage, IInv, TypeOK
  <2>2. TypeOK'
    BY <1>1, <2>1 DEF Damage, IInv, TypeOK
  <2>3. PairConsistent'
    BY <1>1 DEF Damage, PairConsistent
  <2>4. \A r \in Run : RunInv(r)'
    BY <1>1 DEF Damage, IInv, RunInv
  <2> QED
    BY <2>2, <2>3, <2>4 DEF IInv
<1>2. ASSUME NEW r \in Run, Fault(r) PROVE IInv'
  <2>1. faults' \in 0..MaxFault /\ damage \in 0..MaxDamage
    BY <1>2, StateAssumption DEF Fault, IInv, TypeOK
  <2> QED
    BY <1>2, <2>1, LocalStep DEF Fault, Forget, Lease, Go, Steps, Slot
<1> QED
  BY <1>1, <1>2

\* The inductive invariant of every behaviour.
THEOREM Invariance == Spec => []IInv
<1>1. IInv /\ [Next]_vars => IInv'
  <2> SUFFICES ASSUME IInv, [Next]_vars PROVE IInv'
    OBVIOUS
  <2>1. CASE Next
    BY <2>1, RunKeeps, OthersKeep DEF Next
  <2>2. CASE UNCHANGED vars
    BY <2>2 DEF vars, refs, IInv, TypeOK, PairConsistent, RunInv
  <2> QED
    BY <2>1, <2>2
<1> QED
  BY Initially, <1>1, PTL DEF Spec

\* Type correctness: a candidate is always a state that validated.
THEOREM TypeCorrect == Spec => []TypeOK
<1>1. IInv => TypeOK
  BY DEF IInv
<1> QED
  BY Invariance, <1>1, PTL

\* The program never leaves the two refs half moved.
THEOREM PairConsistentHolds == Spec => []PairConsistent
<1>1. IInv => PairConsistent
  BY DEF IInv
<1> QED
  BY Invariance, <1>1, PTL

\* Whatever is built continues a fully validated state.
THEOREM BuiltFromFullHolds == Spec => []BuiltFromFull
<1>1. IInv => BuiltFromFull
  BY DEF IInv, RunInv, BuiltFromFull
<1> QED
  BY Invariance, <1>1, PTL

-----------------------------------------------------------------------------
\* Which actions can move a run from "rotate" to "rotated".
LEMMA OnlyRotate ==
  ASSUME IInv, Next, NEW r \in Run, pc[r] = "rotate", pc'[r] = "rotated"
  PROVE  Rotate(r)
<1>1. pc \in [Run -> Steps]
  BY DEF IInv, TypeOK
<1>2. ~Damage /\ \A s \in Run : ~Fault(s)
  BY <1>1 DEF Damage, Fault, Forget, Go
<1>3. PICK s \in Run : RunStep(s)
  BY <1>2 DEF Next
<1>4. s = r
  BY <1>1, <1>3
  DEF RunStep, ProbeCurrent, ProbePrevious, RepairNothing, RepairCopy,
      RepairVerified, Restore, Promote, Build, Decline, Rotate, RotateVerified, Exit,
      Forget, Go
<1> QED
  BY <1>1, <1>3, <1>4
  DEF RunStep, ProbeCurrent, ProbePrevious, RepairNothing, RepairCopy,
      RepairVerified, Restore, Promote, Build, Decline, RotateVerified, Exit,
      Forget, Go

\* A rotation replaces the very state its candidate was built from.
THEOREM NoLostUpdateHolds == Spec => NoLostUpdate
<1>1. ASSUME IInv, [Next]_vars
      PROVE  [Rotates => IF current = Absent THEN base[current'] = Absent
                         ELSE base[current'] = current]_vars
  <2> SUFFICES ASSUME Next, NEW r \in Run, pc[r] = "rotate", pc'[r] = "rotated"
               PROVE  IF current = Absent THEN base[current'] = Absent
                      ELSE base[current'] = current
    BY <1>1 DEF Rotates
  <2>1. Rotate(r)
    BY <1>1, OnlyRotate
  <2>2. base[candidate[r]] = sawCurrent[r]
    BY <1>1 DEF IInv, RunInv
  <2>3. current' = candidate[r] /\ current = sawCurrent[r]
    BY <2>1 DEF Rotate, PushBoth, LeasesHold
  <2> QED
    BY <2>2, <2>3
<1> QED
  BY Invariance, <1>1, PTL DEF Spec, NoLostUpdate

\* A bootstrap rotation finds neither ref.
THEOREM BootstrapOnlyEmptyHolds == Spec => BootstrapOnlyEmpty
<1>1. ASSUME IInv, [Next]_vars
      PROVE  [Rotates /\ current = Absent => previous = Absent]_vars
  <2> SUFFICES ASSUME Next, current = Absent,
                      NEW r \in Run, pc[r] = "rotate", pc'[r] = "rotated"
               PROVE  previous = Absent
    BY <1>1 DEF Rotates
  <2>1. Rotate(r)
    BY <1>1, OnlyRotate
  <2> QED
    BY <2>1, StateAssumption DEF Rotate, MayRotate, PushBoth, LeasesHold
<1> QED
  BY Invariance, <1>1, PTL DEF Spec, BootstrapOnlyEmpty

\* Neither a repair on metadata, a promotion nor a rotation takes the last
\* fully valid state off the refs.
THEOREM FullSurvivesHolds == Spec => FullSurvives
<1>1. ASSUME IInv, [Next]_vars
      PROVE  [damage' = damage /\ {current, previous} \cap Full # {}
                => {current', previous'} \cap Full # {}]_vars
  <2> SUFFICES ASSUME Next, damage' = damage, {current, previous} \cap Full # {}
               PROVE  {current', previous'} \cap Full # {}
    BY <1>1
  <2>1. ~Damage
    BY <1>1 DEF Damage, IInv, TypeOK
  <2>2. CASE UNCHANGED refs
    BY <2>2 DEF refs
  <2>3. ASSUME NEW r \in Run, RepairCopy(r)
        PROVE  {current', previous'} \cap Full # {}
    <3>1. /\ current = sawCurrent[r] /\ previous = sawPrevious[r]
          /\ current' = Survivor(current, previous)
      BY <2>3 DEF RepairCopy, PushBoth, LeasesHold
    <3>2. (current \in Proven) # (previous \in Proven)
      BY <2>3, <3>1 DEF RepairCopy
    <3> QED
      BY <3>1, <3>2, StateAssumption DEF Survivor
  <2>4. ASSUME NEW r \in Run, Promote(r) \/ Rotate(r)
        PROVE  {current', previous'} \cap Full # {}
    BY <2>4 DEF Promote, Rotate, MayRotate, PushBoth
  <2>5. ASSUME NEW r \in Run, RunStep(r) \/ Fault(r),
               ~RepairCopy(r), ~Promote(r), ~Rotate(r)
        PROVE  UNCHANGED refs
    BY <2>5
    DEF RunStep, ProbeCurrent, ProbePrevious, RepairNothing, RepairVerified,
        Restore, Build, Decline, RotateVerified, Exit, Fault
  <2> QED
    BY <2>1, <2>2, <2>3, <2>4, <2>5 DEF Next
<1> QED
  BY Invariance, <1>1, PTL DEF Spec, FullSurvives

(***************************************************************************)
(* PublicationRecovery: the site never goes back to older queue data, for  *)
(* any number of runs, generations, failures and ages.  The state here is  *)
(* what its runs rotate into the refs above, and the site what they        *)
(* deploy; the model has variables of its own.                             *)
(*                                                                         *)
(* NeverOlder needs to know how old the state is beside the site, and what *)
(* the holder of the lease has built beside the state: it was not older    *)
(* when it was built, and nobody else writes the state before it does.     *)
(***************************************************************************)

SiteGenerations ==
    /\ durable \in Nat /\ state.queue \in Nat /\ pages.queue \in Nat
    /\ lease # Free => lease.queue \in Nat
    /\ lease # Free => "phase" \in DOMAIN lease

SiteOrdered ==
    /\ pages.queue <= state.queue /\ state.queue <= durable
    /\ lease # Free => state.queue <= lease.queue /\ lease.queue <= durable

SiteInv == SiteGenerations /\ SiteOrdered

\* At the beginning the site, the state and the branch agree.
LEMMA SiteInitially == RecoveryInit => SiteInv
  BY DEF RecoveryInit, SiteInv, SiteGenerations, SiteOrdered, Free

\* A dispatched run, and one that leaves, holds no new lease.
LEMMA SiteDispatchKeeps ==
    ASSUME NEW kind, NEW key, Dispatch(kind, key) PROVE lease' = lease
  BY DEF Dispatch

\* A run that ends at most frees the lease.
LEMMA SiteLeavesKeeps ==
    ASSUME NEW k, Leaves(k) PROVE lease' \in {lease, Free}
  BY DEF Leaves

\* Nothing that the invariant speaks of has changed, but the lease may be free.
LEMMA SiteUnmoved ==
    ASSUME SiteInv, UNCHANGED <<durable, state, pages>>, lease' \in {lease, Free}
    PROVE  SiteInv'
  BY DEF SiteInv, SiteGenerations, SiteOrdered

\* A holder collects no newer data than the branch has.
LEMMA SiteCollectKeeps ==
    ASSUME SiteInv, NEW k, Collect(k) PROVE SiteInv'
<1>1. UNCHANGED <<durable, state, pages>>
  BY DEF Collect
<1>2. \E q \in {durable, state.queue}, a \in BOOLEAN : Holds(k, q, a)
  BY DEF Collect, QueueData
<1>3. PICK q \in {durable, state.queue}, a \in BOOLEAN :
        lease' = [by |-> k, phase |-> "built", queue |-> q, affected |-> a]
  BY <1>2 DEF Holds
<1>4. lease'.queue = q /\ "phase" \in DOMAIN lease'
  BY <1>3
<1>5. state.queue <= q /\ q <= durable /\ q \in Nat
  BY DEF SiteInv, SiteGenerations, SiteOrdered
<1> QED
  BY <1>1, <1>4, <1>5 DEF SiteInv, SiteGenerations, SiteOrdered

\* The state becomes what the holder built, which is not older.
LEMMA SiteRotateKeeps ==
    ASSUME SiteInv, NEW k \in Kind, RotateState(k) PROVE SiteInv'
<1>1. lease # Free
  BY DEF RotateState, Free, Kind
<1>2. state'.queue = lease.queue /\ pages'.queue = pages.queue /\ durable' = durable
  BY DEF RotateState
<1>3. lease' # Free /\ lease'.queue = lease.queue /\ "phase" \in DOMAIN lease'
  BY <1>1 DEF RotateState, SiteInv, SiteGenerations, Free
<1> QED
  BY <1>1, <1>2, <1>3 DEF SiteInv, SiteGenerations, SiteOrdered

\* The site becomes what the state has.
LEMMA SiteDeployKeeps ==
    ASSUME SiteInv, NEW k, Deploy(k) PROVE SiteInv' /\ pages'.queue >= pages.queue
<1>1. pages'.queue = state.queue /\ UNCHANGED <<durable, state>>
  BY DEF Deploy
<1>2. lease' \in {lease, Free}
  BY SiteLeavesKeeps DEF Deploy, Ends
<1> QED
  BY <1>1, <1>2 DEF SiteInv, SiteGenerations, SiteOrdered

\* A run of the schedule brings all to what the branch has.
LEMMA SiteRoutineKeeps ==
    ASSUME SiteInv, Routine PROVE SiteInv' /\ pages'.queue >= pages.queue
<1>1. /\ state'.queue = durable /\ pages'.queue = durable /\ durable' = durable
      /\ lease' = Free
  BY DEF Routine, runs
<1> QED
  BY <1>1 DEF SiteInv, SiteGenerations, SiteOrdered

\* The branch advances and nothing else does.
LEMMA SiteNewGenerationKeeps ==
    ASSUME SiteInv, NewGeneration PROVE SiteInv'
<1>1. durable' \in Nat /\ durable' >= durable /\ UNCHANGED <<state, pages, lease>>
  BY DEF NewGeneration, runs, SiteInv, SiteGenerations
<1> QED
  BY <1>1 DEF SiteInv, SiteGenerations, SiteOrdered

\* No step of a run takes the site back.
LEMMA SiteRunStepKeeps ==
    ASSUME SiteInv, NEW k \in Kind, Progress(k)
    PROVE  SiteInv' /\ pages'.queue >= pages.queue
<1>1. CASE Begin(k)
  BY <1>1, SiteUnmoved DEF Begin, SiteInv, SiteGenerations
<1>2. CASE NotWanted(k)
  BY <1>2, SiteUnmoved DEF NotWanted, SiteInv, SiteGenerations
<1>3. CASE Collect(k)
  <2>1. SiteInv'
    BY <1>3, SiteCollectKeeps
  <2>2. pages' = pages
    BY <1>3 DEF Collect
  <2> QED
    BY <2>1, <2>2 DEF SiteInv, SiteGenerations
<1>4. CASE Gated(k)
  BY <1>4, SiteUnmoved, SiteLeavesKeeps DEF Gated, Ends, SiteInv, SiteGenerations
<1>5. CASE RotateState(k)
  <2>1. SiteInv'
    BY <1>5, SiteRotateKeeps
  <2>2. pages'.queue = pages.queue
    BY <1>5 DEF RotateState
  <2> QED
    BY <2>1, <2>2 DEF SiteInv, SiteGenerations
<1>6. CASE Deploy(k)
  BY <1>6, SiteDeployKeeps
<1> QED
  BY <1>1, <1>2, <1>3, <1>4, <1>5, <1>6 DEF Progress

\* Failures, planners and time leave the generations alone.
LEMMA SiteOthersKeep ==
    ASSUME SiteInv,
           \/ \E k \in Kind : Fail(k) \/ Orphan(k)
           \/ MonitorStep \/ MonitorLost \/ Watchdog
           \/ Mature \/ Expire \/ DamagePages \/ Tick
    PROVE  SiteInv' /\ pages'.queue >= pages.queue
<1>1. ASSUME NEW k \in Kind, Fail(k) PROVE SiteInv' /\ pages' = pages
  BY <1>1, SiteUnmoved, SiteLeavesKeeps DEF Fail
<1>2. ASSUME NEW k \in Kind, Orphan(k) PROVE SiteInv' /\ pages' = pages
  BY <1>2, SiteUnmoved, SiteLeavesKeeps DEF Orphan
<1>3. CASE NewGeneration
  <2>1. SiteInv'
    BY <1>3, SiteNewGenerationKeeps
  <2>2. pages' = pages
    BY <1>3 DEF NewGeneration
  <2> QED
    BY <2>1, <2>2 DEF SiteInv, SiteGenerations
<1>4. CASE Reconcile
  BY <1>4, SiteUnmoved, SiteDispatchKeeps 
  DEF Reconcile, runs, SiteInv, SiteGenerations
<1>5. CASE MonitorLost
  BY <1>5, SiteUnmoved DEF MonitorLost, runs, SiteInv, SiteGenerations
<1>6. CASE Watchdog
  <2>1. PICK kind, reason : Recover(kind, reason)
    BY <1>6 DEF Watchdog
  <2> QED
    BY <2>1, SiteUnmoved, SiteDispatchKeeps DEF Recover, SiteInv, SiteGenerations
<1>7. CASE Mature
  BY <1>7, SiteUnmoved DEF Mature, runs, SiteInv, SiteGenerations
<1>8. CASE DamagePages
  <2>1. pages'.queue = pages.queue /\ UNCHANGED <<durable, state, lease>>
    BY <1>8 DEF DamagePages, runs
  <2> QED
    BY <2>1 DEF SiteInv, SiteGenerations, SiteOrdered
<1>9. CASE Tick
  BY <1>9, SiteUnmoved DEF Tick, SiteInv, SiteGenerations
<1>10. CASE GatedLook \/ Expire
  BY <1>10, SiteUnmoved DEF GatedLook, Expire, runs, SiteInv, SiteGenerations
<1> QED
  BY <1>1, <1>2, <1>3, <1>4, <1>5, <1>6, <1>7, <1>8, <1>9, <1>10
  DEF MonitorStep, SiteInv, SiteGenerations

\* The site changes only while the durable generation does not.
LEMMA SiteOrDurable == RecoveryNext => pages' = pages \/ durable' = durable
<1>1. ASSUME NEW k \in Kind, Progress(k) \/ Fail(k) \/ Orphan(k) PROVE durable' = durable
  BY <1>1 DEF Progress, Begin, NotWanted, Collect, Gated, RotateState, Deploy, Fail, Orphan
<1>2. ASSUME MonitorStep \/ MonitorLost PROVE pages' = pages
  BY <1>2 DEF MonitorStep, NewGeneration, GatedLook, Reconcile, MonitorLost
<1>3. ASSUME Watchdog PROVE durable' = durable
  BY <1>3 DEF Watchdog, Recover
<1>4. ASSUME Routine \/ Mature \/ Expire \/ DamagePages \/ Tick PROVE durable' = durable
  BY <1>4 DEF Routine, Mature, Expire, DamagePages, Tick
<1> QED
  BY <1>1, <1>2, <1>3, <1>4 DEF RecoveryNext

\* No step at all takes the site back, or further behind the branch.
LEMMA SiteStepKeeps ==
    ASSUME SiteInv, [RecoveryNext]_recoveryVars
    PROVE  SiteInv' /\ (pages' # pages => Behind' <= Behind)
<1>1. CASE UNCHANGED recoveryVars
  BY <1>1 DEF recoveryVars, runs, SiteInv, SiteGenerations, SiteOrdered
<1>2. CASE RecoveryNext
  <2>1. SiteInv' /\ pages'.queue >= pages.queue
    BY <1>2, SiteRunStepKeeps, SiteOthersKeep, SiteRoutineKeeps DEF RecoveryNext
  <2>2. pages' # pages => durable' = durable
    BY <1>2, SiteOrDurable
  <2> QED
    BY <2>1, <2>2 DEF SiteInv, SiteGenerations, Behind
<1> QED
  BY <1>1, <1>2

\* The site shows at most what the state holds, the state at most what is durable,
\* and the holder of the lease has built nothing older than the state.
THEOREM SiteInvariance == RecoverySpec => []SiteInv
<1>1. SiteInv /\ [RecoveryNext]_recoveryVars => SiteInv'
  BY SiteStepKeeps
<1> QED
  BY SiteInitially, <1>1, PTL DEF RecoverySpec

\* Whatever runs are dispatched, replaced, failed, dead or late, no publication
\* takes the site back to older queue data.
THEOREM SiteNeverOlder == RecoverySpec => NeverOlder
<1>1. SiteInv /\ [RecoveryNext]_recoveryVars
      => [pages' # pages => Behind' <= Behind]_recoveryVars
  BY SiteStepKeeps
<1> QED
  BY SiteInvariance, <1>1, PTL DEF RecoverySpec, NeverOlder
=============================================================================
