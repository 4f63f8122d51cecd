--------------------------- MODULE DashboardState ---------------------------
(***************************************************************************)
(* The two durable dashboard-state refs (scripts/vllm/dashboard_state.py)  *)
(* and the canonical run that restores from them and rotates them          *)
(* (.github/workflows/hourly-master.yml).                                  *)
(*                                                                         *)
(* A run probes both refs one after the other, proves each slot it saw,    *)
(* reconciles the slots, fully validates the current one and falls back on *)
(* the previous one, builds a candidate from what it restored, and rotates *)
(* both refs in one atomic push leased on exactly what it saw.  Somebody   *)
(* else may write, damage or delete a ref at any time.                     *)
(*                                                                         *)
(* A state commit is immutable, so what validation says of it is fixed:    *)
(* Full is what validate-ref accepts, Proven what the bounded metadata and *)
(* ancestry proofs accept.                                                 *)
(***************************************************************************)
EXTENDS Naturals, FiniteSets

CONSTANTS
    Run,              \* canonical runs that may be alive at the same time
    Commit,           \* state commits
    Proven,           \* commits whose metadata, OIDs and code ancestry hold
    Full,             \* commits whose whole content validates as well
    FirstCurrent,     \* the refs when the model starts
    FirstPrevious,
    Absent,           \* no such ref
    BootstrapAllowed, \* config/dashboard_state.json
    MaxDamage,        \* BOUND: writes by somebody else
    MaxFault          \* BOUND: runs that fail or are cancelled

ASSUME StateAssumption ==
    /\ Full \subseteq Proven /\ Proven \subseteq Commit
    /\ Absent \notin Commit
    /\ FirstCurrent \in Commit \cup {Absent}
    /\ FirstPrevious \in Commit \cup {Absent}
    /\ FirstCurrent = Absent => FirstPrevious = Absent
    /\ BootstrapAllowed \in BOOLEAN
    /\ MaxDamage \in Nat /\ MaxFault \in Nat

Slot == Commit \cup {Absent}

VARIABLES
    current,    \* the remote ref dashboard-state
    previous,   \* the remote ref dashboard-state-previous
    pc,         \* pc[r]: the step of the canonical workflow run r is at
    sawCurrent, \* sawCurrent[r], sawPrevious[r]: the leases run r holds
    sawPrevious,
    candidate,  \* candidate[r]: the state run r wants to publish
    base,       \* history: the state commit c was built from, c when it was not
    torn,       \* history: somebody else wrote a ref since the last push
    damage, faults

refs == <<current, previous>>
vars == <<current, previous, pc, sawCurrent, sawPrevious, candidate, base, torn,
          damage, faults>>

Steps == {"idle", "probe", "repair", "repaired", "validate", "promoted",
          "build", "rotate", "rotated"}

Init ==
    /\ current = FirstCurrent /\ previous = FirstPrevious
    /\ pc = [r \in Run |-> "idle"]
    /\ sawCurrent = [r \in Run |-> Absent]
    /\ sawPrevious = [r \in Run |-> Absent]
    /\ candidate = [r \in Run |-> Absent]
    /\ base = [c \in Commit |-> IF c = FirstPrevious THEN Absent
                               ELSE IF c = FirstCurrent THEN FirstPrevious
                               ELSE c]
    /\ torn = FALSE /\ damage = 0 /\ faults = 0

Go(r, step) == pc' = [pc EXCEPT ![r] = step]
Lease(r, c, p) == /\ sawCurrent' = [sawCurrent EXCEPT ![r] = c]
                  /\ sawPrevious' = [sawPrevious EXCEPT ![r] = p]

\* MUTANT of LeasesHold: a plain forced push.
NoLeases(r) == TRUE

\* The two --force-with-lease arguments of every push.
LeasesHold(r) == current = sawCurrent[r] /\ previous = sawPrevious[r]

\* MUTANT of PushBoth: without --atomic a rejected ref leaves the other moved.
PushEither(r, c, p) ==
    /\ LeasesHold(r)
    /\ current' = c /\ previous' \in {p, previous} /\ torn' = FALSE

\* git push --atomic: both refs or neither.
PushBoth(r, c, p) ==
    /\ LeasesHold(r)
    /\ current' = c /\ previous' = p /\ torn' = FALSE

\* The candidates that can still be created: create_parentless_commit validates
\* what it made, and every build makes a commit nobody has seen.
Fresh == {c \in Full : base[c] = c /\ c \notin {current, previous}
                      /\ \A r \in Run : c # candidate[r]}

-----------------------------------------------------------------------------
\* probe_ref of the current ref: a definite answer, "absent" included.
ProbeCurrent(r) ==
    /\ pc[r] = "idle"
    /\ Lease(r, current, Absent)
    /\ Go(r, "probe")
    /\ UNCHANGED <<refs, candidate, base, torn, damage, faults>>

\* probe_ref of the previous ref.  Both absent is a bootstrap, when allowed.
ProbePrevious(r) ==
    /\ pc[r] = "probe"
    /\ Lease(r, sawCurrent[r], previous)
    /\ IF sawCurrent[r] = Absent /\ previous = Absent
       THEN BootstrapAllowed /\ Go(r, "build")
       ELSE Go(r, "repair")
    /\ UNCHANGED <<refs, candidate, base, torn, damage, faults>>

\* repair_state_slots with both slots valid re-reads both refs and changes
\* nothing.
RepairNothing(r) ==
    /\ pc[r] = "repair"
    /\ sawCurrent[r] \in Proven /\ sawPrevious[r] \in Proven
    /\ LeasesHold(r)
    /\ Go(r, "validate")
    /\ UNCHANGED <<refs, sawCurrent, sawPrevious, candidate, base, torn, damage,
                   faults>>

\* MUTANT of Survivor: the previous slot wins without looking at the proofs.
PreviousAnyway(c, p) == p

\* The one slot of a pair that is proven.
Survivor(c, p) == IF c \in Proven THEN c ELSE p

\* repair_state_slots with exactly one valid slot copies it to both refs.
RepairCopy(r) ==
    /\ pc[r] = "repair"
    /\ (sawCurrent[r] \in Proven) # (sawPrevious[r] \in Proven)
    /\ LET s == Survivor(sawCurrent[r], sawPrevious[r])
       IN PushBoth(r, s, s) /\ Lease(r, s, s)
    /\ Go(r, "repaired")
    /\ UNCHANGED <<candidate, base, damage, faults>>

\* The ls-remote after a repair or promotion push agrees.
RepairVerified(r, from, to) ==
    /\ pc[r] = from
    /\ LeasesHold(r)
    /\ Go(r, to)
    /\ UNCHANGED <<refs, sawCurrent, sawPrevious, candidate, base, torn, damage,
                   faults>>

\* MUTANT of Restore: the repaired state is trusted on its metadata.
RestoreUnvalidated(r) ==
    /\ pc[r] = "validate"
    /\ sawCurrent[r] \in Proven
    /\ Go(r, "build")
    /\ UNCHANGED <<refs, sawCurrent, sawPrevious, candidate, base, torn, damage,
                   faults>>

\* full_validate_state accepts the current slot, and materialize installs it.
Restore(r) ==
    /\ pc[r] = "validate"
    /\ sawCurrent[r] \in Full
    /\ Go(r, "build")
    /\ UNCHANGED <<refs, sawCurrent, sawPrevious, candidate, base, torn, damage,
                   faults>>

\* MUTANT of Promote: the fallback tests the current slot once more.
PromoteNever(r) ==
    /\ pc[r] = "validate"
    /\ sawCurrent[r] \notin Full /\ sawCurrent[r] \in Full
    /\ UNCHANGED vars

\* The current slot fails full validation and the rollback slot passes:
\* repair-slots with the proof of the rollback slot only promotes it.
Promote(r) ==
    /\ pc[r] = "validate"
    /\ sawCurrent[r] \notin Full
    /\ sawPrevious[r] \in Full
    /\ PushBoth(r, sawPrevious[r], sawPrevious[r])
    /\ Lease(r, sawPrevious[r], sawPrevious[r])
    /\ Go(r, "promoted")
    /\ UNCHANGED <<candidate, base, damage, faults>>

\* Prepare manifest, projection, refresh manifest, create candidate.
Build(r) ==
    /\ pc[r] = "build"
    /\ \E c \in Fresh :
         /\ candidate' = [candidate EXCEPT ![r] = c]
         /\ base' = [base EXCEPT ![c] = sawCurrent[r]]
    /\ Go(r, "rotate")
    /\ UNCHANGED <<refs, sawCurrent, sawPrevious, torn, damage, faults>>

\* No attempt was reserved and no reconciliation was asked for: every later
\* step of the run is skipped.
Decline(r) ==
    /\ pc[r] = "build"
    /\ Lease(r, Absent, Absent)
    /\ Go(r, "idle")
    /\ UNCHANGED <<refs, candidate, base, torn, damage, faults>>

\* The rollback slot after a rotation: what current was, or at a bootstrap the
\* candidate itself.
NewPrevious(c, new) == IF c = Absent THEN new ELSE c

\* What rotate_state_refs demands before it pushes.
MayRotate(r) ==
    /\ candidate[r] \in Full
    /\ IF sawCurrent[r] = Absent
       THEN sawPrevious[r] = Absent /\ BootstrapAllowed
       ELSE sawCurrent[r] \in Full

\* rotate_state_refs.
Rotate(r) ==
    /\ pc[r] = "rotate"
    /\ MayRotate(r)
    /\ PushBoth(r, candidate[r], NewPrevious(sawCurrent[r], candidate[r]))
    /\ Go(r, "rotated")
    /\ UNCHANGED <<sawCurrent, sawPrevious, candidate, base, damage, faults>>

Forget(r) ==
    /\ Lease(r, Absent, Absent)
    /\ candidate' = [candidate EXCEPT ![r] = Absent]
    /\ Go(r, "idle")

\* The ls-remote after the rotation agrees, and the run goes on to deploy.
RotateVerified(r) ==
    /\ pc[r] = "rotated"
    /\ current = candidate[r]
    /\ previous = NewPrevious(sawCurrent[r], candidate[r])
    /\ Forget(r)
    /\ UNCHANGED <<refs, base, torn, damage, faults>>

\* A step that can only fail: a ref changed, no slot is usable, the bootstrap
\* is refused.
Stuck(r) ==
    \/ pc[r] = "probe" /\ ~BootstrapAllowed
         /\ sawCurrent[r] = Absent /\ previous = Absent
    \/ pc[r] \in {"repair", "repaired", "promoted", "rotate"} /\ ~LeasesHold(r)
    \/ pc[r] = "repair" /\ {sawCurrent[r], sawPrevious[r]} \cap Proven = {}
    \/ pc[r] = "validate" /\ sawCurrent[r] \notin Full
         /\ (sawPrevious[r] \notin Full \/ ~LeasesHold(r))
    \/ pc[r] = "rotate" /\ ~MayRotate(r)
    \/ pc[r] = "rotated" /\
         ~(current = candidate[r]
           /\ previous = NewPrevious(sawCurrent[r], candidate[r]))
    \/ pc[r] = "build" /\ Fresh = {}

Exit(r) ==
    /\ Stuck(r)
    /\ Forget(r)
    /\ UNCHANGED <<refs, base, torn, damage, faults>>

\* A proof, a fetch or a push was ambiguous (status 90), or the job was
\* cancelled, between any two steps.
Fault(r) ==
    /\ pc[r] # "idle" /\ faults < MaxFault
    /\ faults' = faults + 1
    /\ Forget(r)
    /\ UNCHANGED <<refs, base, torn, damage>>

\* Somebody else moves or deletes one ref.
Damage ==
    /\ damage < MaxDamage
    /\ damage' = damage + 1
    /\ torn' = TRUE
    /\ \/ current' \in Slot /\ UNCHANGED previous
       \/ previous' \in Slot /\ UNCHANGED current
    /\ refs' # refs
    /\ UNCHANGED <<pc, sawCurrent, sawPrevious, candidate, base, faults>>

RunStep(r) ==
    \/ ProbeCurrent(r) \/ ProbePrevious(r)
    \/ RepairNothing(r) \/ RepairCopy(r) \/ RepairVerified(r, "repaired", "validate")
    \/ Restore(r) \/ Promote(r) \/ RepairVerified(r, "promoted", "build")
    \/ Build(r) \/ Decline(r) \/ Rotate(r) \/ RotateVerified(r) \/ Exit(r)

Next == Damage \/ \E r \in Run : RunStep(r) \/ Fault(r)

Spec == Init /\ [][Next]_vars

\* The hourly schedule starts runs again and again, and a job's steps follow
\* one another until the job times out.
FairSpec == Spec /\ \A r \in Run : WF_vars(RunStep(r))

-----------------------------------------------------------------------------
\* Type correctness; a candidate is always a fully valid state.
TypeOK ==
    /\ current \in Slot /\ previous \in Slot
    /\ pc \in [Run -> Steps]
    /\ sawCurrent \in [Run -> Slot] /\ sawPrevious \in [Run -> Slot]
    /\ candidate \in [Run -> Full \cup {Absent}]
    /\ base \in [Commit -> Slot]
    /\ torn \in BOOLEAN /\ damage \in 0..MaxDamage /\ faults \in 0..MaxFault

\* The pair is never half-moved by the program: unless somebody else wrote a
\* ref, the rollback slot holds the state the current one was built from, or
\* the current one itself.
PairConsistent ==
    ~torn => previous = current \/ (current \in Commit /\ previous = base[current])

\* Every state that is ever built continues a state that passed full
\* validation, or starts a dashboard that had none.
BuiltFromFull ==
    \A r \in Run : pc[r] \in {"build", "rotate"} =>
        \/ sawCurrent[r] \in Full
        \/ sawCurrent[r] = Absent /\ sawPrevious[r] = Absent /\ BootstrapAllowed

Rotates == \E r \in Run : pc[r] = "rotate" /\ pc'[r] = "rotated"

\* No lost update: a rotation replaces the very state its candidate was built
\* from, whoever published in between.
NoLostUpdate ==
    [][Rotates => IF current = Absent THEN base[current'] = Absent
                                      ELSE base[current'] = current]_vars

\* No step of the program takes the last fully valid state off the two refs,
\* even when it repairs slots on metadata alone.
FullSurvives ==
    [][damage' = damage /\ {current, previous} \cap Full # {}
         => {current', previous'} \cap Full # {}]_vars

\* A bootstrap never discards an established state: when the current ref is
\* created by a rotation neither ref existed at that moment.
BootstrapOnlyEmpty == [][Rotates /\ current = Absent => previous = Absent]_vars

\* Once writes by others and faults have ended, a fully valid state in either
\* slot becomes and stays the current one.
SelfHealing ==
    <>[]({current, previous} \cap Full # {}) => <>[](current \in Full)
=============================================================================
