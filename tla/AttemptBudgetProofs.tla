------------------------- MODULE AttemptBudgetProofs ------------------------
(***************************************************************************)
(* Proofs about AttemptBudget, for every set of runs, every policy that    *)
(* load_policy accepts and every set of seed files.                        *)
(***************************************************************************)
EXTENDS AttemptBudget, FiniteSetTheorems, WellFoundedInduction, TLAPS

-----------------------------------------------------------------------------
\* Facts about finite sets.

\* The image of a finite set under a function is finite and no larger.
LEMMA ImageBound ==
    ASSUME NEW S, IsFiniteSet(S), NEW f, f = [x \in S |-> f[x]]
    PROVE  /\ IsFiniteSet({f[x] : x \in S})
           /\ Cardinality({f[x] : x \in S}) <= Cardinality(S)
<1> DEFINE T == {f[x] : x \in S}
<1>1. f \in Surjection(S, T)
  BY DEF Surjection
<1> QED
  BY <1>1, FS_Surjection

\* Field types of a row.
LEMMA RowFields ==
    \A x \in Row : /\ x.id \in Nat /\ x.at \in Nat
                   /\ x.source \in {"runtime", "legacy"}
                   /\ x.succeeded \in Int
<1> SUFFICES ASSUME NEW x \in Row
             PROVE  /\ x.id \in Nat /\ x.at \in Nat
                    /\ x.source \in {"runtime", "legacy"}
                    /\ x.succeeded \in Int
  OBVIOUS
<1>1. /\ x.id \in Run \cup LegacyId /\ x.at \in Nat
      /\ x.source \in {"runtime", "legacy"}
      /\ x.succeeded \in Nat \cup {NoTime}
  BY DEF Row
<1>2. Run \cup LegacyId \subseteq Nat
  BY DomainAssumption
<1>3. NoTime \in Int
  BY DEF NoTime
<1> QED
  BY <1>1, <1>2, <1>3

\* A nonempty finite set of rows has a latest row, and none is later.
LEMMA LatestExists ==
    ASSUME NEW rows \in SUBSET Row, rows # {}, IsFiniteSet(rows)
    PROVE  /\ Latest(rows) \in rows
           /\ \A y \in rows : NotAfter(y, Latest(rows))
           /\ \A y \in rows : y.at <= Latest(rows).at
<1> DEFINE After(x) == {y \in rows : ~NotAfter(y, x)}
           Family == {After(x) : x \in rows}
<1>1. PICK A \in Family :
           \A B \in Family : <<B, A>> \notin StrictSubsetOrdering(rows)
  <2>1. \A x \in rows : After(x) \in SUBSET rows /\ IsFiniteSet(After(x))
    BY FS_Subset
  <2>2. Family \subseteq FiniteSubsetsOf(rows) /\ Family # {}
    BY <2>1 DEF FiniteSubsetsOf
  <2> HIDE DEF Family
  <2> QED
    BY <2>2, FS_StrictSubsetOrderingWellFounded, WFMin
<1>2. PICK x \in rows : A = After(x)
  OBVIOUS
<1>3. \A y \in rows : NotAfter(y, x)
  <2> SUFFICES ASSUME NEW y \in rows, ~NotAfter(y, x)
               PROVE  FALSE
    OBVIOUS
  <2>1. /\ x.at \in Int /\ y.at \in Int /\ x.id \in Int /\ y.id \in Int
        /\ \A z \in rows : z.at \in Int /\ z.id \in Int
    BY RowFields
  <2>2. After(y) \subseteq After(x)
    BY <2>1 DEF NotAfter
  <2>3. y \in After(x) /\ y \notin After(y)
    BY <2>1 DEF NotAfter
  <2>4. <<After(y), After(x)>> \in StrictSubsetOrdering(rows)
    BY <2>2, <2>3 DEF StrictSubsetOrdering
  <2> QED
    BY <1>1, <1>2, <2>4
<1>4. Latest(rows) \in rows /\ \A y \in rows : NotAfter(y, Latest(rows))
  BY <1>3 DEF Latest
<1> QED
  BY <1>4, RowFields DEF NotAfter
-----------------------------------------------------------------------------
\* The inductive invariant.

\* A command that reached its push was allowed to commit its draft, and one
\* whose reservation landed was charged.
CommandInv(c, r) ==
    /\ IsFiniteSet(c.seen.rows)
    /\ c.clock <= now
    /\ c.pc \in {"push", "verify"} =>
         /\ ValidLedger(c.seen) /\ c.seen.updated <= c.clock
         /\ MayCommit(c, r) /\ ValidLedger(Draft(c, r))
    /\ c.pc = "verify" /\ c.op = "reserve" => [id |-> r, at |-> c.clock] \in charged
    /\ c.pc # "idle" /\ c.op = "mark" => r \in granted

\* Every charge still in the window of the ledger is one of its runtime rows,
\* and none is later than the ledger.
Remembered ==
    /\ \A c \in charged : c.at > store.updated - Window =>
         \E x \in RuntimeRows(store.rows) : x.id = c.id /\ x.at = c.at
    /\ \A c \in charged : c.at <= store.updated

IInv ==
    /\ TypeOK
    /\ now <= MaxTime
    /\ IsFiniteSet(store.rows) /\ IsFiniteSet(charged)
    /\ \A r \in Run : CommandInv(cmd[r], r)
    /\ LedgerReadable
    /\ Remembered
    /\ RollingCap
    /\ PermitsCharged

-----------------------------------------------------------------------------
\* Lemmas about the operators.

\* What _new_ledger writes is a finite ledger again.
LEMMA DraftTyped ==
    ASSUME NEW r \in Run, NEW c \in Command, IsFiniteSet(c.seen.rows)
    PROVE  Draft(c, r) \in Ledger /\ IsFiniteSet(Draft(c, r).rows)
<1> DEFINE rows == Active(c.seen.rows, c.clock)
           U == Unmarked(c, r)
           f == [x \in U |-> MarkRow(x, c)]
<1>1. c.clock \in Nat /\ c.seen \in Ledger /\ c.seen.rows \in SUBSET Row
      /\ c.claim \in Evidence \cup {NoEvidence}
  BY DEF Command, Ledger
<1>2. rows \in SUBSET Row /\ IsFiniteSet(rows) /\ U \in SUBSET rows
      /\ IsFiniteSet(U) /\ IsFiniteSet(rows \ U)
  <2>1. rows \in SUBSET c.seen.rows
    BY DEF Active
  <2>2. U \in SUBSET rows /\ rows \ U \in SUBSET rows
    BY DEF Unmarked, RuntimeRows
  <2> HIDE DEF rows, U
  <2> QED
    BY <1>1, <2>1, <2>2, FS_Subset
<1>3. CASE c.op = "reserve"
  <2>1. RuntimeRow(r, c.clock) \in Row
    BY <1>1 DEF RuntimeRow, Row
  <2>2. Draft(c, r) = [updated |-> c.clock,
                      rows |-> rows \cup {RuntimeRow(r, c.clock)}]
    BY <1>3 DEF Draft
  <2>3. IsFiniteSet(rows \cup {RuntimeRow(r, c.clock)})
    BY <1>2, FS_AddElement
  <2> HIDE DEF rows
  <2> QED
    BY <1>1, <1>2, <2>1, <2>2, <2>3 DEF Ledger
<1>4. CASE c.op # "reserve"
  <2>1. {MarkRow(x, c) : x \in U} = {f[x] : x \in U}
    OBVIOUS
  <2>2. IsFiniteSet({MarkRow(x, c) : x \in U})
    <3>1. f = [x \in U |-> f[x]]
      OBVIOUS
    <3>2. IsFiniteSet({f[x] : x \in U})
      <4> HIDE DEF U, f
      <4> QED
        BY <1>2, <3>1, ImageBound
    <3> QED
      BY <2>1, <3>2
  <2>3. {MarkRow(x, c) : x \in U} \in SUBSET Row
    <3> SUFFICES ASSUME NEW x \in U
                 PROVE  MarkRow(x, c) \in Row
      OBVIOUS
    <3>1. x \in Row
      BY <1>2
    <3> QED
      BY <1>1, <3>1 DEF MarkRow, Row
  <2>4. Draft(c, r) = [updated |-> c.clock,
                      rows |-> (rows \ U) \cup {MarkRow(x, c) : x \in U}]
    BY <1>4 DEF Draft
  <2>5. IsFiniteSet((rows \ U) \cup {MarkRow(x, c) : x \in U})
    BY <1>2, <2>2, FS_Union
  <2> HIDE DEF rows, U
  <2> QED
    BY <1>1, <1>2, <2>3, <2>4, <2>5 DEF Ledger
<1> QED
  BY <1>3, <1>4

\* A committed draft keeps every runtime row that is still in its window, with
\* its id and time.
LEMMA DraftKeeps ==
    ASSUME NEW r \in Run, NEW c \in Command,
           NEW x \in RuntimeRows(c.seen.rows), x.at > c.clock - Window
    PROVE  \E y \in RuntimeRows(Draft(c, r).rows) : y.id = x.id /\ y.at = x.at
<1>1. x \in Active(c.seen.rows, c.clock) /\ x.source = "runtime"
  BY DEF Active, RuntimeRows
<1>2. CASE c.op = "reserve" \/ x \notin Unmarked(c, r)
  <2>1. x \in Draft(c, r).rows
    BY <1>1, <1>2 DEF Draft
  <2> QED
    BY <1>1, <2>1 DEF RuntimeRows
<1>3. CASE c.op # "reserve" /\ x \in Unmarked(c, r)
  <2>1. MarkRow(x, c) \in Draft(c, r).rows
    BY <1>3 DEF Draft
  <2>2. x \in Row
    BY DEF RuntimeRows, Command, Ledger
  <2>3. /\ MarkRow(x, c).id = x.id /\ MarkRow(x, c).at = x.at
        /\ MarkRow(x, c).source = x.source
    BY <2>2 DEF MarkRow, Row
  <2> QED
    BY <1>1, <2>1, <2>3 DEF RuntimeRows
<1> QED
  BY <1>2, <1>3

\* A readable ledger never holds more than Cap runtime rows.
LEMMA ValidCap ==
    ASSUME NEW L \in Ledger, IsFiniteSet(L.rows), ValidLedger(L)
    PROVE  Cardinality(RuntimeRows(L.rows)) <= Cap
<1>1. RuntimeRows(L.rows) \in SUBSET L.rows
  BY DEF RuntimeRows
<1>2. Cardinality(RuntimeRows(L.rows)) \in Nat
  BY <1>1, FS_Subset, FS_CardinalityType
<1> QED
  BY <1>2, PolicyAssumption DEF ValidLedger
-----------------------------------------------------------------------------
\* No ledger and no run: nothing is charged yet.
THEOREM Initially == Init => IInv
<1> SUFFICES ASSUME Init PROVE IInv
  OBVIOUS
<1> USE DEF Init
<1>1. NoLedger \in Ledger /\ Idle \in Command
  BY DEF NoLedger, Ledger, Idle, Command, NoTime, NoEvidence
<1>2. TypeOK
  BY <1>1, DomainAssumption DEF TypeOK
<1>3. IsFiniteSet({}) /\ NoLedger.rows = {} /\ Idle.seen = NoLedger
  BY FS_EmptySet DEF NoLedger, Idle
<1>4. \A r \in Run : CommandInv(cmd[r], r)
  <2> SUFFICES ASSUME NEW r \in Run
               PROVE  CommandInv(cmd[r], r)
    OBVIOUS
  <2>1. /\ cmd[r] = Idle /\ Idle.pc = "idle" /\ Idle.clock = 0
        /\ IsFiniteSet(Idle.seen.rows) /\ 0 <= now
    <3>1. cmd[r] = Idle /\ Idle.pc = "idle" /\ Idle.clock = 0
      BY DEF Idle
    <3>2. now \in Nat
      BY DomainAssumption
    <3> QED
      BY <1>3, <3>1, <3>2
  <2> QED
    BY <2>1 DEF CommandInv
<1> QED
  BY <1>2, <1>3, <1>4, DomainAssumption
     DEF IInv, LedgerReadable, Remembered, RollingCap, PermitsCharged

\* A step that leaves the clock, the ledger and the charges alone and changes
\* only what run r knows keeps the invariant, if it keeps the parts about r.
LEMMA QuietStep ==
    ASSUME IInv, NEW r \in Run, TypeOK', UNCHANGED <<now, store, charged>>,
           \A q \in Run \ {r} : cmd'[q] = cmd[q],
           granted' \ {r} = granted \ {r},
           r \in granted' => \E c \in charged : c.id = r,
           CommandInv(cmd[r], r)'
    PROVE  IInv'
<1>1. \A q \in Run \ {r} : CommandInv(cmd[q], q)'
  <2> SUFFICES ASSUME NEW q \in Run \ {r}
               PROVE  CommandInv(cmd[q], q)'
    OBVIOUS
  <2>1. CommandInv(cmd[q], q)
    BY DEF IInv
  <2>2. q \in granted' <=> q \in granted
    OBVIOUS
  <2> QED
    BY <2>1, <2>2 DEF CommandInv
<1>2. (LedgerReadable /\ Remembered)'
  BY DEF IInv, LedgerReadable, Remembered
<1>3. (RollingCap /\ PermitsCharged)'
  BY DEF IInv, RollingCap, InWindow, PermitsCharged
<1> QED
  BY <1>1, <1>2, <1>3 DEF IInv

\* A landed push: the one step that moves the ledger and the history.
LEMMA PushStep ==
    ASSUME IInv, NEW r \in Run, Push(r)
    PROVE  IInv'
<1> DEFINE c == cmd[r]
           t == c.clock
           new == [id |-> r, at |-> t]
<1>1. /\ c \in Command /\ t \in Nat /\ t <= now /\ c.pc = "push"
      /\ store = c.seen /\ store \in Ledger /\ store.updated \in Int
      /\ c.op \in {"reserve", "mark"} /\ c.claim \in Evidence \cup {NoEvidence}
      /\ now \in Nat
  <2>1. c \in Command /\ store \in Ledger /\ now \in Nat
    BY DEF IInv, TypeOK
  <2>2. c.pc = "push" /\ store = c.seen
    BY DEF Push, LeaseHolds
  <2>3. CommandInv(c, r)
    BY DEF IInv
  <2>4. store.updated \in Nat \cup {NoTime} /\ NoTime \in Int
    BY <2>1 DEF Ledger, NoTime
  <2> QED
    BY <2>1, <2>2, <2>3, <2>4 DEF Command, CommandInv
<1>2. /\ CommandInv(c, r)
      /\ ValidLedger(store) /\ store.updated <= t
      /\ MayCommit(c, r) /\ ValidLedger(Draft(c, r))
      /\ IsFiniteSet(store.rows)
  <2>1. CommandInv(c, r)
    BY DEF IInv
  <2> QED
    BY <1>1, <2>1 DEF CommandInv
<1>3. /\ store' = Draft(c, r) /\ store'.updated = t
      /\ store' \in Ledger /\ IsFiniteSet(store'.rows)
  BY <1>1, <1>2, DraftTyped DEF Push, Draft
<1>4. charged' = (IF c.op = "reserve" THEN charged \cup {new} ELSE charged)
  BY DEF Push
<1>5. /\ charged \in SUBSET [id : Run, at : Nat] /\ IsFiniteSet(charged)
      /\ \A d \in charged : d.at \in Nat /\ d.at <= t
  <2>1. charged \in SUBSET [id : Run, at : Nat] /\ IsFiniteSet(charged)
    BY DEF IInv, TypeOK
  <2>2. \A d \in charged : d.at <= store.updated
    BY DEF IInv, Remembered
  <2> QED
    BY <1>1, <1>2, <2>1, <2>2
<1>6. IsFiniteSet(charged') /\ charged' \in SUBSET [id : Run, at : Nat]
  <2>1. new \in [id : Run, at : Nat]
    BY <1>1
  <2>2. IsFiniteSet(charged \cup {new})
    BY <1>5, FS_AddElement
  <2> QED
    BY <1>4, <1>5, <2>1, <2>2
<1>7. \A d \in charged : d.at > t - Window =>
        \E x \in RuntimeRows(store.rows) : x.id = d.id /\ x.at = d.at
  BY <1>1, <1>2, <1>5, PolicyAssumption DEF IInv, Remembered
<1>8. \A d \in charged' : d.at > t - Window =>
        \E x \in RuntimeRows(store'.rows) : x.id = d.id /\ x.at = d.at
  <2> SUFFICES ASSUME NEW d \in charged', d.at > t - Window
               PROVE  \E x \in RuntimeRows(store'.rows) :
                         x.id = d.id /\ x.at = d.at
    OBVIOUS
  <2>1. CASE d \in charged
    <3>1. PICK x \in RuntimeRows(store.rows) : x.id = d.id /\ x.at = d.at
      BY <1>7, <2>1
    <3>2. \E y \in RuntimeRows(Draft(c, r).rows) : y.id = x.id /\ y.at = x.at
      BY <1>1, <3>1, DraftKeeps
    <3> QED
      BY <1>3, <3>1, <3>2
  <2>2. CASE c.op = "reserve" /\ d = new
    <3>1. RuntimeRow(r, t) \in RuntimeRows(Draft(c, r).rows)
      BY <2>2 DEF Draft, RuntimeRows, RuntimeRow
    <3>2. RuntimeRow(r, t).id = d.id /\ RuntimeRow(r, t).at = d.at
      BY <2>2 DEF RuntimeRow
    <3> QED
      BY <1>3, <3>1, <3>2
  <2> QED
    BY <1>4, <2>1, <2>2
<1>9. \A d \in charged' : d.at \in Nat /\ d.at <= t
  BY <1>1, <1>4, <1>5
<1>10. Remembered'
  BY <1>3, <1>8, <1>9 DEF Remembered
<1>11. RollingCap'
  <2> DEFINE Last == {d \in charged' : d.at > t - Window}
             rows == RuntimeRows(store'.rows)
             f == [x \in rows |-> [id |-> x.id, at |-> x.at]]
  <2>1. rows \in SUBSET store'.rows /\ IsFiniteSet(rows)
        /\ Cardinality(rows) <= Cap /\ Cardinality(rows) \in Nat
    <3>1. rows \in SUBSET store'.rows
      BY DEF RuntimeRows
    <3>2. Cardinality(rows) <= Cap
      BY <1>2, <1>3, ValidCap
    <3> HIDE DEF rows
    <3> QED
      BY <1>3, <3>1, <3>2, FS_Subset, FS_CardinalityType
  <2>2. Last \subseteq {f[x] : x \in rows}
    <3> SUFFICES ASSUME NEW d \in Last
                 PROVE  \E x \in rows : d = f[x]
      OBVIOUS
    <3>1. PICK x \in rows : x.id = d.id /\ x.at = d.at
      BY <1>8
    <3>2. d = [id |-> d.id, at |-> d.at]
      BY <1>6
    <3> QED
      BY <3>1, <3>2
  <2>3. f = [x \in rows |-> f[x]]
    OBVIOUS
  <2>4. IsFiniteSet({f[x] : x \in rows})
        /\ Cardinality({f[x] : x \in rows}) <= Cardinality(rows)
    <3> HIDE DEF f, rows
    <3> QED
      BY <2>1, <2>3, ImageBound
  <2>5. IsFiniteSet(Last) /\ Cardinality(Last) <= Cap
    <3>1. Last \in SUBSET {f[x] : x \in rows}
      BY <2>2
    <3> HIDE DEF Last, f, rows
    <3> QED
      BY <2>1, <2>4, <3>1, FS_Subset, FS_CardinalityType, PolicyAssumption
  <2> SUFFICES ASSUME NEW d \in charged'
               PROVE  Cardinality(InWindow(d.at)') <= Cap
    BY DEF RollingCap
  <2>6. CASE d.at = t
    <3>1. InWindow(d.at)' \in SUBSET Last
      BY <2>6 DEF InWindow
    <3> HIDE DEF Last
    <3> QED
      BY <2>5, <3>1, FS_Subset, FS_CardinalityType, PolicyAssumption
  <2>7. CASE d.at # t
    <3>1. d \in charged /\ d.at < t
      BY <1>1, <1>4, <1>9, <2>7
    <3>2. InWindow(d.at)' = InWindow(d.at)
      BY <1>1, <1>4, <1>5, <3>1 DEF InWindow
    <3> QED
      BY <3>1, <3>2 DEF IInv, RollingCap
  <2> QED
    BY <2>6, <2>7
<1>12. PermitsCharged'
  <2>1. c.op = "reserve" => \A d \in charged : d.id = r => d.at <= t - Window
    <3> SUFFICES ASSUME c.op = "reserve", NEW d \in charged, d.id = r,
                        d.at > t - Window
                 PROVE  FALSE
      BY <1>1, <1>5, PolicyAssumption
    <3>1. PICK x \in RuntimeRows(store.rows) : x.id = d.id /\ x.at = d.at
      BY <1>7
    <3>2. x \in Active(c.seen.rows, t)
      BY <1>1, <3>1 DEF Active, RuntimeRows
    <3> QED
      BY <1>2, <3>1, <3>2 DEF MayCommit, FreshId
  <2>2. \A d, e \in charged' : d.id = e.id /\ d.at < e.at => e.at - d.at >= Window
    <3> SUFFICES ASSUME NEW d \in charged', NEW e \in charged',
                        d.id = e.id, d.at < e.at
                 PROVE  e.at - d.at >= Window
      OBVIOUS
    <3>1. CASE d \in charged /\ e \in charged
      BY <3>1 DEF IInv, PermitsCharged
    <3>2. CASE e \notin charged
      <4>1. c.op = "reserve" /\ e = new /\ d \in charged
        BY <1>1, <1>4, <3>2
      <4> QED
        BY <1>1, <1>5, <2>1, <4>1, PolicyAssumption
    <3>3. CASE d \notin charged
      <4>1. d.at = t
        BY <1>4, <3>3
      <4> QED
        BY <1>1, <1>9, <4>1
    <3> QED
      BY <3>1, <3>2, <3>3
  <2>3. \A q \in granted : \E d \in charged' : d.id = q
    BY <1>4 DEF IInv, PermitsCharged
  <2> QED
    BY <2>2, <2>3 DEF PermitsCharged, Push
<1>13. TypeOK'
  <2>1. cmd' = [cmd EXCEPT ![r].pc = "verify"]
    BY DEF Push
  <2>2. cmd' \in [Run -> Command]
    BY <2>1 DEF IInv, TypeOK, Command
  <2> QED
    BY <1>3, <1>6, <2>2 DEF IInv, TypeOK, Push
<1>14. \A q \in Run : CommandInv(cmd[q], q)'
  <2> SUFFICES ASSUME NEW q \in Run
               PROVE  CommandInv(cmd[q], q)'
    OBVIOUS
  <2>1. CommandInv(cmd[q], q) /\ charged \subseteq charged'
        /\ UNCHANGED <<now, granted>>
    BY <1>4 DEF IInv, Push
  <2>2. CASE q # r
    <3>1. cmd'[q] = cmd[q]
      BY <2>2 DEF IInv, TypeOK, Push
    <3> QED
      BY <2>1, <3>1 DEF CommandInv
  <2>3. CASE q = r
    <3>1. cmd'[r] = [c EXCEPT !.pc = "verify"]
      BY DEF IInv, TypeOK, Push
    <3>2. /\ cmd'[r].pc = "verify" /\ cmd'[r].op = c.op
          /\ cmd'[r].clock = c.clock /\ cmd'[r].seen = c.seen
          /\ cmd'[r].claim = c.claim
      BY <1>1, <3>1 DEF Command
    <3>3. MayCommit(cmd'[r], r) /\ Draft(cmd'[r], r) = Draft(c, r)
      BY <1>2, <3>2 DEF MayCommit, FreshId, Unmarked, Draft, MarkRow
    <3>4. c.op = "reserve" => [id |-> r, at |-> c.clock] \in charged'
      BY <1>4
    <3> QED
      BY <1>1, <1>2, <2>1, <2>3, <3>2, <3>3, <3>4 DEF CommandInv
  <2> QED
    BY <2>2, <2>3
<1>15. LedgerReadable'
  BY <1>2, <1>3 DEF LedgerReadable
<1>16. now' <= MaxTime
  BY DEF IInv, Push
<1> QED
  BY <1>3, <1>6, <1>10, <1>11, <1>12, <1>13, <1>14, <1>15, <1>16 DEF IInv
\* Every other step of a run.
LEMMA RunStepKeeps ==
    ASSUME IInv, NEW r \in Run, RunStep(r)
    PROVE  IInv'
<1> DEFINE c == cmd[r]
<1>1. /\ TypeOK /\ c \in Command /\ now \in Nat /\ c.clock \in Nat
      /\ CommandInv(c, r) /\ IsFiniteSet(store.rows) /\ store \in Ledger
  BY DEF IInv, TypeOK, Command
<1>2. r \in granted => \E d \in charged : d.id = r
  BY DEF IInv, PermitsCharged
<1>3. ASSUME cmd' = [cmd EXCEPT ![r] = Idle], UNCHANGED <<now, store, charged>>,
             granted' \ {r} = granted \ {r}, granted' \in SUBSET Run,
             r \in granted' => \E d \in charged : d.id = r,
             reported' \in [Run -> Evidence \cup {NoEvidence}]
      PROVE  IInv'
  <2>1. Idle \in Command /\ IsFiniteSet(Idle.seen.rows)
        /\ Idle.pc = "idle" /\ Idle.clock = 0
    BY FS_EmptySet
       DEF Idle, Command, NoLedger, Ledger, NoTime, NoEvidence
  <2>2. TypeOK'
    BY <1>1, <1>3, <2>1 DEF TypeOK
  <2>3. CommandInv(cmd[r], r)'
    <3>1. cmd'[r] = Idle
      BY <1>1, <1>3 DEF TypeOK
    <3> QED
      BY <1>1, <1>3, <2>1, <3>1 DEF CommandInv
  <2>4. \A q \in Run \ {r} : cmd'[q] = cmd[q]
    BY <1>1, <1>3 DEF TypeOK
  <2> QED
    BY <1>3, <2>2, <2>3, <2>4, QuietStep
<1>4. ASSUME NEW command \in {"reserve", "mark"},
             NEW e \in Evidence \cup {NoEvidence}, Call(r, command, e),
             command = "mark" => r \in granted
      PROVE  IInv'
  <2> DEFINE C == [pc |-> "look", op |-> command, clock |-> now,
                   seen |-> NoLedger, claim |-> e]
  <2>1. C \in Command /\ IsFiniteSet(C.seen.rows)
    BY <1>1, FS_EmptySet DEF Command, NoLedger, Ledger, NoTime
  <2>2. cmd' = [cmd EXCEPT ![r] = C]
        /\ UNCHANGED <<now, store, granted, reported, charged>>
    BY <1>4 DEF Call
  <2>3. TypeOK'
    BY <1>1, <2>1, <2>2 DEF TypeOK
  <2>4. cmd'[r] = C /\ \A q \in Run \ {r} : cmd'[q] = cmd[q]
    BY <1>1, <2>2 DEF TypeOK
  <2>5. CommandInv(cmd[r], r)'
    BY <1>1, <1>4, <2>1, <2>2, <2>4 DEF CommandInv
  <2> QED
    BY <1>2, <2>2, <2>3, <2>4, <2>5, QuietStep
<1>5. CASE CallReserve(r)
  BY <1>4, <1>5 DEF CallReserve
<1>6. ASSUME NEW e \in Evidence, CallMark(r, e)
      PROVE  IInv'
  BY <1>4, <1>6 DEF CallMark
<1>7. CASE Look(r)
  <2> DEFINE C == [c EXCEPT !.pc = "fetch", !.seen = store]
  <2>1. cmd' = [cmd EXCEPT ![r] = C]
        /\ UNCHANGED <<now, store, granted, reported, charged>>
    BY <1>1, <1>7 DEF Look, TypeOK
  <2>2. C \in Command /\ C.pc = "fetch" /\ C.seen = store /\ C.clock = c.clock
        /\ C.op = c.op
    BY <1>1 DEF Command
  <2>3. TypeOK'
    BY <1>1, <2>1, <2>2 DEF TypeOK
  <2>4. cmd'[r] = C /\ \A q \in Run \ {r} : cmd'[q] = cmd[q]
    BY <1>1, <2>1 DEF TypeOK
  <2>5. c.pc # "idle"
    BY <1>7 DEF Look
  <2>6. CommandInv(cmd[r], r)'
    BY <1>1, <2>1, <2>2, <2>4, <2>5 DEF CommandInv
  <2> QED
    BY <1>2, <2>1, <2>3, <2>4, <2>6, QuietStep
<1>8. CASE Decide(r)
  <2> DEFINE C == [c EXCEPT !.pc = "push"]
  <2>1. cmd' = [cmd EXCEPT ![r] = C]
        /\ UNCHANGED <<now, store, granted, reported, charged>>
    BY <1>1, <1>8 DEF Decide, TypeOK
  <2>2. C \in Command /\ C.pc = "push" /\ C.seen = c.seen /\ C.clock = c.clock
        /\ C.op = c.op /\ C.claim = c.claim
    BY <1>1 DEF Command
  <2>3. TypeOK'
    BY <1>1, <2>1, <2>2 DEF TypeOK
  <2>4. cmd'[r] = C /\ \A q \in Run \ {r} : cmd'[q] = cmd[q]
    BY <1>1, <2>1 DEF TypeOK
  <2>5. /\ ValidLedger(c.seen) /\ c.seen.updated <= c.clock /\ c.pc # "idle"
        /\ MayCommit(c, r) /\ ValidLedger(Draft(c, r))
    BY <1>8 DEF Decide, Fetched
  <2>6. Draft(C, r) = Draft(c, r) /\ (MayCommit(C, r) <=> MayCommit(c, r))
    BY <2>2 DEF Draft, MayCommit, FreshId, Unmarked, MarkRow
  <2> HIDE DEF C
  <2>7. CommandInv(cmd[r], r)'
    BY <1>1, <2>1, <2>2, <2>4, <2>5, <2>6 DEF CommandInv
  <2> QED
    BY <1>2, <2>1, <2>3, <2>4, <2>7, QuietStep
<1>9. CASE AlreadyMarked(r)
  <2>1. reported' \in [Run -> Evidence \cup {NoEvidence}]
    BY <1>1, <1>9 DEF AlreadyMarked, TypeOK, Command
  <2> QED
    BY <1>1, <1>2, <1>3, <1>9, <2>1 DEF AlreadyMarked, TypeOK
<1>10. CASE Verify(r)
  <2>1. reported' \in [Run -> Evidence \cup {NoEvidence}]
    BY <1>1, <1>10 DEF Verify, TypeOK, Command
  <2>2. granted' \ {r} = granted \ {r} /\ granted' \in SUBSET Run
    BY <1>1, <1>10 DEF Verify, TypeOK
  <2>3. r \in granted' => \E d \in charged : d.id = r
    BY <1>1, <1>2, <1>10 DEF Verify, CommandInv
  <2> QED
    BY <1>3, <1>10, <2>1, <2>2, <2>3 DEF Verify
<1>11. CASE Return(r)
  BY <1>1, <1>2, <1>3, <1>11 DEF Return, TypeOK
<1>12. CASE Crash(r)
  <2>1. reported' \in [Run -> Evidence \cup {NoEvidence}]
    BY <1>1, <1>12 DEF Crash, TypeOK
  <2> QED
    BY <1>1, <1>3, <1>12, <2>1 DEF Crash, TypeOK
<1> QED
  BY <1>5, <1>6, <1>7, <1>8, <1>9, <1>10, <1>11, <1>12, PushStep DEF RunStep

\* The clock and the creation of the branch.
LEMMA TickKeeps == ASSUME IInv, Tick PROVE IInv'
<1>1. now' = now + 1 /\ now < MaxTime /\ now \in Nat /\ now' \in Nat
      /\ UNCHANGED <<store, cmd, granted, reported, charged>>
  BY DEF Tick, IInv, TypeOK
<1>2. TypeOK' /\ now' <= MaxTime
  BY <1>1, DomainAssumption DEF IInv, TypeOK
<1>3. \A r \in Run : CommandInv(cmd[r], r)'
  <2> SUFFICES ASSUME NEW r \in Run
               PROVE  CommandInv(cmd[r], r)'
    OBVIOUS
  <2>1. CommandInv(cmd[r], r) /\ cmd[r].clock \in Nat
    BY DEF IInv, TypeOK, Command
  <2> QED
    BY <1>1, <2>1 DEF CommandInv
<1> QED
  BY <1>1, <1>2, <1>3
     DEF IInv, LedgerReadable, Remembered, RollingCap, InWindow, PermitsCharged

\* The ledger is created before anything was charged, so that its seeds are all
\* there is to remember.
LEMMA InitializeKeeps ==
    ASSUME IInv, NEW t \in 0..MaxTime, NEW seeds \in SeedFile,
           Initialize(t, seeds)
    PROVE  IInv'
<1> DEFINE L == [updated |-> t, rows |-> seeds]
<1>1. /\ store = NoLedger /\ store' = L /\ ValidLedger(L)
      /\ UNCHANGED <<now, cmd, granted, reported, charged>>
  BY DEF Initialize
<1>2. t \in Nat /\ L \in Ledger /\ IsFiniteSet(L.rows)
  BY DomainAssumption, SeedAssumption DEF Ledger
<1>3. charged = {}
  <2> SUFFICES ASSUME NEW d \in charged
               PROVE  FALSE
    OBVIOUS
  <2>1. d.at \in Nat
    BY DEF IInv, TypeOK
  <2>2. d.at <= store.updated /\ store.updated = -1
    BY <1>1 DEF IInv, Remembered, NoLedger, NoTime
  <2> QED
    BY <2>1, <2>2
<1>4. TypeOK'
  BY <1>1, <1>2 DEF IInv, TypeOK
<1>5. \A r \in Run : CommandInv(cmd[r], r)'
  BY <1>1 DEF IInv, CommandInv
<1>6. (LedgerReadable /\ Remembered)'
  BY <1>1, <1>3 DEF LedgerReadable, Remembered
<1> QED
  BY <1>1, <1>2, <1>4, <1>5, <1>6
     DEF IInv, RollingCap, InWindow, PermitsCharged

\* Every step of a run, of the clock and of the initialization keeps it.
LEMMA Inductive == IInv /\ [Next]_vars => IInv'
<1> SUFFICES ASSUME IInv, [Next]_vars PROVE IInv'
  OBVIOUS
<1>1. CASE UNCHANGED vars
  BY <1>1 DEF vars, IInv, TypeOK, CommandInv, LedgerReadable, Remembered,
              RollingCap, InWindow, PermitsCharged
<1>2. CASE Next
  BY <1>2, RunStepKeeps, TickKeeps, InitializeKeeps DEF Next
<1> QED
  BY <1>1, <1>2

\* The ledger of the branch, what each run read from it and the permits that were
\* given agree in every state.
THEOREM Invariance == Spec => []IInv
<1>1. Init => IInv
  BY Initially
<1> QED
  BY <1>1, Inductive, PTL DEF Spec

\* Type correctness of the ledger, of what the commands hold, and of the history,
\* for every policy that load_policy accepts.
THEOREM TypeCorrect == Spec => []TypeOK
<1>1. IInv => TypeOK
  BY DEF IInv
<1> QED
  BY <1>1, Invariance, PTL

\* The branch always holds a ledger the tool can read.
THEOREM Readable == Spec => []LedgerReadable
<1>1. IInv => LedgerReadable
  BY DEF IInv
<1> QED
  BY <1>1, Invariance, PTL

\* No window of Window hours ever holds more than Cap charges.
THEOREM RollingCapHolds == Spec => []RollingCap
<1>1. IInv => RollingCap
  BY DEF IInv
<1> QED
  BY <1>1, Invariance, PTL

\* Permits are charged, and an attempt id is charged once per window.
THEOREM PermitsChargedHolds == Spec => []PermitsCharged
<1>1. IInv => PermitsCharged
  BY DEF IInv
<1> QED
  BY <1>1, Invariance, PTL

-----------------------------------------------------------------------------
\* The ledger implements the rolling permit.

\* A set of rows that the cadence gate lets through lies RetryInterval back.
LEMMA CadenceOpens ==
    ASSUME NEW rows \in SUBSET Row, IsFiniteSet(rows), NEW t \in Nat,
           ~IntervalGated(rows, t), NEW x \in rows
    PROVE  x.at + RetryInterval <= t
<1> DEFINE z == Latest(rows)
<1>1. z \in rows /\ x.at <= z.at
  BY LatestExists
<1>2. z.at \in Nat /\ x.at \in Nat
  BY <1>1, RowFields
<1>3. Interval(z) \in Nat /\ RetryInterval <= Interval(z)
  BY PolicyAssumption DEF Interval
<1>4. ~(t < z.at + Interval(z))
  BY <1>1 DEF IntervalGated
<1> HIDE DEF z
<1> QED
  BY <1>1, <1>2, <1>3, <1>4, PolicyAssumption

\* The push of a reservation is a Charge of the rolling permit.
LEMMA PushCharges ==
    ASSUME IInv, IInv', NEW r \in Run, Push(r), cmd[r].op = "reserve"
    PROVE  Permits!Charge(r, cmd[r].clock) /\ cmd[r].clock \in 0..MaxTime
<1> DEFINE c == cmd[r]
           t == c.clock
           new == [id |-> r, at |-> t]
           Before == {d \in charged : d.at > t - Window}
<1>1. /\ c \in Command /\ t \in Nat /\ now \in Nat
      /\ store \in Ledger /\ store.rows \in SUBSET Row
      /\ c.seen = store /\ IsFiniteSet(store.rows)
      /\ charged \in SUBSET [id : Run, at : Nat] /\ IsFiniteSet(charged)
      /\ \A d \in charged : d.at \in Nat
  BY DEF IInv, TypeOK, Push, LeaseHolds, Command, Ledger
<1>2. CommandInv(c, r) /\ c.pc = "push"
  BY DEF IInv, Push
<1>3. t \in 0..MaxTime
  BY <1>1, <1>2, DomainAssumption DEF IInv, CommandInv
<1>4. /\ ValidLedger(c.seen) /\ c.seen.updated <= t
      /\ FreshId(c, r) /\ ~IntervalGated(Active(store.rows, t), t)
  BY <1>1, <1>2 DEF CommandInv, MayCommit, Reservable
<1>5. store.updated \in Int
  BY <1>1 DEF Ledger, NoTime
<1>6. \A d \in charged : d.at > t - Window =>
        \E x \in Active(store.rows, t) : x.id = d.id /\ x.at = d.at
  <2> SUFFICES ASSUME NEW d \in charged, d.at > t - Window
               PROVE  \E x \in Active(store.rows, t) : x.id = d.id /\ x.at = d.at
    OBVIOUS
  <2>1. PICK x \in RuntimeRows(store.rows) : x.id = d.id /\ x.at = d.at
    BY <1>1, <1>4, <1>5, PolicyAssumption DEF IInv, Remembered
  <2> QED
    BY <2>1 DEF RuntimeRows, Active
<1>7. \A d \in charged : d.at + RetryInterval <= t
  <2> SUFFICES ASSUME NEW d \in charged
               PROVE  d.at + RetryInterval <= t
    OBVIOUS
  <2>1. CASE d.at <= t - Window
    BY <1>1, <2>1, PolicyAssumption
  <2>2. CASE d.at > t - Window
    <3>1. PICK x \in Active(store.rows, t) : x.at = d.at
      BY <1>6, <2>2
    <3>2. Active(store.rows, t) \in SUBSET Row
          /\ IsFiniteSet(Active(store.rows, t))
      BY <1>1, FS_Subset DEF Active
    <3> QED
      BY <1>1, <1>4, <3>1, <3>2, CadenceOpens
  <2> QED
    BY <1>1, <2>1, <2>2, PolicyAssumption
<1>8. \A d \in charged : d.id = r => d.at + Window <= t
  <2> SUFFICES ASSUME NEW d \in charged, d.id = r, d.at > t - Window
               PROVE  FALSE
    BY <1>1, PolicyAssumption
  <2> QED
    BY <1>1, <1>4, <1>6 DEF FreshId
<1>9. Cardinality(Before) < Cap
  <2>1. charged' = charged \cup {new} /\ new \in charged' /\ new.at = t
    BY DEF Push
  <2>2. PICK d \in charged' : d = new /\ d.at = t
    BY <2>1
  <2>3. Cardinality({e \in charged' : d.at - Window < e.at /\ e.at <= d.at}) <= Cap
    BY DEF IInv, RollingCap, InWindow
  <2>4. new \notin Before
    BY <1>1, <1>7, PolicyAssumption
  <2>7. {e \in charged' : d.at - Window < e.at /\ e.at <= d.at} = Before \cup {new}
    <3> SUFFICES ASSUME NEW e
                 PROVE  e \in charged' /\ d.at - Window < e.at /\ e.at <= d.at
                          <=> e \in Before \cup {new}
      OBVIOUS
    <3>1. CASE e = new
      BY <1>1, <2>1, <2>2, <3>1, PolicyAssumption
    <3>2. CASE e # new
      BY <1>1, <1>7, <2>1, <2>2, <3>2, PolicyAssumption
    <3> QED
      BY <3>1, <3>2
  <2>5. IsFiniteSet(Before)
    <3>1. Before \in SUBSET charged
      OBVIOUS
    <3> QED
      BY <1>1, <3>1, FS_Subset
  <2> HIDE DEF Before, new
  <2>6. Cardinality(Before \cup {new}) = Cardinality(Before) + 1
        /\ Cardinality(Before) \in Nat
    BY <2>4, <2>5, FS_AddElement, FS_CardinalityType
  <2> QED
    <3>1. Cardinality(Before \cup {new}) <= Cap
      BY <2>3, <2>7
    <3> QED
      BY <2>6, <3>1, PolicyAssumption
<1>10. charged' = charged \cup {new}
  BY DEF Push
<1> QED
  <2>1. Permits!Charge(r, t)
    BY <1>7, <1>8, <1>9, <1>10 DEF Permits!Charge, Permits!Cardinality, Cardinality
  <2> QED
    BY <1>3, <2>1

\* The ledger, which keeps one window, implements the permit counter that
\* remembers every charge.
THEOREM ImplementsPermit == Spec => PermitSpec
<1>1. Init => Permits!Init
  BY DEF Init, Permits!Init
<1>2. IInv /\ IInv' /\ [Next]_vars => [Permits!Next]_charged
  <2> SUFFICES ASSUME IInv, IInv', [Next]_vars, charged' # charged
               PROVE  Permits!Next
    OBVIOUS
  <2>1. PICK r \in Run : Push(r) /\ cmd[r].op = "reserve"
    BY DEF Next, vars, Tick, Initialize, RunStep, CallReserve, CallMark, Call,
           Look, Decide, AlreadyMarked, Push, Verify, Return, Crash
  <2> QED
    BY <2>1, PushCharges DEF Permits!Next
<1> QED
  BY <1>1, <1>2, Invariance, PTL DEF Spec, PermitSpec, Permits!Spec
-----------------------------------------------------------------------------
\* What a step may not do to the ledger.

\* What is known of a push when its lease holds: it replaces the very ledger it
\* was decided on, at a time not before that of the ledger.
LEMMA PushKnows ==
    ASSUME IInv, NEW r \in Run, Push(r)
    PROVE  /\ cmd[r] \in Command /\ cmd[r].seen = store
           /\ store \in Ledger /\ store.rows \in SUBSET Row
           /\ IsFiniteSet(store.rows)
           /\ ValidLedger(store) /\ MayCommit(cmd[r], r)
           /\ store' = Draft(cmd[r], r) /\ store'.updated = cmd[r].clock
<1>1. /\ cmd[r] \in Command /\ cmd[r].seen = store /\ cmd[r].pc = "push"
      /\ store \in Ledger /\ IsFiniteSet(store.rows)
      /\ store' = Draft(cmd[r], r)
  BY DEF IInv, TypeOK, Push, LeaseHolds
<1>2. CommandInv(cmd[r], r)
  BY DEF IInv
<1>3. ValidLedger(store) /\ MayCommit(cmd[r], r)
  BY <1>1, <1>2 DEF CommandInv
<1> QED
  BY <1>1, <1>3 DEF Ledger, Draft

\* A push loses no row of its window and changes no success on record: it marks
\* only rows that are not marked.
LEMMA PushPersists ==
    ASSUME IInv, NEW r \in Run, Push(r), NEW x \in store.rows
    PROVE  Persists(x)
<1> DEFINE c == cmd[r]
<1>1. /\ c \in Command /\ c.seen = store /\ store.rows \in SUBSET Row
      /\ store' = Draft(c, r) /\ store'.updated = c.clock
  BY PushKnows
<1> SUFFICES ASSUME x.at > c.clock - Window
             PROVE  \E y \in store'.rows : /\ y.id = x.id /\ y.at = x.at
                                           /\ x.succeeded # NoTime => y = x
  BY <1>1 DEF Persists
<1>2. x \in Active(c.seen.rows, c.clock) /\ x \in Row
  BY <1>1 DEF Active
<1>3. CASE c.op = "reserve" \/ x \notin Unmarked(c, r)
  <2>1. x \in store'.rows
    BY <1>1, <1>2, <1>3 DEF Draft
  <2> QED
    BY <2>1
<1>4. CASE c.op # "reserve" /\ x \in Unmarked(c, r)
  <2>1. MarkRow(x, c) \in store'.rows
    BY <1>1, <1>4 DEF Draft
  <2>2. MarkRow(x, c).id = x.id /\ MarkRow(x, c).at = x.at
    BY <1>2 DEF MarkRow, Row
  <2>3. x.succeeded = NoTime
    BY <1>4 DEF Unmarked
  <2> QED
    BY <2>1, <2>2, <2>3
<1> QED
  BY <1>3, <1>4

\* No command, whatever other commands came between its look and its push, drops
\* a charge of the window or alters a recorded success.
THEOREM ChargesPersistHolds == Spec => ChargesPersist
<1>1. ASSUME IInv, [Next]_vars, store' # store, NEW x \in store.rows
      PROVE  Persists(x)
  <2>1. (\E r \in Run : Push(r)) \/ store = NoLedger
    BY <1>1 DEF Next, vars, Tick, Initialize, RunStep, CallReserve, CallMark, Call,
           Look, Decide, AlreadyMarked, Push, Verify, Return, Crash
  <2>2. store # NoLedger
    BY <1>1 DEF NoLedger
  <2> QED
    BY <1>1, <2>1, <2>2, PushPersists
<1>2. IInv /\ [Next]_vars => [\A x \in store.rows : Persists(x)]_vars
  <2> SUFFICES ASSUME IInv, [Next]_vars, store' = store, NEW x \in store.rows
               PROVE  Persists(x)
    BY <1>1
  <2> QED
    BY DEF Persists
<1> QED
  BY <1>2, Invariance, PTL DEF Spec, ChargesPersist

\* The latest of a set of rows is the latest of every part that holds it.
LEMMA LatestOfPart ==
    ASSUME NEW rows \in SUBSET Row, IsFiniteSet(rows),
           \A x, y \in rows : x.id = y.id => x = y,
           NEW part \in SUBSET rows, Latest(rows) \in part
    PROVE  Latest(part) = Latest(rows)
<1> DEFINE z == Latest(rows)
           w == Latest(part)
<1>1. rows # {} /\ part # {} /\ part \in SUBSET Row /\ IsFiniteSet(part)
  BY FS_Subset
<1>2. z \in part /\ w \in part /\ NotAfter(z, w) /\ NotAfter(w, z)
  BY <1>1, LatestExists
<1>3. z.at \in Nat /\ w.at \in Nat /\ z.id \in Nat /\ w.id \in Nat
  BY <1>1, <1>2, RowFields
<1>4. z.id = w.id
  BY <1>2, <1>3 DEF NotAfter
<1> QED
  BY <1>2, <1>4

\* The push of a reservation finds its cadence kept against every row.
LEMMA PushKeepsCadence ==
    ASSUME IInv, NEW r \in Run, Push(r), cmd[r].op = "reserve",
           NEW x \in store.rows
    PROVE  cmd[r].clock >= x.at + (IF x = Latest(store.rows) THEN Interval(x)
                                                            ELSE RetryInterval)
<1> DEFINE c == cmd[r]
           t == c.clock
           part == Active(store.rows, t)
<1>1. /\ c \in Command /\ c.seen = store /\ store.rows \in SUBSET Row
      /\ IsFiniteSet(store.rows) /\ ValidLedger(store) /\ MayCommit(c, r)
  BY PushKnows
<1>2. /\ t \in Nat /\ x \in Row /\ x.at \in Nat
      /\ \A y, z \in store.rows : y.id = z.id => y = z
      /\ ~IntervalGated(part, t)
  BY <1>1, RowFields DEF Command, ValidLedger, MayCommit, Reservable
<1>3. part \in SUBSET store.rows /\ part \in SUBSET Row /\ IsFiniteSet(part)
  BY <1>1, FS_Subset DEF Active
<1>4. /\ Interval(x) \in Nat /\ RetryInterval \in Nat /\ Window \in Nat
      /\ Interval(x) < Window /\ RetryInterval < Window
  BY PolicyAssumption DEF Interval
<1>5. CASE x \notin part
  <2>1. x.at <= t - Window
    BY <1>2, <1>4, <1>5 DEF Active
  <2> QED
    BY <1>2, <1>4, <2>1
<1>6. CASE x \in part /\ x = Latest(store.rows)
  <2>1. Latest(part) = x
    BY <1>1, <1>2, <1>3, <1>6, LatestOfPart
  <2>2. ~(t < x.at + Interval(x))
    BY <1>2, <1>6, <2>1 DEF IntervalGated
  <2> QED
    BY <1>2, <1>4, <1>6, <2>2
<1>7. CASE x \in part /\ x # Latest(store.rows)
  <2>1. x.at + RetryInterval <= t
    BY <1>2, <1>3, <1>7, CadenceOpens
  <2> QED
    BY <1>2, <1>4, <1>7, <2>1
<1> QED
  BY <1>5, <1>6, <1>7

\* When a charge takes effect, the cadence is kept against every row then on the
\* branch, also against one marked successful after the command was decided.
THEOREM CadenceKeptHolds == Spec => CadenceKept
<1> DEFINE Kept == \A x \in store.rows : \A c \in charged' \ charged :
                      c.at >= x.at + (IF x = Latest(store.rows) THEN Interval(x)
                                                                ELSE RetryInterval)
<1>1. ASSUME IInv, [Next]_vars, charged' # charged PROVE Kept
  <2>1. PICK r \in Run : Push(r) /\ cmd[r].op = "reserve"
    BY <1>1 DEF Next, vars, Tick, Initialize, RunStep, CallReserve, CallMark, Call,
           Look, Decide, AlreadyMarked, Push, Verify, Return, Crash
  <2>2. charged' = charged \cup {[id |-> r, at |-> cmd[r].clock]}
    BY <2>1 DEF Push
  <2>3. \A c \in charged' \ charged : c.at = cmd[r].clock
    BY <2>2
  <2> QED
    BY <1>1, <2>1, <2>3, PushKeepsCadence
<1>2. IInv /\ [Next]_vars => [charged' # charged => Kept]_vars
  BY <1>1
<1> QED
  BY <1>2, Invariance, PTL DEF Spec, CadenceKept
=============================================================================
