-------------------------- MODULE GuardedCollection -------------------------
(***************************************************************************)
(* The attempt ledger and the request guard together, as the "Data         *)
(* Collection" job of .github/workflows/hourly-master.yml composes them:   *)
(* a job that reserves an attempt may start JobAllowance transports until  *)
(* it ends or its timeout kills it.                                        *)
(*                                                                         *)
(* The ledger is its abstract specification RollingPermit, which           *)
(* AttemptBudget implements; the guard of one job is the counter of        *)
(* StartAllowance, which RequestGuard implements.                          *)
(***************************************************************************)
EXTENDS Integers, FiniteSets

CONSTANTS
    Run,            \* attempt ids, one per run id and run attempt
    Window,         \* window_hours of the ledger
    Cap,            \* max_request_bearing_attempts
    RetryInterval,  \* failed_retry_interval_minutes
    JobAllowance,   \* request_start_allowance
    JobTimeout,     \* timeout-minutes of the job
    Day,            \* the rolling window of the provider's quota
    MaxTime         \* BOUND: the clock stops here

\* The ledger remembers an attempt for longer than a day and a job.
ASSUME CollectionAssumption ==
    /\ Window \in Nat \ {0} /\ Cap \in Nat /\ RetryInterval \in Nat
    /\ JobAllowance \in Nat /\ JobTimeout \in Nat /\ Day \in Nat /\ MaxTime \in Nat
    /\ Day + JobTimeout <= Window

Time == 0..MaxTime

VARIABLES
    now,        \* the clock
    charged,    \* the charges of the ledger
    used,       \* used[r]: transports started by the job of run r
    over,       \* the runs whose job has ended
    transports  \* history: every transport, with its charge, number and time

collectionVars == <<now, charged, used, over, transports>>

Permits == INSTANCE RollingPermit

Charges == [id : Run, at : Time]

CollectionInit ==
    /\ now = 0 /\ charged = {} /\ transports = {} /\ over = {}
    /\ used = [r \in Run |-> 0]

\* The reservation step: a job reserves once, under its own attempt id, and
\* initializes its guard file.
Reserve(r) ==
    /\ r \notin over /\ \A c \in charged : c.id # r
    /\ Permits!Charge(r, now)
    /\ UNCHANGED <<now, used, over, transports>>

\* MUTANT of TimedOut: a job without a timeout.
TimedOutNever(c) == FALSE

\* The timeout of the job, counted from its reservation at the earliest.
TimedOut(c) == now > c.at + JobTimeout

Spent(r) == used[r] >= JobAllowance

\* A collector step of a job that holds the charge c.
StartNext(c) ==
    /\ c.id \notin over /\ ~TimedOut(c) /\ ~Spent(c.id)
    /\ used' = [used EXCEPT ![c.id] = @ + 1]
    /\ transports' = transports \cup {[by |-> c, n |-> used[c.id] + 1, at |-> now]}
    /\ UNCHANGED <<now, charged, over>>

\* The job ends, with or without a reservation.
End(r) ==
    /\ r \notin over
    /\ over' = over \cup {r}
    /\ UNCHANGED <<now, charged, used, transports>>

Later ==
    /\ now < MaxTime
    /\ now' = now + 1
    /\ UNCHANGED <<charged, used, over, transports>>

CollectionNext ==
    \/ Later
    \/ \E r \in Run : Reserve(r) \/ End(r)
    \/ \E c \in charged : StartNext(c)

CollectionSpec == CollectionInit /\ [][CollectionNext]_collectionVars

-----------------------------------------------------------------------------
\* Type correctness; no job starts more transports than its allowance.
CollectionTypeOK ==
    /\ now \in Time /\ charged \subseteq Charges
    /\ used \in [Run -> 0..JobAllowance] /\ over \subseteq Run
    /\ transports \subseteq [by : charged, n : 1..JobAllowance, at : Time]

\* The transports of the day that ends at time t.
StartsIn(t) == {s \in transports : t - Day < s.at /\ s.at <= t}

\* The provider sees at most Cap * JobAllowance transports in every rolling day,
\* also when the jobs that make them outlive the window their charge began in.
DayBound == \A t \in Time : Cardinality(StartsIn(t)) <= Cap * JobAllowance
=============================================================================
