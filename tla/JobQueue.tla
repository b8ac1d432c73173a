------------------------------ MODULE JobQueue ------------------------------
(***************************************************************************)
(* The durable job store (job_runs) and the daily budget of provider       *)
(* calls that shares its transactions.  A worker's lease is (job, owner,   *)
(* attempt); every report is accepted only under the lease it names.       *)
(*                                                                         *)
(* Times are kept relative to the clock, in ticks: due is available_at -   *)
(* now and lease is lease_expires_at - now.  A claim may come with a       *)
(* reading of the clock that is "stale" ticks old, as the worker's loop    *)
(* passes one; the other calls read the clock in their own tick.           *)
(*                                                                         *)
(* Next is the store with arbitrary clients: any lease that was ever       *)
(* issued may be reported on at any time.                                  *)
(***************************************************************************)
EXTENDS Integers, FiniteSets

CONSTANTS
    Jobs,           \* content-addressed job identities
    NoJob,          \* claim() returned None
    Workers,        \* lease owners
    NoWorker,       \* the owner of a row that is not leased
    Base,           \* max_attempts of each job's new row
    Lease,          \* lease_seconds
    Retry,          \* retry_seconds of a failure report
    Limit,          \* daily_limit of provider calls
    MaxStale        \* bound: age of a clock reading; older times are alike

ASSUME NamesAssumption == NoJob \notin Jobs /\ NoWorker \notin Workers
ASSUME QueueAssumption ==
    /\ IsFiniteSet(Jobs)
    /\ Base \in [Jobs -> Nat \ {0}] /\ Lease \in Nat \ {0} /\ Retry \in Nat
    /\ Limit \in Nat \ {0} /\ MaxStale \in Nat

VARIABLES
    row,        \* job_runs by job
    used        \* reservations counted for the current Shanghai day

queueVars == <<row, used>>

\* available_at is the next midnight: later than every retry delay.
NextDay == Retry + 1

Absent(j) == [status |-> "absent", attempt |-> 0, max |-> Base[j],
                 born |-> 0, due |-> 0, owner |-> NoWorker, lease |-> 0]

QueueTypeOK ==
    /\ row \in [Jobs ->
         [status : {"absent", "queued", "running", "succeeded", "failed"},
          attempt : Nat,
          max : Nat,
          born : Nat,
          due : (-MaxStale)..NextDay,
          owner : Workers \union {NoWorker},
          lease : (-MaxStale)..Lease]]
    /\ used \in 0..Limit

QueueInit ==
    /\ row = [j \in Jobs |-> Absent(j)]
    /\ used = 0

\* require_job_lease(): the row still runs this attempt of this owner.
HoldsLease(j, w, a) ==
    /\ row[j].status = "running"
    /\ row[j].owner = w
    /\ row[j].attempt = a
    /\ row[j].lease > 0

Unleased(r, status) ==
    [r EXCEPT !.status = status, !.owner = NoWorker, !.lease = 0]

-----------------------------------------------------------------------------
Stored == {j \in Jobs : row[j].status # "absent"}

\* A batch, in one transaction.  A row that exists already is left as it is: ON CONFLICT DO NOTHING.
Enqueue(S) ==
    /\ row' = [j \in Jobs |->
                 IF j \in S /\ row[j].status = "absent"
                 THEN [row[j] EXCEPT !.status = "queued",
                                     !.born = 1 + Cardinality(Stored)]
                 ELSE row[j]]
    /\ UNCHANGED used

\* The rows a claim over S sees as lapsed, and the ones it may start.
Lapsed(j, stale) == row[j].status = "running" /\ row[j].lease <= -stale

\* Faulty: a lapsed row without an attempt left stays as it is.
ExhaustedNever(S, stale) == {j \in S : FALSE}

Exhausted(S, stale) ==
    {j \in S : Lapsed(j, stale) /\ row[j].attempt >= row[j].max}

Claimable(S, stale) ==
    {j \in S : /\ row[j].attempt < row[j].max
               /\ \/ row[j].status = "queued" /\ row[j].due <= -stale
                  \/ Lapsed(j, stale)}

\* ORDER BY created_at, job_id: the rows of a batch are ordered by identity.
Oldest(S) == CHOOSE j \in S : \A k \in S : row[j].born <= row[k].born

\* What claim() returns.
Claimed(S, stale) ==
    IF Claimable(S, stale) = {} THEN NoJob ELSE Oldest(Claimable(S, stale))

Started(r, w, stale) ==
    [r EXCEPT !.status = "running", !.attempt = @ + 1, !.owner = w,
              !.lease = Lease - stale]

\* One transaction: fail the lapsed rows without an attempt left, then lease
\* the oldest row that is due or lapsed.  The new lease counts from the
\* caller's reading of the clock.
Claim(S, w, stale) ==
    /\ row' = [j \in Jobs |->
                 IF j \in Exhausted(S, stale) THEN Unleased(row[j], "failed")
                 ELSE IF j = Claimed(S, stale) THEN Started(row[j], w, stale)
                 ELSE row[j]]
    /\ UNCHANGED used

Heartbeat(j) ==
    /\ row' = [row EXCEPT ![j].lease = Lease]
    /\ UNCHANGED used

Finish(j) ==
    /\ row' = [row EXCEPT ![j] = Unleased(@, "succeeded")]
    /\ UNCHANGED used

\* Faulty: one attempt more than the allowance.
ReportedOnceMore(r, retryable, preserve) ==
    LET max == IF preserve THEN r.max + 1 ELSE r.max
    IN  [Unleased(r, IF r.attempt > max \/ ~retryable THEN "failed"
                                                      ELSE "queued")
           EXCEPT !.max = max, !.due = Retry]

\* fail(): "preserve" gives the claim slot of this attempt back.
Reported(r, retryable, preserve) ==
    LET max == IF preserve THEN r.max + 1 ELSE r.max
    IN  [Unleased(r, IF r.attempt >= max \/ ~retryable THEN "failed"
                                                       ELSE "queued")
           EXCEPT !.max = max, !.due = Retry]

Fail(j, retryable, preserve) ==
    /\ row' = [row EXCEPT ![j] = Reported(@, retryable, preserve)]
    /\ UNCHANGED used

BudgetSpent == used >= Limit

\* reserve_market_daily_provider_call(): count the call before it is made,
\* or put the job back until the next budget day.
CountCall ==
    /\ ~BudgetSpent
    /\ used' = used + 1
    /\ UNCHANGED row

Deferred(r) == [Unleased(r, "queued") EXCEPT !.max = @ + 1, !.due = NextDay]

Defer(j) ==
    /\ BudgetSpent
    /\ row' = [row EXCEPT ![j] = Deferred(@)]
    /\ UNCHANGED used

\* stop_queued(): an operator ends a queued retry.
StopQueued(j) ==
    /\ row[j].status = "queued"
    /\ row' = [row EXCEPT ![j].status = "failed"]
    /\ UNCHANGED used

-----------------------------------------------------------------------------
\* Faulty: a time already past is not kept within the bound.
EarlierUnbounded(t) == t - 1

Earlier(t) == IF t > -MaxStale THEN t - 1 ELSE t

\* A tick of the clock.  A deferred row waits for midnight, not for a tick.
PassTick ==
    /\ row' = [j \in Jobs |->
                 [row[j] EXCEPT
                    !.due = IF @ = NextDay THEN @ ELSE Earlier(@),
                    !.lease = IF row[j].status = "running" THEN Earlier(@)
                                                           ELSE @]]
    /\ UNCHANGED used

\* Midnight in Shanghai: the budget counts a new day.
PassMidnight ==
    /\ row' = [j \in Jobs |->
                 [row[j] EXCEPT !.due = IF @ = NextDay THEN 0 ELSE @]]
    /\ used' = 0

-----------------------------------------------------------------------------
\* A call of the store by any client, under any lease.
LeasedCall(j, w, a) ==
    /\ HoldsLease(j, w, a)
    /\ \/ Heartbeat(j)
       \/ Finish(j)
       \/ \E retryable \in BOOLEAN : Fail(j, retryable, FALSE)
       \/ Fail(j, TRUE, TRUE)
       \/ Defer(j)
       \/ CountCall

QueueNext ==
    \/ \E S \in SUBSET Jobs : Enqueue(S)
    \/ \E S \in SUBSET Jobs, w \in Workers, stale \in 0..MaxStale :
          Claim(S, w, stale)
    \/ \E j \in Jobs, w \in Workers, a \in Nat :
          LeasedCall(j, w, a)
    \/ \E j \in Jobs : StopQueued(j)
    \/ PassTick
    \/ PassMidnight

QueueSpec == QueueInit /\ [][QueueNext]_queueVars

-----------------------------------------------------------------------------
\* The queue keeps the promise of AttemptAllowance: the claim slots that
\* were given back are not charged to the job (jobs.py:257-384).
Allowance == INSTANCE AttemptAllowance WITH
    state <- [j \in Jobs |-> IF row[j].status \in {"queued", "running"}
                             THEN "open" ELSE row[j].status],
    charged <- [j \in Jobs |-> row[j].attempt - (row[j].max - Base[j])],
    held <- [j \in Jobs |-> row[j].status = "running"]

KeepsAllowance == Allowance!Spec
=============================================================================
