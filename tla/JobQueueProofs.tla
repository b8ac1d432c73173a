--------------------------- MODULE JobQueueProofs ---------------------------
(***************************************************************************)
(* Proofs about JobQueue, for any jobs, workers, allowances and delays:    *)
(* the rows keep their shape, and the queue keeps the promise of           *)
(* AttemptAllowance whatever its clients report and whenever.              *)
(***************************************************************************)
EXTENDS JobQueue, TLAPS, FiniteSetTheorems, WellFoundedInduction

-----------------------------------------------------------------------------
(***************************************************************************)
(* What a claim returns.                                                   *)
(***************************************************************************)
\* The ORDER BY of a claim has a first row: the times of the rows are naturals.
LEMMA OldestExists ==
    ASSUME QueueTypeOK, NEW S \in SUBSET Jobs, S # {}
    PROVE  Oldest(S) \in S
<1> DEFINE Births == {row[j].born : j \in S}
<1>1. Births \subseteq Nat /\ Births # {}
  BY DEF QueueTypeOK
<1>2. \E x \in Births : \A y \in Births : ~ (<<y, x>> \in OpToRel(<, Nat))
  BY <1>1, WFMin, NatLessThanWellFounded
<1>3. PICK x \in Births : \A y \in Births : ~ (<<y, x>> \in OpToRel(<, Nat))
  BY <1>2
<1>4. \A y \in Births : x <= y
  <2> SUFFICES ASSUME NEW y \in Births PROVE x <= y
    OBVIOUS
  <2>1. x \in Nat /\ y \in Nat
    BY <1>1
  <2>2. ~ (y < x)
    BY <1>3, <2>1 DEF OpToRel
  <2> QED
    BY <2>1, <2>2
<1>5. \E j \in S : \A k \in S : row[j].born <= row[k].born
  BY <1>4
<1> QED
  BY <1>5 DEF Oldest

LEMMA ClaimedIsClaimable ==
    ASSUME QueueTypeOK, NEW S \in SUBSET Jobs, NEW stale \in Int
    PROVE  /\ Claimable(S, stale) \subseteq S
           /\ Claimed(S, stale) \in Claimable(S, stale) \union {NoJob}
           /\ Claimed(S, stale) \in Jobs =>
                 Claimed(S, stale) \in Claimable(S, stale)
<1>1. Claimable(S, stale) \subseteq S
  BY DEF Claimable
<1>2. CASE Claimable(S, stale) = {}
  BY <1>1, <1>2, NamesAssumption DEF Claimed
<1>3. CASE Claimable(S, stale) # {}
  <2>1. Oldest(Claimable(S, stale)) \in Claimable(S, stale)
    BY <1>1, <1>3, OldestExists
  <2> QED
    BY <1>1, <1>3, <2>1 DEF Claimed
<1> QED
  BY <1>2, <1>3
-----------------------------------------------------------------------------
(***************************************************************************)
(* The inductive invariant.  A row that is not stored is as new; the slots *)
(* that were given back never run ahead of the attempts; a queued row has  *)
(* an attempt left, so a claim can always start it.                        *)
(***************************************************************************)
RowInv(j) ==
    /\ row[j].status = "absent" => row[j].attempt = 0 /\ row[j].max = Base[j]
    /\ row[j].status = "queued" => row[j].attempt < row[j].max
    /\ row[j].attempt <= row[j].max

QueueInv == QueueTypeOK /\ \A j \in Jobs : RowInv(j)

Rows ==
    [status : {"absent", "queued", "running", "succeeded", "failed"},
     attempt : Nat,
     max : Nat,
     born : Nat,
     due : (-MaxStale)..NextDay,
     owner : Workers \union {NoWorker},
     lease : (-MaxStale)..Lease]

\* What one row may become in a step, with the invariant kept.
Sound(r, j) ==
    /\ r \in Rows
    /\ r.status = "absent" => r.attempt = 0 /\ r.max = Base[j]
    /\ r.status = "queued" => r.attempt < r.max
    /\ r.attempt <= r.max

LEMMA SoundRows ==
    QueueInv <=> /\ row = [j \in Jobs |-> row[j]]
                 /\ \A j \in Jobs : Sound(row[j], j)
                 /\ used \in 0..Limit
BY DEF QueueInv, QueueTypeOK, RowInv, Sound, Rows

LEMMA QueueInvInit == QueueInit => QueueInv
<1> SUFFICES ASSUME QueueInit PROVE QueueInv
  OBVIOUS
<1>1. \A j \in Jobs : Base[j] \in Nat
  BY QueueAssumption
<1>2. \A j \in Jobs : Absent(j) \in Rows
  BY <1>1, QueueAssumption DEF Absent, Rows, NextDay
<1> QED
  BY <1>1, <1>2, QueueAssumption
  DEF QueueInit, QueueInv, QueueTypeOK, RowInv, Rows, Absent

\* The next row, when every row was sound and each becomes a sound one.
LEMMA SoundStep ==
    ASSUME NEW f, row' = [j \in Jobs |-> f[j]],
           \A j \in Jobs : Sound(f[j], j),
           used' \in 0..Limit
    PROVE  QueueInv'
BY DEF QueueInv, QueueTypeOK, RowInv, Sound, Rows

LEMMA UnleasedSound ==
    ASSUME NEW j \in Jobs, NEW r, Sound(r, j),
           NEW s \in {"succeeded", "failed"}
    PROVE  Sound(Unleased(r, s), j)
<1>1. 0 \in (-MaxStale)..Lease
  BY QueueAssumption
<1> QED
  BY <1>1 DEF Sound, Rows, Unleased

LEMMA StartedSound ==
    ASSUME NEW j \in Jobs, NEW r, Sound(r, j), r.attempt < r.max,
           NEW w \in Workers, NEW stale \in 0..MaxStale
    PROVE  Sound(Started(r, w, stale), j)
<1>1. Lease - stale \in (-MaxStale)..Lease
  BY QueueAssumption
<1>2. r.attempt \in Nat /\ r.max \in Nat /\ r.attempt + 1 \in Nat /\ r.attempt + 1 <= r.max
  BY DEF Sound, Rows
<1> QED
  BY <1>1, <1>2 DEF Sound, Rows, Started

LEMMA ReportedSound ==
    ASSUME NEW j \in Jobs, NEW r, Sound(r, j),
           NEW retryable \in BOOLEAN, NEW preserve \in BOOLEAN
    PROVE  Sound(Reported(r, retryable, preserve), j)
<1> DEFINE max == IF preserve THEN r.max + 1 ELSE r.max
<1>1. r.attempt \in Nat /\ r.max \in Nat /\ max \in Nat /\ r.attempt <= max
  BY DEF Sound, Rows
<1>2. Retry \in (-MaxStale)..NextDay /\ 0 \in (-MaxStale)..Lease
  BY QueueAssumption DEF NextDay
<1>3. CASE r.attempt >= max \/ ~retryable
  BY <1>1, <1>2, <1>3 DEF Sound, Rows, Reported, Unleased
<1>4. CASE ~(r.attempt >= max \/ ~retryable)
  <2>1. r.attempt < max
    BY <1>1, <1>4
  <2>2. Reported(r, retryable, preserve) =
          [[Unleased(r, "queued") EXCEPT !.max = max] EXCEPT !.due = Retry]
    BY <1>4 DEF Reported
  <2> QED
    BY <1>1, <1>2, <2>1, <2>2 DEF Sound, Rows, Unleased
<1> QED
  BY <1>3, <1>4

LEMMA DeferredSound ==
    ASSUME NEW j \in Jobs, NEW r, Sound(r, j)
    PROVE  Sound(Deferred(r), j)
<1>1. NextDay \in (-MaxStale)..NextDay /\ 0 \in (-MaxStale)..Lease
  BY QueueAssumption DEF NextDay
<1>2. r.max + 1 \in Nat /\ r.attempt < r.max + 1 /\ r.attempt <= r.max + 1
  BY DEF Sound, Rows
<1> QED
  BY <1>1, <1>2 DEF Sound, Rows, Deferred, Unleased
-----------------------------------------------------------------------------
(***************************************************************************)
(* The refinement, row by row: what the abstract queue sees of a row, and  *)
(* the moves it knows.                                                     *)
(***************************************************************************)
StateOf(r) == IF r.status \in {"queued", "running"} THEN "open" ELSE r.status
ChargedTo(r, j) == r.attempt - (r.max - Base[j])
IsHeld(r) == r.status = "running"

Turns(q, j, s, c, h) == StateOf(q) = s /\ ChargedTo(q, j) = c /\ IsHeld(q) = h

RowMoves(r, q, j) ==
    \/ StateOf(r) = "absent" /\ Turns(q, j, "open", 0, FALSE)
    \/ /\ StateOf(r) = "open"
       /\ \/ /\ ChargedTo(r, j) < Base[j]
             /\ Turns(q, j, "open", ChargedTo(r, j) + 1, TRUE)
          \/ /\ IsHeld(r) /\ ChargedTo(r, j) < Base[j]
             /\ Turns(q, j, "open", ChargedTo(r, j), FALSE)
          \/ IsHeld(r) /\ Turns(q, j, "open", ChargedTo(r, j) - 1, FALSE)
          \/ IsHeld(r) /\ Turns(q, j, "succeeded", ChargedTo(r, j), FALSE)
          \/ Turns(q, j, "failed", ChargedTo(r, j), FALSE)
    \/ Turns(q, j, StateOf(r), ChargedTo(r, j), IsHeld(r))

Kept(r, q, j) == Sound(q, j) /\ RowMoves(r, q, j)

\* What every step is shown to do.
Simulated == QueueInv' /\ [Allowance!Next]_Allowance!vars

LEMMA RowsSimulate ==
    ASSUME QueueInv, NEW f, row' = [j \in Jobs |-> f[j]],
           \A j \in Jobs : Kept(row[j], f[j], j),
           used' \in 0..Limit
    PROVE  Simulated
<1>1. QueueInv'
  BY SoundStep DEF Kept
<1>2. ASSUME NEW j \in Jobs PROVE Allowance!Move(j) \/ Allowance!Stay(j)
  <2>1. RowMoves(row[j], f[j], j) /\ row'[j] = f[j]
    BY DEF Kept
  <2> QED
    BY <2>1
    DEF RowMoves, Turns, StateOf, ChargedTo, IsHeld,
        Allowance!Move, Allowance!Stay, Allowance!Admit, Allowance!Begin,
        Allowance!PutBack, Allowance!Forgive, Allowance!Succeed,
        Allowance!GiveUp, Allowance!Becomes
<1> QED
  BY <1>1, <1>2 DEF Simulated, Allowance!Next

LEMMA RowStays ==
    ASSUME NEW j \in Jobs, NEW r, Sound(r, j), NEW q, Sound(q, j),
           q.status = r.status, q.attempt = r.attempt, q.max = r.max
    PROVE  Kept(r, q, j)
BY DEF Kept, RowMoves, Turns, StateOf, ChargedTo, IsHeld

LEMMA RowFails ==
    ASSUME NEW j \in Jobs, NEW r, Sound(r, j), StateOf(r) = "open"
    PROVE  Kept(r, Unleased(r, "failed"), j)
<1>1. Sound(Unleased(r, "failed"), j)
  BY UnleasedSound
<1>2. Turns(Unleased(r, "failed"), j, "failed", ChargedTo(r, j), FALSE)
  BY DEF Turns, StateOf, ChargedTo, IsHeld, Unleased, Sound, Rows
<1> QED
  BY <1>1, <1>2 DEF Kept, RowMoves

LEMMA RowStarts ==
    ASSUME NEW j \in Jobs, NEW r, Sound(r, j), r.attempt < r.max,
           r.status \in {"queued", "running"},
           NEW w \in Workers, NEW stale \in 0..MaxStale
    PROVE  Kept(r, Started(r, w, stale), j)
<1>1. Sound(Started(r, w, stale), j)
  BY StartedSound
<1>2. Base[j] \in Nat /\ r.attempt \in Nat /\ r.max \in Nat
  BY QueueAssumption DEF Sound, Rows
<1>3. ChargedTo(r, j) < Base[j]
  BY <1>2 DEF ChargedTo
<1>4. Turns(Started(r, w, stale), j, "open", ChargedTo(r, j) + 1, TRUE)
  BY <1>2 DEF Turns, StateOf, ChargedTo, IsHeld, Started, Sound, Rows
<1> QED
  BY <1>1, <1>3, <1>4 DEF Kept, RowMoves, StateOf

LEMMA RowReports ==
    ASSUME NEW j \in Jobs, NEW r, Sound(r, j), r.status = "running",
           NEW retryable \in BOOLEAN, NEW preserve \in BOOLEAN,
           preserve => retryable
    PROVE  Kept(r, Reported(r, retryable, preserve), j)
<1> DEFINE q == Reported(r, retryable, preserve)
           max == IF preserve THEN r.max + 1 ELSE r.max
<1>1. Sound(q, j)
  BY ReportedSound
<1>2. Base[j] \in Nat /\ r.attempt \in Nat /\ r.max \in Nat /\ r.attempt <= r.max
  BY QueueAssumption DEF Sound, Rows
<1>3. /\ q.attempt = r.attempt /\ q.max = max
      /\ q.status = IF r.attempt >= max \/ ~retryable THEN "failed" ELSE "queued"
  BY DEF Reported, Unleased, Sound, Rows
<1>4. CASE preserve
  <2>1. q.status = "queued" /\ q.max = r.max + 1
    BY <1>2, <1>3, <1>4
  <2>2. Turns(q, j, "open", ChargedTo(r, j) - 1, FALSE)
    BY <1>2, <1>3, <2>1 DEF Turns, StateOf, ChargedTo, IsHeld
  <2> QED
    BY <1>1, <2>2 DEF Kept, RowMoves, StateOf, IsHeld
<1>5. CASE ~preserve /\ q.status = "failed"
  <2>1. Turns(q, j, "failed", ChargedTo(r, j), FALSE)
    BY <1>2, <1>3, <1>5 DEF Turns, StateOf, ChargedTo, IsHeld
  <2> QED
    BY <1>1, <2>1 DEF Kept, RowMoves, StateOf, IsHeld
<1>6. CASE ~preserve /\ q.status = "queued"
  <2>1. ChargedTo(r, j) < Base[j]
    BY <1>2, <1>3, <1>6 DEF ChargedTo
  <2>2. Turns(q, j, "open", ChargedTo(r, j), FALSE)
    BY <1>2, <1>3, <1>6 DEF Turns, StateOf, ChargedTo, IsHeld
  <2> QED
    BY <1>1, <2>1, <2>2 DEF Kept, RowMoves, StateOf, IsHeld
<1> QED
  BY <1>3, <1>4, <1>5, <1>6

LEMMA RowDefers ==
    ASSUME NEW j \in Jobs, NEW r, Sound(r, j), r.status = "running"
    PROVE  Kept(r, Deferred(r), j)
<1>1. Sound(Deferred(r), j)
  BY DeferredSound
<1>2. Base[j] \in Nat /\ r.attempt \in Nat /\ r.max \in Nat
  BY QueueAssumption DEF Sound, Rows
<1>3. Turns(Deferred(r), j, "open", ChargedTo(r, j) - 1, FALSE)
  BY <1>2 DEF Turns, StateOf, ChargedTo, IsHeld, Deferred, Unleased, Sound, Rows
<1> QED
  BY <1>1, <1>3 DEF Kept, RowMoves, StateOf, IsHeld

LEMMA RowFinishes ==
    ASSUME NEW j \in Jobs, NEW r, Sound(r, j), r.status = "running"
    PROVE  Kept(r, Unleased(r, "succeeded"), j)
<1>1. Sound(Unleased(r, "succeeded"), j)
  BY UnleasedSound
<1>2. Turns(Unleased(r, "succeeded"), j, "succeeded", ChargedTo(r, j), FALSE)
  BY DEF Turns, StateOf, ChargedTo, IsHeld, Unleased, Sound, Rows
<1> QED
  BY <1>1, <1>2 DEF Kept, RowMoves, StateOf, IsHeld
-----------------------------------------------------------------------------
(***************************************************************************)
(* The actions.                                                            *)
(***************************************************************************)
LEMMA UnchangedRow ==
    ASSUME QueueInv, NEW j \in Jobs
    PROVE  Sound(row[j], j) /\ Kept(row[j], row[j], j)
BY SoundRows, RowStays

\* A step that changes the row of one job.
LEMMA OneRow ==
    ASSUME QueueInv, NEW j \in Jobs, NEW q, row' = [row EXCEPT ![j] = q],
           Kept(row[j], q, j), used' \in 0..Limit
    PROVE  Simulated
<1> DEFINE f == [k \in Jobs |-> IF k = j THEN q ELSE row[k]]
<1>1. row' = [k \in Jobs |-> f[k]]
  BY SoundRows
<1>2. ASSUME NEW k \in Jobs PROVE Kept(row[k], f[k], k)
  BY UnchangedRow
<1> QED
  BY <1>1, <1>2, RowsSimulate

LEMMA UsedKept == QueueInv => used \in 0..Limit
BY DEF QueueInv, QueueTypeOK

LEMMA RowIsAdmitted ==
    ASSUME NEW j \in Jobs, NEW r, Sound(r, j), r.status = "absent",
           NEW born \in Nat
    PROVE  Kept(r, [r EXCEPT !.status = "queued", !.born = born], j)
<1> DEFINE q == [r EXCEPT !.status = "queued", !.born = born]
<1>1. Base[j] \in Nat /\ 0 < Base[j] /\ r.attempt = 0 /\ r.max = Base[j]
  BY QueueAssumption DEF Sound
<1>2. /\ q \in Rows
      /\ q.status = "queued" /\ q.attempt = 0 /\ q.max = Base[j]
  BY <1>1 DEF Sound, Rows
<1>3. Sound(q, j)
  BY <1>1, <1>2 DEF Sound
<1>4. Turns(q, j, "open", 0, FALSE)
  BY <1>1, <1>2 DEF Turns, StateOf, ChargedTo, IsHeld
<1> QED
  BY <1>3, <1>4 DEF Kept, RowMoves, StateOf

LEMMA EnqueueSimulates ==
    ASSUME QueueInv, NEW S, Enqueue(S)
    PROVE  Simulated
<1> DEFINE fresh(r) == [r EXCEPT !.status = "queued",
                                 !.born = 1 + Cardinality(Stored)]
           f == [j \in Jobs |-> IF j \in S /\ row[j].status = "absent"
                                THEN fresh(row[j]) ELSE row[j]]
<1>1. row' = [j \in Jobs |-> f[j]]
  BY DEF Enqueue
<1>2. 1 + Cardinality(Stored) \in Nat
  BY QueueAssumption, FS_Subset, FS_CardinalityType DEF Stored
<1>3. ASSUME NEW j \in Jobs PROVE Kept(row[j], f[j], j)
  <2>1. CASE j \in S /\ row[j].status = "absent"
    BY <1>2, <2>1, UnchangedRow, RowIsAdmitted
  <2>2. CASE ~(j \in S /\ row[j].status = "absent")
    BY <2>2, UnchangedRow
  <2> QED
    BY <2>1, <2>2
<1> QED
  BY <1>1, <1>3, RowsSimulate, UsedKept DEF Enqueue

LEMMA ClaimSimulates ==
    ASSUME QueueInv, NEW S \in SUBSET Jobs, NEW w \in Workers,
           NEW stale \in 0..MaxStale, Claim(S, w, stale)
    PROVE  Simulated
<1> DEFINE f == [j \in Jobs |->
                   IF j \in Exhausted(S, stale) THEN Unleased(row[j], "failed")
                   ELSE IF j = Claimed(S, stale) THEN Started(row[j], w, stale)
                   ELSE row[j]]
<1>1. row' = [j \in Jobs |-> f[j]]
  BY DEF Claim
<1>2. ASSUME NEW j \in Jobs PROVE Kept(row[j], f[j], j)
  <2>1. Sound(row[j], j)
    BY UnchangedRow
  <2>2. CASE j \in Exhausted(S, stale)
    <3>1. StateOf(row[j]) = "open"
      BY <2>2 DEF Exhausted, Lapsed, StateOf
    <3> QED
      BY <2>1, <2>2, <3>1, RowFails
  <2>3. CASE j \notin Exhausted(S, stale) /\ j = Claimed(S, stale)
    <3>1. j \in Claimable(S, stale)
      BY <2>3, ClaimedIsClaimable, QueueAssumption DEF QueueInv
    <3>2. row[j].attempt < row[j].max /\ row[j].status \in {"queued", "running"}
      BY <3>1 DEF Claimable, Lapsed
    <3> QED
      BY <2>1, <2>3, <3>2, RowStarts
  <2>4. CASE j \notin Exhausted(S, stale) /\ j # Claimed(S, stale)
    BY <2>4, UnchangedRow
  <2> QED
    BY <2>2, <2>3, <2>4
<1> QED
  BY <1>1, <1>2, RowsSimulate, UsedKept DEF Claim

LEMMA LeasedCallSimulates ==
    ASSUME QueueInv, NEW j \in Jobs, NEW w, NEW a, LeasedCall(j, w, a)
    PROVE  Simulated
<1>1. row[j].status = "running" /\ Sound(row[j], j) /\ used \in 0..Limit
  BY UnchangedRow, UsedKept DEF LeasedCall, HoldsLease
<1>2. CASE Heartbeat(j)
  <2> DEFINE q == [row[j] EXCEPT !.lease = Lease]
  <2>1. row' = [row EXCEPT ![j] = q]
    BY <1>2 DEF Heartbeat
  <2>2. Lease \in (-MaxStale)..Lease
    BY QueueAssumption
  <2>3. Sound(q, j)
    BY <1>1, <2>2 DEF Sound, Rows
  <2>4. Kept(row[j], q, j)
    <3>1. q.status = row[j].status /\ q.attempt = row[j].attempt
          /\ q.max = row[j].max
      BY <1>1 DEF Sound, Rows
    <3> QED
      BY <1>1, <2>3, <3>1, RowStays
  <2> QED
    BY <1>1, <1>2, <2>1, <2>4, OneRow DEF Heartbeat
<1>3. CASE Finish(j)
  BY <1>1, <1>3, OneRow, RowFinishes DEF Finish
<1>4. ASSUME NEW retryable \in BOOLEAN, NEW preserve \in BOOLEAN,
             preserve => retryable, Fail(j, retryable, preserve)
      PROVE  Simulated
  <2>1. row' = [row EXCEPT ![j] = Reported(row[j], retryable, preserve)]
        /\ used' = used
    BY <1>4 DEF Fail
  <2>2. Kept(row[j], Reported(row[j], retryable, preserve), j)
    BY <1>1, <1>4, RowReports
  <2> QED
    BY <1>1, <2>1, <2>2, OneRow
<1>5. CASE Defer(j)
  BY <1>1, <1>5, OneRow, RowDefers DEF Defer
<1>6. CASE CountCall
  <2>1. used' \in 0..Limit
    BY <1>1, <1>6, QueueAssumption DEF CountCall, BudgetSpent
  <2>2. row' = [k \in Jobs |-> row[k]]
    BY <1>6, SoundRows DEF CountCall
  <2> QED
    BY <2>1, <2>2, RowsSimulate, UnchangedRow
<1> QED
  BY <1>2, <1>3, <1>4, <1>5, <1>6 DEF LeasedCall

LEMMA StopQueuedSimulates ==
    ASSUME QueueInv, NEW j \in Jobs, StopQueued(j)
    PROVE  Simulated
<1> DEFINE q == [row[j] EXCEPT !.status = "failed"]
<1>1. row' = [row EXCEPT ![j] = q] /\ used' = used
  BY DEF StopQueued
<1>2. Sound(row[j], j)
  BY UnchangedRow
<1>3. Sound(q, j)
  BY <1>2 DEF Sound, Rows
<1>4. Turns(q, j, "failed", ChargedTo(row[j], j), FALSE)
  BY <1>2 DEF Turns, StateOf, ChargedTo, IsHeld, Sound, Rows
<1>5. Kept(row[j], q, j)
  BY <1>3, <1>4 DEF Kept, RowMoves, StateOf, StopQueued
<1> QED
  BY <1>1, <1>5, OneRow, UsedKept

LEMMA PassTickSimulates ==
    ASSUME QueueInv, PassTick
    PROVE  Simulated
<1> DEFINE f == [j \in Jobs |->
                   [row[j] EXCEPT
                      !.due = IF @ = NextDay THEN @ ELSE Earlier(@),
                      !.lease = IF row[j].status = "running" THEN Earlier(@)
                                                             ELSE @]]
<1>1. row' = [j \in Jobs |-> f[j]]
  BY DEF PassTick
<1>2. ASSUME NEW j \in Jobs PROVE Kept(row[j], f[j], j)
  <2>1. Sound(row[j], j)
    BY UnchangedRow
  <2>2. /\ row[j].due \in (-MaxStale)..NextDay
        /\ row[j].lease \in (-MaxStale)..Lease
    BY <2>1 DEF Sound, Rows
  <2>3. /\ Earlier(row[j].due) \in (-MaxStale)..NextDay
        /\ Earlier(row[j].lease) \in (-MaxStale)..Lease
    BY <2>2, QueueAssumption DEF Earlier, NextDay
  <2>4. Sound(f[j], j)
    BY <2>1, <2>2, <2>3 DEF Sound, Rows
  <2>5. f[j].status = row[j].status /\ f[j].attempt = row[j].attempt
        /\ f[j].max = row[j].max
    BY <2>1 DEF Sound, Rows
  <2> QED
    BY <2>1, <2>4, <2>5, RowStays
<1> QED
  BY <1>1, <1>2, RowsSimulate, UsedKept DEF PassTick

LEMMA PassMidnightSimulates ==
    ASSUME QueueInv, PassMidnight
    PROVE  Simulated
<1> DEFINE f == [j \in Jobs |->
                   [row[j] EXCEPT !.due = IF @ = NextDay THEN 0 ELSE @]]
<1>1. row' = [j \in Jobs |-> f[j]]
  BY DEF PassMidnight
<1>2. ASSUME NEW j \in Jobs PROVE Kept(row[j], f[j], j)
  <2>1. Sound(row[j], j) /\ 0 \in (-MaxStale)..NextDay
    BY UnchangedRow, QueueAssumption DEF NextDay
  <2>2. Sound(f[j], j)
    BY <2>1 DEF Sound, Rows
  <2>3. f[j].status = row[j].status /\ f[j].attempt = row[j].attempt
        /\ f[j].max = row[j].max
    BY <2>1 DEF Sound, Rows
  <2> QED
    BY <2>1, <2>2, <2>3, RowStays
<1>3. used' \in 0..Limit
  BY QueueAssumption DEF PassMidnight
<1> QED
  BY <1>1, <1>2, <1>3, RowsSimulate
LEMMA QueueSimulates ==
    ASSUME QueueInv, [QueueNext]_queueVars
    PROVE  Simulated
<1>1. ASSUME NEW S \in SUBSET Jobs, Enqueue(S) PROVE Simulated
  BY <1>1, EnqueueSimulates
<1>2. ASSUME NEW S \in SUBSET Jobs, NEW w \in Workers, NEW stale \in 0..MaxStale,
             Claim(S, w, stale)
      PROVE  Simulated
  BY <1>2, ClaimSimulates
<1>3. ASSUME NEW j \in Jobs, NEW w \in Workers, NEW a \in Nat,
             LeasedCall(j, w, a)
      PROVE  Simulated
  BY <1>3, LeasedCallSimulates
<1>4. ASSUME NEW j \in Jobs, StopQueued(j) PROVE Simulated
  BY <1>4, StopQueuedSimulates
<1>5. CASE PassTick
  BY <1>5, PassTickSimulates
<1>6. CASE PassMidnight
  BY <1>6, PassMidnightSimulates
<1>7. CASE UNCHANGED queueVars
  <2>1. row' = [j \in Jobs |-> row[j]] /\ used' \in 0..Limit
    BY <1>7, SoundRows DEF queueVars
  <2> QED
    BY <2>1, RowsSimulate, UnchangedRow
<1> QED
  BY <1>1, <1>2, <1>3, <1>4, <1>5, <1>6, <1>7 DEF QueueNext

LEMMA AllowanceInit == QueueInit => Allowance!Init
<1> SUFFICES ASSUME QueueInit PROVE Allowance!Init
  OBVIOUS
<1>1. ASSUME NEW j \in Jobs
      PROVE  /\ row[j].status = "absent"
             /\ row[j].attempt - (row[j].max - Base[j]) = 0
  <2>1. row[j] = Absent(j) /\ Base[j] \in Nat
    BY QueueAssumption DEF QueueInit
  <2> QED
    BY <2>1 DEF Absent
<1> QED
  BY <1>1 DEF Allowance!Init

\* The rows keep their shape, give back no more slots than were used, and a
\* queued one can always be claimed (jobs.py:165-384).
THEOREM QueueInvariant == QueueSpec => []QueueInv
<1>1. QueueInv /\ [QueueNext]_queueVars => QueueInv'
  BY QueueSimulates DEF Simulated
<1> QED
  BY QueueInvInit, <1>1, PTL DEF QueueSpec

\* The queue implements AttemptAllowance: however late, often or concurrently
\* its clients report, each job is begun at most Base[j] times on its own
\* account, a report counts only for the holder, and a job ends once.
THEOREM QueueKeepsAllowance == QueueSpec => KeepsAllowance
<1>1. QueueInv /\ [QueueNext]_queueVars => [Allowance!Next]_Allowance!vars
  BY QueueSimulates DEF Simulated
<1>2. QueueSpec => []QueueInv
  BY QueueInvariant
<1>3. QueueSpec => Allowance!Spec
  BY <1>1, <1>2, AllowanceInit, PTL DEF QueueSpec, Allowance!Spec
<1> QED
  BY <1>3 DEF KeepsAllowance

-----------------------------------------------------------------------------
(***************************************************************************)
(* What follows of the allowance alone.                                    *)
(***************************************************************************)
\* A job that a holder runs has spent an attempt on it.
Spent(j) ==
    /\ ChargedTo(row[j], j) \in 0..Base[j]
    /\ IsHeld(row[j]) => ChargedTo(row[j], j) >= 1

Ended(j) == row[j].status \in {"succeeded", "failed"}

LEMMA AllowanceMoves ==
    ASSUME [Allowance!Next]_Allowance!vars, NEW j \in Jobs
    PROVE  RowMoves(row[j], row'[j], j)
<1> USE DEF StateOf, ChargedTo, IsHeld, Turns, RowMoves
<1>1. CASE Allowance!Next
  <2>1. Allowance!Move(j) \/ Allowance!Stay(j)
    BY <1>1 DEF Allowance!Next
  <2> QED
    BY <2>1
    DEF Allowance!Move, Allowance!Stay, Allowance!Admit, Allowance!Begin,
        Allowance!PutBack, Allowance!Forgive, Allowance!Succeed,
        Allowance!GiveUp, Allowance!Becomes
<1>2. CASE UNCHANGED Allowance!vars
  BY <1>2 DEF Allowance!vars
<1> QED
  BY <1>1, <1>2

LEMMA SpentStep ==
    ASSUME NEW j \in Jobs, Spent(j), RowMoves(row[j], row'[j], j)
    PROVE  Spent(j)'
<1>1. Base[j] \in Nat
  BY QueueAssumption
<1> QED
  BY <1>1 DEF Spent, RowMoves, Turns

LEMMA EndedStep ==
    ASSUME QueueInv, QueueInv', NEW j \in Jobs, Ended(j),
           RowMoves(row[j], row'[j], j)
    PROVE  row'[j].status = row[j].status
BY DEF Ended, RowMoves, Turns, StateOf

\* A job spends at most its Base[j] attempts, and what is given back to it,
\* it had spent: however many deferrals, takeovers and late reports there are,
\* the raised limit never lends it an attempt (jobs.py:257-384).
THEOREM QueueSpendsItsOwn ==
    QueueSpec => [](\A j \in Jobs : ChargedTo(row[j], j) \in 0..Base[j])
<1> DEFINE AllSpent == \A j \in Jobs : Spent(j)
<1>1. QueueInit => AllSpent
  BY QueueAssumption DEF QueueInit, Absent, Spent, ChargedTo, IsHeld
<1>2. QueueInv /\ AllSpent /\ [QueueNext]_queueVars => AllSpent'
  <2> SUFFICES ASSUME QueueInv, AllSpent, [QueueNext]_queueVars,
                      NEW j \in Jobs
               PROVE  Spent(j)'
    OBVIOUS
  <2>1. RowMoves(row[j], row'[j], j)
    BY QueueSimulates, AllowanceMoves DEF Simulated
  <2> QED
    BY <2>1, SpentStep
<1>3. AllSpent => \A j \in Jobs : ChargedTo(row[j], j) \in 0..Base[j]
  BY DEF Spent
<1> QED
  BY <1>1, <1>2, <1>3, QueueInvariant, PTL DEF QueueSpec

\* A job that has ended is neither run nor decided again, whoever still holds
\* a lease on it.
THEOREM QueueEndsOnce ==
    QueueSpec => [][\A j \in Jobs :
                       Ended(j) => row'[j].status = row[j].status]_queueVars
<1>1. QueueInv /\ [QueueNext]_queueVars =>
        [\A j \in Jobs :
            Ended(j) => row'[j].status = row[j].status]_queueVars
  BY QueueSimulates, AllowanceMoves, EndedStep DEF Simulated
<1> QED
  BY <1>1, QueueInvariant, PTL DEF QueueSpec
=============================================================================
