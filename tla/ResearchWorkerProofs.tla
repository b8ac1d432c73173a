------------------------ MODULE ResearchWorkerProofs ------------------------
(***************************************************************************)
(* Proofs about ResearchWorkerJobs, for any number of workers, schedulers, *)
(* claims and recoveries, and any lengths of leases and calls.             *)
(***************************************************************************)
EXTENDS ResearchWorkerJobs, FiniteSetTheorems, TLAPS

-----------------------------------------------------------------------------
(***************************************************************************)
(* Types.                                                                  *)
(***************************************************************************)
\* The part of TypeOK that the steps of an execution disturb.
ExecutionTypes ==
    /\ phase \in [Generations -> Phases]
    /\ by \in [Generations -> Workers \cup {NoWorker}]
    /\ attended \in [Workers -> 0..MaxGen]

\* The part of TypeOK that the transactions disturb.
RowTypes ==
    /\ status \in Statuses
    /\ available \in Nat
    /\ generation \in 0..MaxGen
    /\ owner \in Workers \cup {NoWorker}
    /\ leaseUntil \in 0..Deadline
    /\ flight \in 0..MaxGen
    /\ flightUntil \in 0..Deadline
    /\ failures \in Nat
    /\ recoveries \in Nat
    /\ failedAt \in 0..Deadline

\* The rest of it.
OtherTypes ==
    /\ now \in 0..Deadline
    /\ paused \in BOOLEAN
    /\ killSwitch \in BOOLEAN
    /\ killSeen \in [Workers -> BOOLEAN]
    /\ until \in [Generations -> Nat]
    /\ seenAt \in [Schedulers -> -1..Deadline]
    /\ pauseCalls \in 0..2
    /\ killCalls \in 0..2

LEMMA TypeParts == TypeOK <=> ExecutionTypes /\ RowTypes /\ OtherTypes
BY DEF TypeOK, ExecutionTypes, RowTypes, OtherTypes

LEMMA TypePartsNext ==
    TypeOK' <=> ExecutionTypes' /\ RowTypes' /\ OtherTypes'
BY DEF TypeOK, ExecutionTypes, RowTypes, OtherTypes

LEMMA GenerationRange == Generations \subseteq 0..MaxGen /\ 0 \in 0..MaxGen
BY BoundsAssumption DEF Generations

LEMMA TypeInit == Init => TypeOK
<1> SUFFICES ASSUME Init PROVE TypeOK
  OBVIOUS
<1>1. ExecutionTypes
  BY GenerationRange DEF Init, ExecutionTypes, Phases
<1>2. RowTypes
  BY GenerationRange, TimesAssumption DEF Init, RowTypes, Statuses
<1>3. OtherTypes
  <2>1. -1 \in -1..Deadline /\ 0 \in 0..Deadline /\ 0 \in 0..2 /\ 0 \in Nat
    BY TimesAssumption
  <2> QED
    BY <2>1 DEF Init, OtherTypes
<1> QED
  BY <1>1, <1>2, <1>3, TypeParts

LEMMA EarlierRange ==
    ASSUME NEW a \in Nat
    PROVE  Earlier(a, Deadline) \in 0..Deadline
BY TimesAssumption DEF Earlier

LEMMA GotoTypes ==
    ASSUME ExecutionTypes, NEW g \in Generations, NEW p \in Phases, Goto(g, p)
    PROVE  ExecutionTypes'
BY DEF ExecutionTypes, Goto

LEMMA QuitTypes ==
    ASSUME ExecutionTypes, NEW g \in Generations, Quit(g)
    PROVE  ExecutionTypes'
<1>1. Detached(g) \in [Workers -> 0..MaxGen]
  BY GenerationRange DEF ExecutionTypes, Detached
<1> QED
  BY <1>1 DEF ExecutionTypes, Quit, Phases

LEMMA ConcludeTypes ==
    ASSUME ExecutionTypes, NEW g \in Generations, NEW o \in Outcomes,
           Conclude(g, o)
    PROVE  ExecutionTypes'
BY GotoTypes DEF Conclude, Phases

LEMMA PassGateTypes ==
    ASSUME ExecutionTypes, NEW g \in Generations, NEW p \in Phases,
           PassGate(g, p)
    PROVE  ExecutionTypes'
<1>1. "waiting" \in Outcomes
  BY DEF Outcomes
<1> QED
  BY <1>1, GotoTypes, QuitTypes, ConcludeTypes DEF PassGate

\* A step of an execution leaves its phase among the phases.
LEMMA ThreadExecutionTypes ==
    ASSUME ExecutionTypes, NEW g \in Generations, ThreadStep(g)
    PROVE  ExecutionTypes'
<1> USE DEF Phases, InThread, Calling, Outcomes
<1>1. CASE Admit(g)
  BY <1>1, GotoTypes DEF Admit
<1>2. CASE Enter(g)
  BY <1>2, PassGateTypes DEF Enter
<1>3. CASE BeginSend(g)
  BY <1>3, GotoTypes, QuitTypes DEF BeginSend
<1>4. CASE Recheck(g)
  BY <1>4, PassGateTypes DEF Recheck
<1>5. CASE Send(g)
  BY <1>5, GotoTypes DEF Send
<1>6. CASE Answer(g)
  BY <1>6, GotoTypes DEF Answer
<1>7. CASE FinishSend(g)
  BY <1>7, GotoTypes, QuitTypes DEF FinishSend
<1>8. CASE Accept(g)
  BY <1>8, GotoTypes, QuitTypes DEF Accept
<1>9. CASE \E outcome \in Outcomes : Result(g, outcome)
  BY <1>9, ConcludeTypes DEF Result
<1>10. CASE Commit(g)
  BY <1>10, QuitTypes DEF Commit
<1> QED
  BY <1>1, <1>2, <1>3, <1>4, <1>5, <1>6, <1>7, <1>8, <1>9, <1>10
     DEF ThreadStep

\* A step of an execution writes what the row can hold, or nothing.
LEMMA ThreadRowTypes ==
    ASSUME TypeOK, NEW g \in Generations, ThreadStep(g)
    PROVE  RowTypes'
<1> USE TypeParts DEF rowVars, leaseVars, flightVars, countVars
<1>0. /\ RowTypes
      /\ now \in 0..Deadline /\ now \in Nat /\ g \in 0..MaxGen
      /\ 0 \in 0..MaxGen /\ 0 \in 0..Deadline
  BY GenerationRange, TimesAssumption DEF OtherTypes
<1>1. CASE \/ Admit(g) \/ Enter(g) \/ Recheck(g) \/ Send(g) \/ Answer(g)
           \/ Accept(g) \/ \E outcome \in Outcomes : Result(g, outcome)
  BY <1>0, <1>1 DEF Admit, Enter, Recheck, Send, Answer, Accept, Result, RowTypes
<1>2. CASE BeginSend(g)
  <2>1. Earlier(now + Timeout, Deadline) \in 0..Deadline
    BY <1>0, EarlierRange, TimesAssumption
  <2>2. flight' \in 0..MaxGen /\ flightUntil' \in 0..Deadline
    BY <1>0, <1>2, <2>1 DEF BeginSend, RowTypes
  <2> QED
    BY <1>0, <1>2, <2>2 DEF BeginSend, RowTypes
<1>3. CASE FinishSend(g)
  <2>1. flight' \in 0..MaxGen /\ flightUntil' \in 0..Deadline
    BY <1>0, <1>3 DEF FinishSend, RowTypes
  <2> QED
    BY <1>0, <1>3, <2>1 DEF FinishSend, RowTypes
<1>4. CASE Commit(g)
  <2>1. CASE ~Committable(g)
    BY <1>0, <1>4, <2>1 DEF Commit, RowTypes
  <2>2. CASE Committable(g)
    <3>1. Dispose(phase[g]) /\ Release
      BY <1>4, <2>2 DEF Commit
    <3>2. /\ owner' \in Workers \cup {NoWorker} /\ leaseUntil' \in 0..Deadline
          /\ flight' \in 0..MaxGen /\ flightUntil' \in 0..Deadline
          /\ generation' \in 0..MaxGen /\ recoveries' \in Nat
      BY <1>0, <1>4, <3>1 DEF Release, Commit, RowTypes
    <3>3. ASSUME NEW next \in Nat, NEW n \in Nat, Reschedule(next, n)
          PROVE  /\ status' \in Statuses /\ available' \in Nat
                 /\ failures' \in Nat /\ failedAt' \in 0..Deadline
      BY <1>0, <3>3, EarlierRange DEF Reschedule, Statuses, RowTypes
    <3>4. ASSUME NEW s \in Statuses, Finish(s)
          PROVE  /\ status' \in Statuses /\ available' \in Nat
                 /\ failures' \in Nat /\ failedAt' \in 0..Deadline
      BY <1>0, <3>4 DEF Finish, RowTypes
    <3>5. /\ now + Backoff \in Nat /\ Deadline \in Nat
          /\ Earlier(now + Backoff, Deadline) \in Nat
          /\ failures + 1 \in Nat /\ 0 \in Nat
      BY <1>0, EarlierRange, TimesAssumption DEF RowTypes
    <3>6. "completed" \in Statuses /\ "failed" \in Statuses
      BY DEF Statuses
    <3>7. /\ status' \in Statuses /\ available' \in Nat
          /\ failures' \in Nat /\ failedAt' \in 0..Deadline
      BY <3>1, <3>3, <3>4, <3>5, <3>6 DEF Dispose
    <3> QED
      BY <3>2, <3>7 DEF RowTypes
  <2> QED
    BY <2>1, <2>2
<1> QED
  BY <1>1, <1>2, <1>3, <1>4 DEF ThreadStep

LEMMA CountRange ==
    ASSUME NEW b \in BOOLEAN, NEW n \in 0..2
    PROVE  CountIf(b, n) \in 0..2
BY DEF CountIf

LEMMA ThreadOtherTypes ==
    ASSUME TypeOK, NEW g \in Generations, ThreadStep(g)
    PROVE  OtherTypes'
<1> USE TypeParts DEF controlVars, historyVars
<1>0. OtherTypes
  OBVIOUS
<1>1. CASE Send(g)
  <2>1. now + Timeout \in Nat
    BY <1>0, TimesAssumption DEF OtherTypes
  <2>2. until' \in [Generations -> Nat]
    BY <1>0, <1>1, <2>1 DEF Send, OtherTypes
  <2>3. pauseCalls' \in 0..2 /\ killCalls' \in 0..2
    BY <1>0, <1>1, CountRange DEF Send, OtherTypes
  <2> QED
    BY <1>0, <1>1, <2>2, <2>3 DEF Send, OtherTypes
<1>2. CASE Answer(g)
  BY <1>0, <1>2 DEF Answer, OtherTypes
<1>3. CASE \/ Admit(g) \/ Enter(g) \/ BeginSend(g) \/ Recheck(g)
           \/ FinishSend(g) \/ Accept(g) \/ Commit(g)
           \/ \E outcome \in Outcomes : Result(g, outcome)
  BY <1>0, <1>3 DEF Admit, Enter, BeginSend, Recheck, FinishSend, Accept,
     Commit, Result, OtherTypes
<1> QED
  BY <1>1, <1>2, <1>3 DEF ThreadStep

\* What a poll, a heartbeat or a scheduler writes is what the row can hold.
LEMMA RowTransactionTypes ==
    ASSUME TypeOK,
           \/ \E s \in Schedulers : Enqueue(s) \/ Observe(s) \/ Recover(s)
           \/ \E w \in Workers : Poll(w) \/ Heartbeat(w)
    PROVE  TypeOK'
<1> USE TypeParts, TypePartsNext
    DEF leaseVars, flightVars, countVars, rowVars, controlVars, executionVars,
        historyVars
<1>0. /\ RowTypes /\ ExecutionTypes /\ OtherTypes
      /\ now \in 0..Deadline /\ now \in Nat
      /\ 0 \in 0..MaxGen /\ 0 \in 0..Deadline /\ -1 \in -1..Deadline
      /\ now \in -1..Deadline
      /\ "pending" \in Statuses /\ "leased" \in Statuses
      /\ "expired" \in Statuses
  BY GenerationRange, TimesAssumption DEF OtherTypes, Statuses
<1>1. ASSUME NEW s \in Schedulers, Enqueue(s) PROVE TypeOK'
  BY <1>0, <1>1 DEF Enqueue, RowTypes, ExecutionTypes, OtherTypes
<1>2. ASSUME NEW s \in Schedulers, Observe(s) PROVE TypeOK'
  <2>1. seenAt' \in [Schedulers -> -1..Deadline]
    BY <1>0, <1>2 DEF Observe, OtherTypes
  <2> QED
    BY <1>0, <1>2, <2>1 DEF Observe, RowTypes, ExecutionTypes, OtherTypes
<1>3. ASSUME NEW s \in Schedulers, Recover(s) PROVE TypeOK'
  <2>1. seenAt' \in [Schedulers -> -1..Deadline]
    BY <1>0, <1>3 DEF Recover, OtherTypes
  <2>2. seenAt[s] \in Nat
    BY <1>3, TimesAssumption, <1>0 DEF Recover, OtherTypes
  <2>3. RowTypes'
    BY <1>0, <1>3, <2>2 DEF Recover, RowTypes
  <2> QED
    BY <1>0, <1>3, <2>1, <2>3 DEF Recover, ExecutionTypes, OtherTypes
<1>4. ASSUME NEW w \in Workers, Claim(w) PROVE TypeOK'
  <2>1. /\ generation + 1 \in Generations /\ generation + 1 \in 0..MaxGen
        /\ Earlier(now + Lease, Deadline) \in 0..Deadline
    BY <1>0, <1>4, EarlierRange, GenerationRange, TimesAssumption DEF Claim
  <2>2. RowTypes'
    BY <1>0, <1>4, <2>1 DEF Claim, RowTypes
  <2>3. "claimed" \in Phases
    BY DEF Phases
  <2>4. ExecutionTypes'
    BY <1>0, <1>4, <2>1, <2>3 DEF Claim, ExecutionTypes
  <2> QED
    BY <1>0, <1>4, <2>2, <2>4 DEF Claim, OtherTypes
<1>5. ASSUME NEW w \in Workers, Expire(w) PROVE TypeOK'
  BY <1>0, <1>5 DEF Expire, Release, RowTypes, ExecutionTypes, OtherTypes
<1>6. ASSUME NEW w \in Workers, Heartbeat(w) PROVE TypeOK'
  <2>1. Earlier(now + Lease, Deadline) \in 0..Deadline
    BY <1>0, EarlierRange, TimesAssumption
  <2> QED
    BY <1>0, <1>6, <2>1 DEF Heartbeat, RowTypes, ExecutionTypes, OtherTypes
<1> QED
  BY <1>1, <1>2, <1>3, <1>4, <1>5, <1>6 DEF Poll

\* What happens to the processes, the controls and the clock.
LEMMA EnvironmentTypes ==
    ASSUME TypeOK,
           \/ \E w \in Workers : Detach(w) \/ Crash(w)
           \/ \E g \in Generations : Unavailable(g)
           \/ \E b \in BOOLEAN : SetPaused(b) \/ SetKillSwitch(b)
           \/ Tick
    PROVE  TypeOK'
<1> USE TypeParts, TypePartsNext
    DEF leaseVars, flightVars, countVars, rowVars, controlVars, executionVars,
        historyVars
<1>0. /\ RowTypes /\ ExecutionTypes /\ OtherTypes
      /\ 0 \in 0..MaxGen /\ 0 \in 0..2
  BY GenerationRange
<1>1. ASSUME NEW w \in Workers, Detach(w) PROVE TypeOK'
  <2>1. ExecutionTypes'
    BY <1>0, <1>1 DEF Detach, ExecutionTypes
  <2> QED
    BY <1>0, <1>1, <2>1 DEF Detach, RowTypes, OtherTypes
<1>2. ASSUME NEW w \in Workers, Crash(w) PROVE TypeOK'
  <2>1. ExecutionTypes'
    BY <1>0, <1>2 DEF Crash, ExecutionTypes, Phases
  <2>2. OtherTypes'
    BY <1>0, <1>2 DEF Crash, OtherTypes
  <2> QED
    BY <1>0, <1>2, <2>1, <2>2 DEF Crash, RowTypes
<1>3. ASSUME NEW g \in Generations, Unavailable(g) PROVE TypeOK'
  <2>1. "failed" \in Outcomes
    BY DEF Outcomes
  <2>2. ExecutionTypes'
    BY <1>0, <1>3, <2>1, QuitTypes, ConcludeTypes DEF Unavailable
  <2> QED
    BY <1>0, <1>3, <2>2 DEF Unavailable, RowTypes, OtherTypes
<1>4. ASSUME NEW b \in BOOLEAN, SetPaused(b) PROVE TypeOK'
  BY <1>0, <1>4 DEF SetPaused, RowTypes, ExecutionTypes, OtherTypes
<1>5. ASSUME NEW b \in BOOLEAN, SetKillSwitch(b) PROVE TypeOK'
  BY <1>0, <1>5 DEF SetKillSwitch, RowTypes, ExecutionTypes, OtherTypes
<1>6. ASSUME Tick PROVE TypeOK'
  <2>1. now' \in 0..Deadline
    BY <1>0, <1>6, TimesAssumption DEF Tick, OtherTypes
  <2> QED
    BY <1>0, <1>6, <2>1 DEF Tick, RowTypes, ExecutionTypes, OtherTypes
<1> QED
  BY <1>1, <1>2, <1>3, <1>4, <1>5, <1>6

LEMMA TypeStep ==
    ASSUME TypeOK, [Next]_vars
    PROVE  TypeOK'
<1>1. ASSUME NEW g \in Generations, ThreadStep(g) PROVE TypeOK'
  BY <1>1, ThreadExecutionTypes, ThreadRowTypes, ThreadOtherTypes, TypeParts,
     TypePartsNext
<1>2. ASSUME UNCHANGED vars PROVE TypeOK'
  BY <1>2 DEF vars, leaseVars, flightVars, countVars, rowVars, controlVars,
     executionVars, historyVars, TypeOK
<1> QED
  BY <1>1, <1>2, RowTransactionTypes, EnvironmentTypes DEF Next

\* The row, the executions and the clock keep values the code can store.
THEOREM TypeCorrectness == Spec => []TypeOK
BY TypeInit, TypeStep, PTL DEF Spec

-----------------------------------------------------------------------------
(***************************************************************************)
(* The budget of recoveries: a scheduler that decides to recover reserves  *)
(* what its transaction may spend later.                                   *)
(***************************************************************************)
LEMMA DecidingFinite ==
    /\ IsFiniteSet(Deciding)
    /\ Cardinality(Deciding) \in Nat /\ Cardinality(Schedulers) \in Nat
    /\ Cardinality(Deciding) <= Cardinality(Schedulers)
<1>1. Deciding \subseteq Schedulers
  BY DEF Deciding
<1> QED
  BY <1>1, SchedulersAssumption, FS_Subset, FS_CardinalityType

LEMMA BudgetInit == Init => RecoveryBudget
<1> SUFFICES ASSUME Init PROVE RecoveryBudget
  OBVIOUS
<1>1. Deciding = {}
  BY DEF Init, Deciding
<1>2. Cardinality(Deciding) = 0
  BY <1>1, FS_EmptySet
<1> QED
  BY <1>2, DecidingFinite, BoundsAssumption DEF Init, RecoveryBudget

\* Only the scheduler decides and recovers.
LEMMA BudgetUntouched ==
    ASSUME [Next]_vars, \A s \in Schedulers : ~Observe(s) /\ ~Recover(s)
    PROVE  UNCHANGED <<recoveries, seenAt>>
BY DEF Next, vars, rowVars, countVars, leaseVars, flightVars, Enqueue, Poll,
   Claim, Expire, Heartbeat, Detach, Crash, ThreadStep, Admit, Enter,
   BeginSend, Recheck, Send, Answer, FinishSend, Accept, Result, Commit,
   Unavailable, SetPaused, SetKillSwitch, Tick

LEMMA BudgetStep ==
    ASSUME TypeOK, RecoveryBudget, [Next]_vars
    PROVE  RecoveryBudget'
<1>0. recoveries \in Nat /\ seenAt \in [Schedulers -> -1..Deadline]
  BY DEF TypeOK
<1>1. ASSUME NEW s \in Schedulers, Observe(s) PROVE RecoveryBudget'
  <2>1. seenAt'[s] # -1 /\ s \notin Deciding
    BY <1>0, <1>1, TimesAssumption DEF Observe, Deciding, TypeOK
  <2>2. Deciding \cup {s} \subseteq Schedulers
    BY DEF Deciding
  <2>3. Deciding' = Deciding \cup {s}
    BY <1>0, <1>1, <2>1 DEF Observe, Deciding
  <2>4. /\ Cardinality(Deciding') \in Nat
        /\ Cardinality(Deciding') <= Cardinality(Schedulers)
    BY <2>2, <2>3, SchedulersAssumption, FS_Subset, FS_CardinalityType
  <2>5. recoveries' = recoveries /\ recoveries < MaxRecoveries
    BY <1>1 DEF Observe, Recoverable, rowVars, countVars
  <2> QED
    BY <1>0, <2>4, <2>5, DecidingFinite, BoundsAssumption DEF RecoveryBudget
<1>2. ASSUME NEW s \in Schedulers, Recover(s) PROVE RecoveryBudget'
  <2>1. s \in Deciding
    BY <1>2 DEF Recover, Deciding
  <2>2. Deciding' = Deciding \ {s}
    BY <1>0, <1>2 DEF Recover, Deciding
  <2>3. Cardinality(Deciding') = Cardinality(Deciding) - 1
    BY <2>1, <2>2, DecidingFinite, FS_RemoveElement
  <2>4. recoveries' \in {recoveries, recoveries + 1}
    BY <1>2 DEF Recover, countVars
  <2> QED
    BY <1>0, <2>3, <2>4, DecidingFinite, BoundsAssumption DEF RecoveryBudget
<1>3. ASSUME \A s \in Schedulers : ~Observe(s) /\ ~Recover(s)
      PROVE  RecoveryBudget'
  <2>1. recoveries' = recoveries /\ Deciding' = Deciding
    BY <1>3, BudgetUntouched DEF Deciding
  <2> QED
    BY <2>1 DEF RecoveryBudget
<1> QED
  BY <1>1, <1>2, <1>3

\* A job is recovered MaxRecoveries times, and once more at most by each
\* further scheduler that decided on what it saw before the last recovery.
THEOREM BoundedRecoveries == Spec => []RecoveriesBounded
<1>1. TypeOK /\ RecoveryBudget => RecoveriesBounded
  <2> SUFFICES ASSUME TypeOK, RecoveryBudget PROVE RecoveriesBounded
    OBVIOUS
  <2> QED
    BY DecidingFinite, BoundsAssumption
       DEF TypeOK, RecoveryBudget, RecoveriesBounded
<1> QED
  BY <1>1, TypeInit, TypeStep, BudgetInit, BudgetStep, PTL DEF Spec

-----------------------------------------------------------------------------
(***************************************************************************)
(* The fence, when calls leave in the tick they were registered in.        *)
(***************************************************************************)
Fence == \A g \in Generations : Fenced(g)

\* The step starts, clears and sends no call, and ends some at most.
CallsOnlyEnd ==
    \A g \in Generations :
        phase'[g] \in Calling => phase'[g] = phase[g] /\ until'[g] = until[g]

LEMMA FenceKept ==
    ASSUME Fence, CallsOnlyEnd,
           UNCHANGED <<now, status, generation, flight, flightUntil>>
    PROVE  Fence'
BY DEF Fence, Fenced, Holds, CallsOnlyEnd, Calling

\* While a call is on, the row is leased, and its registration not over.
LEMMA CallHolds ==
    ASSUME TypeOK, Fence, NEW g \in Generations, phase[g] \in Calling
    PROVE  /\ status = "leased" /\ generation = g
           /\ flight = g /\ flight # 0
           /\ now < flightUntil /\ now < Deadline
<1>1. /\ now \in Nat /\ now < Deadline + 1 /\ g \in Nat /\ g # 0
      /\ flightUntil \in Nat /\ flightUntil <= Deadline
      /\ until[g] \in Nat
  BY TimesAssumption, BoundsAssumption DEF TypeOK, Generations
<1>2. Fenced(g)
  BY DEF Fence
<1>3. CASE phase[g] \in {"registered", "cleared"}
  BY <1>1, <1>2, <1>3, TimesAssumption DEF Fenced, Holds, Earlier
<1>4. CASE phase[g] = "sending"
  BY <1>1, <1>2, <1>4, TimesAssumption DEF Fenced, Holds
<1> QED
  BY <1>3, <1>4 DEF Calling

LEMMA FenceInit == Init => Fence
BY DEF Init, Fence, Fenced

\* Going anywhere but into a call starts none.
LEMMA MovedOn ==
    ASSUME TypeOK, NEW g \in Generations, NEW p \in Phases \ Calling,
           phase' = [phase EXCEPT ![g] = p],
           \A h \in Generations \ {g} : until'[h] = until[h]
    PROVE  CallsOnlyEnd
BY DEF TypeOK, CallsOnlyEnd

LEMMA Ended ==
    ASSUME TypeOK, NEW g \in Generations, UNCHANGED until,
           Quit(g) \/ (\E o \in Outcomes : Conclude(g, o))
    PROVE  CallsOnlyEnd
BY MovedOn DEF Quit, Conclude, Goto, Outcomes, Phases, Calling

\* The steps that touch neither registration nor call.
LEMMA QuietThreadStep ==
    ASSUME TypeOK, NEW g \in Generations,
           \/ Admit(g) \/ Answer(g) \/ Accept(g) \/ Enter(g) \/ Unavailable(g)
           \/ \E outcome \in Outcomes : Result(g, outcome)
    PROVE  /\ CallsOnlyEnd
           /\ UNCHANGED <<now, status, generation, flight, flightUntil>>
           /\ UNCHANGED <<paused, pauseCalls>>
<1> USE DEF rowVars, leaseVars, flightVars, controlVars, historyVars
<1>0. /\ {"running", "fatal", "answered", "entering"}
            \subseteq Phases \ Calling
      /\ "waiting" \in Outcomes /\ "failed" \in Outcomes
  BY DEF Phases, Calling, Outcomes, InThread
<1>1. CASE Admit(g)
  BY <1>0, <1>1, MovedOn DEF Admit, Goto
<1>2. CASE Answer(g)
  <2>1. \A h \in Generations \ {g} : until'[h] = until[h]
    BY <1>2 DEF Answer, TypeOK
  <2> QED
    BY <1>0, <1>2, <2>1, MovedOn DEF Answer, Goto
<1>3. CASE Accept(g)
  BY <1>0, <1>3, MovedOn, Ended DEF Accept, Goto
<1>4. CASE Enter(g)
  BY <1>0, <1>4, MovedOn, Ended DEF Enter, PassGate, Goto
<1>5. CASE Unavailable(g)
  BY <1>0, <1>5, Ended DEF Unavailable
<1>6. CASE \E outcome \in Outcomes : Result(g, outcome)
  BY <1>6, Ended DEF Result
<1> QED
  BY <1>1, <1>2, <1>3, <1>4, <1>5, <1>6

LEMMA FenceAtBegin ==
    ASSUME TypeOK, Fence, NEW g \in Generations, BeginSend(g)
    PROVE  Fence'
<1> USE DEF leaseVars, flightVars
<1>1. CASE Current(g) /\ flight = 0
  <2>1. \A h \in Generations : phase[h] \notin Calling
    BY <1>1, CallHolds
  <2>2. /\ phase' = [phase EXCEPT ![g] = "registered"]
        /\ status' = "leased" /\ generation' = g /\ flight' = g
        /\ flightUntil' = Earlier(now + Timeout, Deadline) /\ now' = now
    BY <1>1 DEF BeginSend, Goto, Current
  <2>3. now < Deadline
    BY <1>1, TimesAssumption DEF Current, TypeOK
  <2>4. ASSUME NEW h \in Generations PROVE Fenced(h)'
    <3>1. CASE h = g
      BY <2>2, <2>3, <3>1 DEF Fenced, Holds, TypeOK
    <3>2. CASE h # g
      BY <2>1, <2>2, <3>2 DEF Fenced, TypeOK, Calling
    <3> QED
      BY <3>1, <3>2
  <2> QED
    BY <2>4 DEF Fence
<1>2. CASE ~(Current(g) /\ flight = 0)
  BY <1>2, Ended, FenceKept DEF BeginSend
<1> QED
  BY <1>1, <1>2

\* What passes the second gate can end within the segment.
LEMMA FenceAtRecheck ==
    ASSUME TypeOK, Fence, NEW g \in Generations, Recheck(g)
    PROVE  Fence'
<1> USE DEF rowVars, leaseVars, flightVars
<1>0. "waiting" \in Outcomes
  BY DEF Outcomes
<1>1. CASE MayAct(g) /\ InSendWindow
  <2>1. /\ phase' = [phase EXCEPT ![g] = "cleared"] /\ until' = until
        /\ UNCHANGED <<now, status, generation, flight, flightUntil>>
    BY <1>1 DEF Recheck, PassGate, Goto
  <2>2. now + Timeout < Deadline
    BY <1>1, TimesAssumption DEF InSendWindow, TypeOK
  <2>3. phase[g] = "registered" /\ Fenced(g)
    BY DEF Recheck, Fence
  <2>4. ASSUME NEW h \in Generations PROVE Fenced(h)'
    <3>1. CASE h = g
      BY <2>1, <2>2, <2>3, <3>1 DEF Fenced, Holds, TypeOK
    <3>2. CASE h # g
      BY <2>1, <3>2 DEF Fenced, Holds, TypeOK, Fence
    <3> QED
      BY <3>1, <3>2
  <2> QED
    BY <2>4 DEF Fence
<1>2. CASE ~(MayAct(g) /\ InSendWindow)
  BY <1>0, <1>2, Ended, FenceKept DEF Recheck, PassGate
<1> QED
  BY <1>1, <1>2

\* A call that leaves in the tick of its registration ends inside the fence.
LEMMA FenceAtSend ==
    ASSUME TypeOK, Fence, NEW g \in Generations, Send(g)
    PROVE  Fence'
<1> USE DEF rowVars, leaseVars, flightVars
<1>1. /\ phase' = [phase EXCEPT ![g] = "sending"]
      /\ until' = [until EXCEPT ![g] = now + Timeout]
      /\ UNCHANGED <<now, status, generation, flight, flightUntil>>
  BY DEF Send, Goto
<1>2. phase[g] = "cleared" /\ Fenced(g)
  BY DEF Send, Fence
<1>3. Holds(g) /\ flightUntil = now + Timeout /\ now < now + Timeout
  BY <1>2, TimesAssumption DEF Fenced, Earlier, TypeOK
<1>4. now + Timeout <= now + Timeout
  BY TimesAssumption DEF TypeOK
<1>5. ASSUME NEW h \in Generations PROVE Fenced(h)'
  <2>1. CASE h = g
    BY <1>1, <1>3, <1>4, <2>1 DEF Fenced, Holds, TypeOK
  <2>2. CASE h # g
    BY <1>1, <2>2 DEF Fenced, Holds, TypeOK, Fence
  <2> QED
    BY <2>1, <2>2
<1> QED
  BY <1>5 DEF Fence

\* Once no call is on and none starts, the row is free to change.
LEMMA NoCallNoFence ==
    ASSUME \A h \in Generations : phase[h] \notin Calling, CallsOnlyEnd
    PROVE  Fence'
BY DEF Fence, Fenced, CallsOnlyEnd, Calling

LEMMA FenceAtFinish ==
    ASSUME TypeOK, Fence, NEW g \in Generations, FinishSend(g)
    PROVE  Fence'
<1> USE DEF leaseVars, flightVars
<1>0. "finished" \in Phases \ Calling
  BY DEF Phases, InThread, Calling
<1>1. CallsOnlyEnd
  BY <1>0, MovedOn, Ended DEF FinishSend, Goto
<1>2. CASE Current(g) /\ flight = g
  <2>1. phase[g] \notin Calling
    BY DEF FinishSend, Calling
  <2>2. \A h \in Generations : phase[h] \notin Calling
    BY <1>2, <2>1, CallHolds
  <2> QED
    BY <1>1, <2>2, NoCallNoFence
<1>3. CASE ~(Current(g) /\ flight = g)
  BY <1>1, <1>3, FenceKept DEF FinishSend
<1> QED
  BY <1>2, <1>3

LEMMA FenceAtCommit ==
    ASSUME TypeOK, Fence, NEW g \in Generations, Commit(g)
    PROVE  Fence'
<1>1. CallsOnlyEnd
  BY Ended DEF Commit
<1>2. CASE Committable(g)
  <2>1. \A h \in Generations : phase[h] \notin Calling
    BY <1>2, CallHolds DEF Committable
  <2> QED
    BY <1>1, <2>1, NoCallNoFence
<1>3. CASE ~Committable(g)
  BY <1>1, <1>3, FenceKept DEF Commit, flightVars
<1> QED
  BY <1>2, <1>3

\* A job whose call is on is neither taken over nor closed.
LEMMA FenceAtPoll ==
    ASSUME TypeOK, Fence, NEW w \in Workers, Poll(w)
    PROVE  Fence'
<1>1. ASSUME NEW h \in Generations, phase[h] \in Calling PROVE FALSE
  <2>1. /\ status = "leased" /\ flight # 0
        /\ now < flightUntil /\ now < Deadline
    BY <1>1, CallHolds
  <2>2. now \in Nat /\ flightUntil \in Nat
    BY TimesAssumption DEF TypeOK
  <2> QED
    BY <2>1, <2>2, TimesAssumption DEF Poll, Claim, Claimable, Expire
<1>2. "claimed" \in Phases \ Calling
  BY DEF Phases, InThread, Calling
<1>3. CASE Claim(w)
  <2>1. CallsOnlyEnd
    BY <1>2, <1>3, MovedOn DEF Claim
  <2> QED
    BY <1>1, <2>1, NoCallNoFence
<1>4. CASE Expire(w)
  <2>1. CallsOnlyEnd
    BY <1>1, <1>4 DEF Expire, CallsOnlyEnd, executionVars
  <2> QED
    BY <1>1, <2>1, NoCallNoFence
<1> QED
  BY <1>3, <1>4 DEF Poll

LEMMA FenceAtScheduler ==
    ASSUME TypeOK, Fence, NEW s \in Schedulers,
           Enqueue(s) \/ Observe(s) \/ Recover(s)
    PROVE  Fence'
<1> USE DEF rowVars, leaseVars, flightVars, executionVars
<1>1. CallsOnlyEnd
  BY DEF Enqueue, Observe, Recover, CallsOnlyEnd
<1>2. CASE status = "leased"
  BY <1>1, <1>2, FenceKept DEF Enqueue, Observe, Recover
<1>3. CASE status # "leased"
  BY <1>1, <1>3, CallHolds, NoCallNoFence
<1> QED
  BY <1>2, <1>3

\* The loops, the controls and the clock.
LEMMA FenceAtRest ==
    ASSUME TypeOK, Fence, PromptSends,
           \/ \E w \in Workers : Heartbeat(w) \/ Detach(w) \/ Crash(w)
           \/ \E b \in BOOLEAN : SetPaused(b) \/ SetKillSwitch(b)
           \/ Tick
           \/ UNCHANGED vars
    PROVE  Fence'
<1> USE DEF vars, rowVars, leaseVars, flightVars, executionVars
<1>1. CASE \E w \in Workers : Heartbeat(w) \/ Detach(w)
  BY <1>1, FenceKept DEF Heartbeat, Detach, CallsOnlyEnd
<1>2. ASSUME NEW w \in Workers, Crash(w) PROVE Fence'
  <2>1. CallsOnlyEnd
    BY <1>2 DEF Crash, CallsOnlyEnd, Calling, TypeOK
  <2> QED
    BY <1>2, <2>1, FenceKept DEF Crash
<1>3. CASE \/ \E b \in BOOLEAN : SetPaused(b) \/ SetKillSwitch(b)
           \/ UNCHANGED vars
  BY <1>3, FenceKept DEF SetPaused, SetKillSwitch, CallsOnlyEnd
<1>4. CASE Tick
  <2>1. \A g \in Generations :
           /\ phase[g] \notin {"registered", "cleared"}
           /\ phase[g] = "sending" => now' < until[g]
    BY <1>4 DEF Tick
  <2> QED
    BY <1>4, <2>1 DEF Tick, Fence, Fenced, Holds
<1> QED
  BY <1>1, <1>2, <1>3, <1>4

LEMMA FenceStep ==
    ASSUME TypeOK, Fence, PromptSends, [Next]_vars
    PROVE  Fence'
<1>1. ASSUME NEW g \in Generations, ThreadStep(g) \/ Unavailable(g)
      PROVE  Fence'
  BY <1>1, QuietThreadStep, FenceKept, FenceAtBegin, FenceAtRecheck,
     FenceAtSend, FenceAtFinish, FenceAtCommit DEF ThreadStep
<1> QED
  BY <1>1, FenceAtPoll, FenceAtScheduler, FenceAtRest DEF Next

-----------------------------------------------------------------------------
(***************************************************************************)
(* The pause: one call at most is past its last check.                     *)
(***************************************************************************)
LEMMA PauseKept ==
    ASSUME PauseUsesTheFence, CallsOnlyEnd, UNCHANGED <<paused, pauseCalls>>
    PROVE  PauseUsesTheFence'
BY DEF PauseUsesTheFence, CallsOnlyEnd, Calling

LEMMA PauseAtBegin ==
    ASSUME TypeOK, PauseUsesTheFence, NEW g \in Generations, BeginSend(g)
    PROVE  PauseUsesTheFence'
<1> USE DEF controlVars, historyVars
<1>1. CASE Current(g) /\ flight = 0
  BY <1>1 DEF BeginSend, Goto, PauseUsesTheFence, TypeOK
<1>2. CASE ~(Current(g) /\ flight = 0)
  BY <1>2, Ended, PauseKept DEF BeginSend
<1> QED
  BY <1>1, <1>2

\* A call is cleared only while the policy is enabled.
LEMMA PauseAtRecheck ==
    ASSUME TypeOK, PauseUsesTheFence, NEW g \in Generations, Recheck(g)
    PROVE  PauseUsesTheFence'
<1> USE DEF controlVars, historyVars
<1>0. "waiting" \in Outcomes
  BY DEF Outcomes
<1>1. CASE MayAct(g) /\ InSendWindow
  BY <1>1 DEF Recheck, MayAct, Authorized, PauseUsesTheFence
<1>2. CASE ~(MayAct(g) /\ InSendWindow)
  BY <1>0, <1>2, Ended, PauseKept DEF Recheck, PassGate
<1> QED
  BY <1>1, <1>2

\* No two calls are cleared at once, since the row announces only one.
LEMMA PauseAtSend ==
    ASSUME TypeOK, Fence, PauseUsesTheFence, NEW g \in Generations, Send(g)
    PROVE  PauseUsesTheFence'
<1>1. phase[g] = "cleared" /\ pauseCalls = 0 /\ paused' = paused
  BY DEF Send, PauseUsesTheFence, TypeOK, controlVars
<1>2. ASSUME NEW h \in Generations, phase[h] = "cleared" PROVE h = g
  BY <1>1, <1>2 DEF Fence, Fenced, Holds
<1>3. \A h \in Generations : phase'[h] # "cleared"
  BY <1>2 DEF Send, Goto, TypeOK
<1>4. pauseCalls' = IF paused THEN 1 ELSE 0
  BY <1>1 DEF Send, CountIf
<1> QED
  BY <1>1, <1>3, <1>4 DEF PauseUsesTheFence

\* The row's other transactions, the loops, the controls and the clock.
LEMMA PauseAtRest ==
    ASSUME TypeOK, PauseUsesTheFence,
           \/ \E s \in Schedulers : Enqueue(s) \/ Observe(s) \/ Recover(s)
           \/ \E w \in Workers :
                 Poll(w) \/ Heartbeat(w) \/ Detach(w) \/ Crash(w)
           \/ \E g \in Generations : FinishSend(g) \/ Commit(g)
           \/ \E b \in BOOLEAN : SetKillSwitch(b)
           \/ Tick
           \/ UNCHANGED vars
    PROVE  PauseUsesTheFence'
<1> USE DEF vars, controlVars, historyVars, executionVars
<1>0. {"claimed", "finished"} \subseteq Phases \ Calling
  BY DEF Phases, InThread, Calling
<1>1. ASSUME NEW w \in Workers, Claim(w) \/ Crash(w)
      PROVE  PauseUsesTheFence'
  <2>1. CASE Claim(w)
    BY <1>0, <2>1, MovedOn, PauseKept DEF Claim
  <2>2. CASE Crash(w)
    BY <2>2 DEF Crash, PauseUsesTheFence, TypeOK
  <2> QED
    BY <1>1, <2>1, <2>2
<1>2. ASSUME NEW g \in Generations, FinishSend(g) \/ Commit(g)
      PROVE  PauseUsesTheFence'
  <2>1. CASE FinishSend(g)
    BY <1>0, <2>1, MovedOn, Ended, PauseKept DEF FinishSend, Goto
  <2>2. CASE Commit(g)
    BY <2>2, Ended, PauseKept DEF Commit
  <2> QED
    BY <1>2, <2>1, <2>2
<1>3. CASE \/ \E s \in Schedulers : Enqueue(s) \/ Observe(s) \/ Recover(s)
           \/ \E w \in Workers : Expire(w) \/ Heartbeat(w) \/ Detach(w)
           \/ \E b \in BOOLEAN : SetKillSwitch(b)
           \/ Tick
           \/ UNCHANGED vars
  BY <1>3 DEF Enqueue, Observe, Recover, Expire, Heartbeat, Detach,
     SetKillSwitch, Tick, PauseUsesTheFence
<1> QED
  BY <1>1, <1>2, <1>3 DEF Poll

LEMMA PauseInit == Init => PauseUsesTheFence
BY DEF Init, PauseUsesTheFence

LEMMA PauseStep ==
    ASSUME TypeOK, Fence, PauseUsesTheFence, [Next]_vars
    PROVE  PauseUsesTheFence'
<1>1. ASSUME NEW g \in Generations, ThreadStep(g) \/ Unavailable(g)
      PROVE  PauseUsesTheFence'
  BY <1>1, QuietThreadStep, PauseKept, PauseAtBegin, PauseAtRecheck,
     PauseAtSend, PauseAtRest DEF ThreadStep
<1>2. ASSUME NEW b \in BOOLEAN, SetPaused(b) PROVE PauseUsesTheFence'
  BY <1>2 DEF SetPaused, PauseUsesTheFence
<1> QED
  BY <1>1, <1>2, PauseAtRest DEF Next

-----------------------------------------------------------------------------
(***************************************************************************)
(* The kill switch: a copy of it changes only with the process that has    *)
(* it, whose executions end, and a call is cleared only by a copy that is  *)
(* off.                                                                    *)
(***************************************************************************)
Moves(g, p) ==
    /\ phase' = [phase EXCEPT ![g] = p]
    /\ UNCHANGED <<by, killSeen>>
    /\ p = "cleared" => ~killSeen[by[g]]
    /\ p = "sending" => phase[g] = "cleared"

LEMMA ThreadMoves ==
    ASSUME NEW g \in Generations, ThreadStep(g) \/ Unavailable(g)
    PROVE  phase[g] \notin {"none", "over"} /\ \E p \in Phases : Moves(g, p)
<1> USE DEF controlVars
<1>1. phase[g] \notin {"none", "over"}
  BY DEF ThreadStep, Admit, Enter, BeginSend, Recheck, Send, Answer,
     FinishSend, Accept, Result, Commit, Unavailable, Outcomes
<1>2. UNCHANGED <<paused, killSwitch, killSeen>>
  BY DEF ThreadStep, Admit, Enter, BeginSend, Recheck, Send, Answer,
     FinishSend, Accept, Result, Commit, Unavailable
<1>3. ASSUME NEW p \in Phases \ {"cleared", "sending"}, Goto(g, p)
      PROVE  \E x \in Phases : Moves(g, x)
  <2>1. Moves(g, p)
    BY <1>2, <1>3 DEF Goto, Moves
  <2> QED
    BY <2>1
<1>4. ASSUME Quit(g) PROVE \E x \in Phases : Moves(g, x)
  <2>1. Moves(g, "over") /\ "over" \in Phases
    BY <1>2, <1>4 DEF Quit, Moves, Phases
  <2> QED
    BY <2>1
<1>5. ASSUME NEW o \in Outcomes, Conclude(g, o)
      PROVE  \E x \in Phases : Moves(g, x)
  <2>1. o \in Phases \ {"cleared", "sending"}
        /\ "over" \in Phases \ {"cleared", "sending"}
    BY DEF Phases, Outcomes
  <2> QED
    BY <1>3, <1>5, <2>1 DEF Conclude
<1>6. /\ {"running", "fatal", "entering", "registered", "answered", "finished"}
            \subseteq Phases \ {"cleared", "sending"}
      /\ {"cleared", "sending"} \subseteq Phases
      /\ "waiting" \in Outcomes /\ "failed" \in Outcomes
  BY DEF Phases, InThread, Calling, Outcomes
<1>7. CASE Recheck(g)
  <2>1. CASE MayAct(g) /\ InSendWindow
    <3>1. Moves(g, "cleared")
      BY <1>2, <1>7, <2>1
         DEF Recheck, PassGate, Goto, Moves, MayAct, Authorized
    <3> QED
      BY <1>1, <1>6, <3>1
  <2>2. CASE ~(MayAct(g) /\ InSendWindow)
    BY <1>4, <1>5, <1>6, <1>7, <2>2 DEF Recheck, PassGate
  <2> QED
    BY <2>1, <2>2
<1>8. CASE Send(g)
  <2>1. Moves(g, "sending")
    BY <1>2, <1>8 DEF Send, Goto, Moves
  <2> QED
    BY <1>1, <1>6, <2>1
<1>9. CASE Enter(g)
  BY <1>3, <1>4, <1>5, <1>6, <1>9 DEF Enter, PassGate
<1>10. CASE Admit(g) \/ Answer(g)
  BY <1>3, <1>6, <1>10 DEF Admit, Answer
<1>11. CASE BeginSend(g) \/ FinishSend(g) \/ Accept(g)
  BY <1>3, <1>4, <1>6, <1>11 DEF BeginSend, FinishSend, Accept
<1>12. CASE \/ Commit(g) \/ Unavailable(g)
            \/ \E outcome \in Outcomes : Result(g, outcome)
  BY <1>1, <1>4, <1>5, <1>6, <1>12 DEF Commit, Unavailable, Result
<1> QED
  BY <1>1, <1>7, <1>8, <1>9, <1>10, <1>11, <1>12 DEF ThreadStep

LEMMA CopiesInit == Init => CopiesObeyed
BY DEF Init, CopiesObeyed

LEMMA CopiesStep ==
    ASSUME TypeOK, CopiesObeyed, [Next]_vars
    PROVE  CopiesObeyed'
<1>1. CASE UNCHANGED <<phase, by, killSeen>>
  BY <1>1 DEF CopiesObeyed
<1>2. ASSUME NEW g \in Generations, ThreadStep(g) \/ Unavailable(g)
      PROVE  CopiesObeyed'
  <2>1. PICK p \in Phases : Moves(g, p)
    BY <1>2, ThreadMoves
  <2>2. phase[g] \notin {"none", "over"}
    BY <1>2, ThreadMoves
  <2>3. ASSUME NEW h \in Generations
        PROVE  /\ phase'[h] \notin {"none", "over"} => by'[h] \in Workers
               /\ phase'[h] \in {"cleared", "sending"} => ~killSeen'[by'[h]]
    <3>1. CASE h = g
      BY <2>1, <2>2, <3>1 DEF Moves, CopiesObeyed, TypeOK
    <3>2. CASE h # g
      BY <2>1, <3>2 DEF Moves, CopiesObeyed, TypeOK
    <3> QED
      BY <3>1, <3>2
  <2> QED
    BY <2>3 DEF CopiesObeyed
<1>3. ASSUME NEW w \in Workers, Claim(w) PROVE CopiesObeyed'
  BY <1>3 DEF Claim, CopiesObeyed, TypeOK, controlVars
<1>4. ASSUME NEW w \in Workers, Crash(w) PROVE CopiesObeyed'
  BY <1>4 DEF Crash, CopiesObeyed, TypeOK
<1>5. CASE \/ \E s \in Schedulers : Enqueue(s) \/ Observe(s) \/ Recover(s)
           \/ \E w \in Workers : Expire(w) \/ Heartbeat(w) \/ Detach(w)
           \/ \E b \in BOOLEAN : SetPaused(b) \/ SetKillSwitch(b)
           \/ Tick
           \/ UNCHANGED vars
  BY <1>1, <1>5 DEF Enqueue, Observe, Recover, Expire, Heartbeat, Detach,
     SetPaused, SetKillSwitch, Tick, vars, controlVars, executionVars
<1> QED
  BY <1>2, <1>3, <1>4, <1>5 DEF Next, Poll

\* An execution moves after its claim, and a claim is of the next one.
LEMMA UnclaimedStep ==
    ASSUME TypeOK, NoneBeforeItsClaim, [Next]_vars
    PROVE  NoneBeforeItsClaim'
<1> USE DEF NoneBeforeItsClaim
<1>1. CASE UNCHANGED <<phase, by, generation>>
  BY <1>1
<1>2. ASSUME NEW g \in Generations, ThreadStep(g) \/ Unavailable(g)
      PROVE  NoneBeforeItsClaim'
  <2>1. PICK p \in Phases : Moves(g, p)
    BY <1>2, ThreadMoves
  <2>2. ~(g > generation)
    BY <1>2, ThreadMoves
  <2>3. generation' = generation
    BY <1>2 DEF ThreadStep, Admit, Enter, BeginSend, Recheck, Send, Answer,
       FinishSend, Accept, Result, Commit, Unavailable, rowVars, leaseVars
  <2> QED
    BY <2>1, <2>2, <2>3 DEF Moves, TypeOK
<1>3. ASSUME NEW w \in Workers, Claim(w) PROVE NoneBeforeItsClaim'
  <2>1. /\ generation' = generation + 1
        /\ phase' = [phase EXCEPT ![generation + 1] = "claimed"]
        /\ by' = [by EXCEPT ![generation + 1] = w]
    BY <1>3 DEF Claim
  <2>2. ASSUME NEW h \in Generations, h > generation + 1
        PROVE  h > generation /\ h # generation + 1
    BY <2>2, BoundsAssumption DEF TypeOK, Generations
  <2> QED
    BY <2>1, <2>2 DEF TypeOK
<1>4. ASSUME NEW w \in Workers, Crash(w) PROVE NoneBeforeItsClaim'
  BY <1>4, NoWorkerAssumption DEF Crash, TypeOK, rowVars, leaseVars
<1>5. CASE \/ \E s \in Schedulers : Enqueue(s) \/ Observe(s) \/ Recover(s)
           \/ \E w \in Workers : Expire(w) \/ Heartbeat(w) \/ Detach(w)
           \/ \E b \in BOOLEAN : SetPaused(b) \/ SetKillSwitch(b)
           \/ Tick
           \/ UNCHANGED vars
  BY <1>1, <1>5 DEF Enqueue, Observe, Recover, Expire, Heartbeat, Detach,
     SetPaused, SetKillSwitch, Tick, vars, rowVars, leaseVars, executionVars
<1> QED
  BY <1>2, <1>3, <1>4, <1>5 DEF Next, Poll

-----------------------------------------------------------------------------
\* Row, executions and schedulers are consistent, and when calls leave
\* promptly the row announces each of them for as long as it may take.
THEOREM WorkerInvariance == Spec => []WorkerInvariant
<1>1. Init => WorkerInvariant
  <2>1. Init => NoneBeforeItsClaim
    BY DEF Init, NoneBeforeItsClaim
  <2> QED
    BY <2>1, TypeInit, BudgetInit, CopiesInit, FenceInit, PauseInit
       DEF WorkerInvariant, Fence
<1>2. ASSUME WorkerInvariant, [Next]_vars PROVE WorkerInvariant'
  <2>1. TypeOK' /\ RecoveryBudget' /\ CopiesObeyed' /\ NoneBeforeItsClaim'
    BY <1>2, TypeStep, BudgetStep, CopiesStep, UnclaimedStep
       DEF WorkerInvariant
  <2>2. PromptSends => Fence' /\ PauseUsesTheFence'
    BY <1>2, FenceStep, PauseStep DEF WorkerInvariant, Fence
  <2> QED
    BY <2>1, <2>2 DEF WorkerInvariant, Fence
<1> QED
  BY <1>1, <1>2, PTL DEF Spec

\* When calls leave promptly, a provider call in progress, of an execution
\* that still holds the lease or of a detached one, is announced in the row.
THEOREM CallAnnouncement ==
    ASSUME PromptSends
    PROVE  Spec => []CallsAreAnnounced
<1>1. WorkerInvariant => CallsAreAnnounced
  <2> SUFFICES ASSUME WorkerInvariant, NEW g \in Generations,
                      phase[g] = "sending"
               PROVE  /\ status = "leased" /\ generation = g
                      /\ flight = g /\ now < flightUntil
    BY DEF CallsAreAnnounced
  <2> QED
    BY CallHolds DEF WorkerInvariant, Fence, Calling
<1> QED
  BY <1>1, WorkerInvariance, PTL

\* When calls leave promptly, at most one leaves after the policy is paused.
THEOREM PauseTakesEffect ==
    ASSUME PromptSends
    PROVE  Spec => []PauseExposure
<1>1. WorkerInvariant => PauseExposure
  BY DEF WorkerInvariant, PauseUsesTheFence, PauseExposure
<1> QED
  BY <1>1, WorkerInvariance, PTL

\* A worker that found the kill switch enabled at its start makes no call,
\* however its calls leave: what calls under it was started before it.
THEOREM RestartObeysKillSwitch == Spec => []CopiesObeyed
<1>1. WorkerInvariant => CopiesObeyed
  BY DEF WorkerInvariant
<1> QED
  BY <1>1, WorkerInvariance, PTL

-----------------------------------------------------------------------------
(***************************************************************************)
(* What a step may do to the status.                                       *)
(***************************************************************************)
StatusStep ==
    /\ status \in {"completed", "expired"} => status' = status
    /\ status = "leased" /\ status' = "pending"
          => \E g \in Generations : phase[g] \in Outcomes /\ Current(g)

\* All other steps leave the status alone.
LEMMA StatusUntouched ==
    ASSUME [Next]_vars,
           \A s \in Schedulers : ~Enqueue(s) /\ ~Recover(s),
           \A w \in Workers : ~Poll(w),
           \A g \in Generations : ~Commit(g)
    PROVE  status' = status
BY DEF Next, vars, rowVars, Observe, Heartbeat, Detach, Crash, ThreadStep,
   Admit, Enter, BeginSend, Recheck, Send, Answer, FinishSend, Accept, Result,
   Unavailable, SetPaused, SetKillSwitch, Tick

LEMMA StatusMoves ==
    ASSUME [Next]_vars
    PROVE  StatusStep
<1>1. ASSUME NEW s \in Schedulers, Enqueue(s) \/ Recover(s) PROVE StatusStep
  BY <1>1 DEF Enqueue, Recover, StatusStep
<1>2. ASSUME NEW w \in Workers, Poll(w) PROVE StatusStep
  BY <1>2 DEF Poll, Claim, Claimable, Expire, StatusStep
<1>3. ASSUME NEW g \in Generations, Commit(g) PROVE StatusStep
  <2>1. phase[g] \in Outcomes /\ (~Committable(g) => status' = status)
    BY <1>3 DEF Commit
  <2>2. Committable(g) => Current(g) /\ status = "leased"
    BY DEF Committable, Current
  <2> QED
    BY <2>1, <2>2 DEF StatusStep
<1>4. ASSUME status' = status PROVE StatusStep
  BY <1>4 DEF StatusStep
<1> QED
  BY <1>1, <1>2, <1>3, <1>4, StatusUntouched

\* A closed job stays closed, and a leased one is queued again by nobody but
\* its holder.
THEOREM RecoveryFindsOut == Spec => OnlyFailedRecovers
<1>1. [Next]_vars => [StatusStep]_vars
  BY StatusMoves
<1>2. Spec => [][StatusStep]_vars
  BY <1>1, PTL DEF Spec
<1> QED
  BY <1>2, PTL DEF OnlyFailedRecovers, StatusStep
-----------------------------------------------------------------------------
(***************************************************************************)
(* The job implements the permission.  When calls are prompt the fence     *)
(* says why: from the registration of a call to its end its execution is   *)
(* the holder, and no poll or commit gets through.                         *)
(***************************************************************************)
Job ==
    IF status \in {"pending", "leased"} THEN "open"
    ELSE IF status \in {"completed", "expired"} THEN "closed"
    ELSE status

Holder == IF status = "leased" THEN generation ELSE 0

Announced == {g \in Generations : phase[g] \in {"registered", "cleared"}}

InProgress == {g \in Generations : phase[g] = "sending"}

NoCalls == Announced = {} /\ InProgress = {}

LEMMA PermissionGrants ==
    ASSUME Job = "open", PromptSends => NoCalls,
           generation' = generation + 1, Holder' = generation',
           UNCHANGED <<Job, Announced, InProgress, recoveries>>
    PROVE  Permission!Next
BY DEF Permission!Next, Permission!Grant, Permission!Undisturbed,
   Permission!callVars, Job, Holder, Announced, InProgress, NoCalls

LEMMA PermissionConcludes ==
    ASSUME NEW outcome \in {"open", "failed", "closed"},
           Job = "open", PromptSends => NoCalls,
           Holder # 0 \/ outcome = "closed",
           Job' = outcome, Holder' = 0,
           UNCHANGED <<generation, Announced, InProgress, recoveries>>
    PROVE  Permission!Next
<1>1. Permission!Conclude(outcome)
  BY DEF Permission!Conclude, Permission!Undisturbed, Permission!callVars,
     Job, Holder, Announced, InProgress, NoCalls
<1> QED
  BY <1>1 DEF Permission!Next

LEMMA PermissionAnnounces ==
    ASSUME Holder # 0, Holder \notin Announced \union InProgress,
           PromptSends => NoCalls,
           Announced' = Announced \union {Holder},
           UNCHANGED <<Job, Holder, generation, InProgress, recoveries>>
    PROVE  Permission!Next
BY DEF Permission!Next, Permission!Announce, Permission!Undisturbed,
   Job, Holder, Announced, InProgress, NoCalls

LEMMA PermissionCalls ==
    ASSUME NEW g \in Announced, Announced' = Announced \ {g},
           InProgress' = InProgress \union {g},
           UNCHANGED <<Job, Holder, generation, recoveries>>
    PROVE  Permission!Next
<1>1. Permission!Call(g)
  BY DEF Permission!Call, Job, Holder, Announced, InProgress
<1> QED
  BY <1>1 DEF Permission!Next, Announced

LEMMA PermissionCeases ==
    ASSUME Announced' \subseteq Announced, InProgress' \subseteq InProgress,
           UNCHANGED <<Job, Holder, generation, recoveries>>
    PROVE  Permission!Next
BY DEF Permission!Next, Permission!Cease, Job, Holder, Announced, InProgress

\* Prompt calls are registered in a row that is leased.
LEMMA QuietRow ==
    ASSUME TypeOK, Fence, flight = 0 \/ status # "leased"
    PROVE  NoCalls
BY CallHolds DEF NoCalls, Announced, InProgress, Calling

LEMMA PermissionInit == Init => Permission!Init
<1> SUFFICES ASSUME Init PROVE Permission!Init
  OBVIOUS
<1>1. NoCalls
  BY DEF Init, NoCalls, Announced, InProgress
<1> QED
  BY <1>1 DEF Init, Permission!Init, NoCalls, Announced, InProgress

LEMMA PermissionAtScheduler ==
    ASSUME TypeOK, RecoveryBudget, NEW s \in Schedulers,
           Enqueue(s) \/ Observe(s) \/ Recover(s)
    PROVE  Permission!Next
<1> USE DEF rowVars, leaseVars, flightVars, countVars, executionVars
<1>1. UNCHANGED <<Announced, InProgress, generation>>
  BY DEF Enqueue, Observe, Recover, Announced, InProgress
<1>2. CASE Enqueue(s)
  BY <1>1, <1>2 DEF Enqueue, Permission!Next, Permission!Create,
     Permission!callVars, Announced, InProgress
<1>3. CASE Recover(s) /\ status = "failed"
  <2>1. s \in Deciding
    BY <1>3 DEF Recover, Deciding
  <2>2. Cardinality(Deciding) # 0
    BY <2>1, DecidingFinite, FS_EmptySet
  <2>3. /\ recoveries \in Nat /\ Cardinality(Deciding) >= 1
        /\ MaxRecoveries \in Nat /\ Cardinality(Deciding) \in Nat
        /\ Cardinality(Schedulers) \in Nat
    BY <2>2, DecidingFinite, BoundsAssumption DEF TypeOK
  <2>4. recoveries < MaxRecoveries + Cardinality(Schedulers) - 1
    BY <2>3 DEF RecoveryBudget
  <2>5. /\ status' = "pending" /\ recoveries' = recoveries + 1
    BY <1>3 DEF Recover
  <2> QED
    BY <1>1, <1>3, <2>4, <2>5 DEF Permission!Next, Permission!Reopen,
       Permission!callVars, Announced, InProgress
<1>4. CASE Observe(s) \/ (Recover(s) /\ status # "failed")
  <2>1. UNCHANGED <<status, recoveries>>
    BY <1>4 DEF Observe, Recover
  <2> QED
    BY <1>1, <2>1, PermissionCeases DEF Job, Holder
<1> QED
  BY <1>2, <1>3, <1>4

LEMMA PermissionAtPoll ==
    ASSUME TypeOK, NoneBeforeItsClaim, PromptSends => Fence,
           NEW w \in Workers, Poll(w)
    PROVE  Permission!Next
<1>1. PromptSends => NoCalls
  <2>1. ASSUME PromptSends, NEW h \in Generations, phase[h] \in Calling
        PROVE  FALSE
    <3>1. /\ status = "leased" /\ flight # 0
          /\ now < flightUntil /\ now < Deadline
      BY <2>1, CallHolds
    <3>2. now \in Nat /\ flightUntil \in Nat
      BY TimesAssumption DEF TypeOK
    <3> QED
      BY <3>1, <3>2, TimesAssumption DEF Poll, Claim, Claimable, Expire
  <2> QED
    BY <2>1 DEF NoCalls, Announced, InProgress, Calling
<1>2. status \in {"pending", "leased"}
  BY DEF Poll, Claim, Claimable, Expire
<1>3. CASE Claim(w)
  <2>1. /\ status' = "leased" /\ generation' = generation + 1
        /\ recoveries' = recoveries
        /\ generation + 1 \in Generations
        /\ phase' = [phase EXCEPT ![generation + 1] = "claimed"]
    BY <1>3 DEF Claim, countVars
  <2>2. phase[generation + 1] = "none"
    BY <2>1, BoundsAssumption DEF NoneBeforeItsClaim, TypeOK
  <2>3. UNCHANGED <<Announced, InProgress>>
    BY <2>1, <2>2 DEF Announced, InProgress, TypeOK
  <2> QED
    BY <1>1, <1>2, <2>1, <2>3, PermissionGrants DEF Job, Holder
<1>4. CASE Expire(w)
  <2>1. /\ status' = "expired"
        /\ UNCHANGED <<generation, recoveries, phase>>
    BY <1>4 DEF Expire, countVars, executionVars
  <2>2. UNCHANGED <<Announced, InProgress>>
    BY <2>1 DEF Announced, InProgress
  <2>3. Job = "open" /\ Job' = "closed" /\ Holder' = 0
    BY <1>2, <2>1 DEF Job, Holder
  <2> QED
    BY <1>1, <2>1, <2>2, <2>3, PermissionConcludes
<1> QED
  BY <1>3, <1>4 DEF Poll

\* What a commit leaves of the row: the job is open, failed or closed.
LEMMA Disposed ==
    ASSUME NEW outcome \in Outcomes, Dispose(outcome)
    PROVE  status' \in {"pending", "completed", "failed", "expired"}
BY DEF Dispose, Finish, Reschedule

LEMMA PermissionAtCommit ==
    ASSUME TypeOK, PromptSends => Fence, NEW g \in Generations, Commit(g)
    PROVE  Permission!Next
<1>1. /\ phase[g] \in Outcomes /\ phase' = [phase EXCEPT ![g] = "over"]
      /\ UNCHANGED <<generation, recoveries>>
  BY DEF Commit, Quit
<1>2. UNCHANGED <<Announced, InProgress>>
  BY <1>1 DEF Announced, InProgress, Outcomes, TypeOK
<1>3. CASE Committable(g)
  <2>1. status = "leased" /\ flight = 0 /\ generation = g
    BY <1>3 DEF Committable, Current
  <2>2. PromptSends => NoCalls
    BY <2>1, QuietRow
  <2>3. status' \in {"pending", "completed", "failed", "expired"}
    BY <1>1, <1>3, Disposed DEF Commit
  <2>4. Job = "open" /\ Holder # 0
    BY <2>1, BoundsAssumption DEF Job, Holder, Generations
  <2>5. Job' \in {"open", "failed", "closed"} /\ Holder' = 0
    BY <2>3 DEF Job, Holder
  <2> QED
    BY <1>1, <1>2, <2>2, <2>4, <2>5, PermissionConcludes
<1>4. CASE ~Committable(g)
  <2>1. status' = status
    BY <1>4 DEF Commit
  <2> QED
    BY <1>1, <1>2, <2>1, PermissionCeases DEF Job, Holder
<1> QED
  BY <1>3, <1>4

\* An execution registers its call as the holder, whoever may still be about
\* to make an older one.
LEMMA PermissionAtRegistration ==
    ASSUME TypeOK, PromptSends => Fence, NEW g \in Generations,
           BeginSend(g), Current(g), flight = 0
    PROVE  Permission!Next
<1>1. /\ phase[g] = "entering"
      /\ phase' = [phase EXCEPT ![g] = "registered"]
      /\ UNCHANGED <<status, generation, recoveries>>
  BY DEF BeginSend, Goto, leaseVars, countVars
<1>2. Holder = g /\ Holder # 0 /\ UNCHANGED <<Job, Holder>>
  BY <1>1, BoundsAssumption DEF Current, Job, Holder, Generations
<1>3. /\ g \notin Announced \union InProgress
      /\ Announced' = Announced \union {g} /\ InProgress' = InProgress
  BY <1>1 DEF Announced, InProgress, TypeOK
<1>4. PromptSends => NoCalls
  BY QuietRow
<1> QED
  BY <1>1, <1>2, <1>3, <1>4, PermissionAnnounces

LEMMA PermissionAtCall ==
    ASSUME TypeOK, NEW g \in Generations, Send(g)
    PROVE  Permission!Next
<1>1. /\ phase[g] = "cleared" /\ phase' = [phase EXCEPT ![g] = "sending"]
      /\ UNCHANGED <<status, generation, recoveries>>
  BY DEF Send, Goto, rowVars, leaseVars, countVars
<1>2. /\ g \in Announced /\ Announced' = Announced \ {g}
      /\ InProgress' = InProgress \union {g}
  BY <1>1 DEF Announced, InProgress, TypeOK
<1> QED
  BY <1>1, <1>2, PermissionCalls DEF Job, Holder

\* The other steps of an execution register and make no call.
MovesQuietly(g) ==
    \E p \in Phases \ {"registered", "sending"} :
        /\ p = "cleared" => phase[g] = "registered"
        /\ phase' = [phase EXCEPT ![g] = p]

LEMMA PermissionAtQuietThread ==
    ASSUME TypeOK, NEW g \in Generations,
           \/ Admit(g) \/ Enter(g) \/ Recheck(g) \/ Answer(g)
           \/ FinishSend(g) \/ Accept(g) \/ Unavailable(g)
           \/ \E outcome \in Outcomes : Result(g, outcome)
           \/ BeginSend(g) /\ ~(Current(g) /\ flight = 0)
    PROVE  Permission!Next
<1>1. UNCHANGED <<status, generation, recoveries>>
  BY DEF Admit, Enter, BeginSend, Recheck, Answer, FinishSend, Accept,
     Unavailable, Result, rowVars, leaseVars, countVars
<1>2. MovesQuietly(g)
  <2>1. ASSUME NEW p \in Phases \ {"registered", "sending", "cleared"},
               Goto(g, p)
        PROVE  MovesQuietly(g)
    BY <2>1 DEF Goto, MovesQuietly
  <2>2. Quit(g) => MovesQuietly(g)
    BY DEF Quit, Phases, MovesQuietly
  <2>3. ASSUME NEW o \in Outcomes, Conclude(g, o) PROVE MovesQuietly(g)
    BY <2>1, <2>3 DEF Conclude, Phases, Outcomes
  <2>4. /\ {"running", "fatal", "entering", "answered", "finished"}
              \subseteq Phases \ {"registered", "sending", "cleared"}
        /\ "waiting" \in Outcomes /\ "failed" \in Outcomes
    BY DEF Phases, InThread, Calling, Outcomes
  <2>5. CASE Admit(g)
    BY <2>1, <2>4, <2>5 DEF Admit
  <2>6. CASE Enter(g)
    BY <2>1, <2>2, <2>3, <2>4, <2>6 DEF Enter, PassGate
  <2>7. CASE Recheck(g)
    <3>1. ASSUME Goto(g, "cleared") PROVE MovesQuietly(g)
      BY <2>7, <3>1
         DEF Recheck, Goto, MovesQuietly, Phases, InThread, Calling
    <3> QED
      BY <2>2, <2>3, <2>4, <2>7, <3>1 DEF Recheck, PassGate
  <2>8. CASE Answer(g) \/ FinishSend(g) \/ Accept(g)
    BY <2>1, <2>2, <2>4, <2>8 DEF Answer, FinishSend, Accept
  <2>9. CASE BeginSend(g) /\ ~(Current(g) /\ flight = 0)
    BY <2>2, <2>9 DEF BeginSend
  <2>10. CASE Unavailable(g) \/ \E outcome \in Outcomes : Result(g, outcome)
    BY <2>2, <2>3, <2>4, <2>10 DEF Unavailable, Result
  <2> QED
    BY <2>5, <2>6, <2>7, <2>8, <2>9, <2>10
<1>3. Announced' \subseteq Announced /\ InProgress' \subseteq InProgress
  BY <1>2 DEF MovesQuietly, Announced, InProgress, TypeOK
<1> QED
  BY <1>1, <1>3, PermissionCeases DEF Job, Holder

\* The loops, the controls and the clock; a process that dies takes its calls
\* with it.
LEMMA PermissionAtRest ==
    ASSUME TypeOK,
           \/ \E w \in Workers : Heartbeat(w) \/ Detach(w) \/ Crash(w)
           \/ \E b \in BOOLEAN : SetPaused(b) \/ SetKillSwitch(b)
           \/ Tick
           \/ UNCHANGED vars
    PROVE  Permission!Next
<1> USE DEF vars, rowVars, leaseVars, flightVars, countVars, executionVars
<1>1. UNCHANGED <<status, generation, recoveries>>
  BY DEF Heartbeat, Detach, Crash, SetPaused, SetKillSwitch, Tick
<1>2. \/ phase' = phase
      \/ \E w \in Workers :
            phase' = [g \in Generations |->
                        IF by[g] = w THEN "over" ELSE phase[g]]
  BY DEF Heartbeat, Detach, Crash, SetPaused, SetKillSwitch, Tick
<1>3. Announced' \subseteq Announced /\ InProgress' \subseteq InProgress
  BY <1>2 DEF Announced, InProgress, TypeOK
<1> QED
  BY <1>1, <1>3, PermissionCeases DEF Job, Holder

LEMMA PermissionStep ==
    ASSUME WorkerInvariant, [Next]_vars
    PROVE  Permission!Next
<1>1. /\ TypeOK /\ RecoveryBudget /\ NoneBeforeItsClaim
      /\ PromptSends => Fence
  BY DEF WorkerInvariant, Fence
<1>2. ASSUME NEW g \in Generations, ThreadStep(g) \/ Unavailable(g)
      PROVE  Permission!Next
  BY <1>1, <1>2, PermissionAtRegistration, PermissionAtCall,
     PermissionAtCommit, PermissionAtQuietThread DEF ThreadStep
<1> QED
  BY <1>1, <1>2, PermissionAtScheduler, PermissionAtPoll, PermissionAtRest
     DEF Next

\* The worker's job is a permission to call that is held by one execution
\* after another: each announces its calls while it holds it and makes each
\* of them once, though it may be detached by then; and when calls leave
\* promptly, nothing moves from the announcement of a call to its end
\* (claim, begin_provider_send, finish_provider_send).
THEOREM JobIsPermission == Spec => CallsByPermission
<1>1. WorkerInvariant /\ [Next]_vars => [Permission!Next]_(Permission!vars)
  BY PermissionStep
<1> QED
  BY <1>1, PermissionInit, WorkerInvariance, PTL
     DEF Spec, CallsByPermission, Permission!Spec

\* What follows of the abstract specification alone.
LEMMA ClosedPermission ==
    ASSUME Permission!Next, Job = "closed"
    PROVE  /\ Job' = "closed"
           /\ Announced' \subseteq Announced
           /\ InProgress' \subseteq Announced \union InProgress
<1> USE DEF Permission!Undisturbed, Permission!callVars, Job, Holder,
            Announced, InProgress
<1>1. Holder = 0
  OBVIOUS
<1>2. ~Permission!Create /\ ~Permission!Grant /\ ~Permission!Announce
        /\ ~Permission!Reopen
  BY <1>1 DEF Permission!Create, Permission!Grant, Permission!Announce,
     Permission!Reopen
<1>3. \A outcome \in {"open", "failed", "closed"} :
        ~Permission!Conclude(outcome)
  BY DEF Permission!Conclude
<1>4. CASE Permission!Cease
  BY <1>4 DEF Permission!Cease
<1>5. CASE \E e \in Announced : Permission!Call(e)
  BY <1>5 DEF Permission!Call
<1> QED
  BY <1>2, <1>3, <1>4, <1>5 DEF Permission!Next

\* A job that was completed or has expired stays closed, and whatever is
\* called after that was announced before: however late its executions run,
\* none of them registers a call, and there are no more calls than there were
\* registrations (claim_next, begin_provider_send).
THEOREM ClosedJobsAnnounceNothing ==
    Spec => [][Job = "closed" =>
                  /\ Job' = "closed"
                  /\ Announced' \subseteq Announced
                  /\ InProgress' \subseteq Announced \union InProgress]_vars
<1>1. WorkerInvariant /\ [Next]_vars =>
        [Job = "closed" =>
            /\ Job' = "closed"
            /\ Announced' \subseteq Announced
            /\ InProgress' \subseteq Announced \union InProgress]_vars
  BY PermissionStep, ClosedPermission
<1> QED
  BY <1>1, WorkerInvariance, PTL DEF Spec
=============================================================================
