-------------------- MODULE ControlledCancellationProofs --------------------
(***************************************************************************)
(* Proofs about ControlledCancellation, for any number of orders, workers, *)
(* ticks, observations and queries.                                        *)
(***************************************************************************)
EXTENDS ControlledCancellation, SerialSubmissionProofs

-----------------------------------------------------------------------------
(***************************************************************************)
(* Cancellation beside submission: every step is one of submission or      *)
(* leaves its rows alone, so what is shown of submission holds here.       *)
(***************************************************************************)
LEMMA CancelOrRestart ==
    ASSUME NEW w \in Workers, CancelStep(w)
    PROVE  UNCHANGED vars \/ Restart(w)
BY DEF CancelStep, PrepareCancel, ClaimCancelQuery, CheckCancel, RefuseCancel,
   CallCancel, ConcludeCancel, AnswerCancelQuery, AbandonCancel,
   RestartCancelling

LEMMA LoopIsSubmission ==
    ASSUME NEW w \in Workers, LoopStep(w)
    PROVE  Next
BY DEF LoopStep, Next, OtherWriters

LEMMA SubmissionStep ==
    ASSUME [CancelNext]_allVars
    PROVE  [Next]_vars
<1>1. ASSUME NEW w \in Workers, CancelStep(w) PROVE [Next]_vars
  BY <1>1, CancelOrRestart DEF Next
<1>2. ASSUME NEW w \in Workers, LoopStep(w) PROVE [Next]_vars
  BY <1>2, LoopIsSubmission
<1>3. CASE EvidenceStep
  BY <1>3 DEF EvidenceStep, Next, OtherWriters
<1>4. CASE CancelTick
  BY <1>4 DEF CancelTick, Next
<1>5. CASE UNCHANGED allVars
  BY <1>5 DEF allVars
<1> QED
  BY <1>1, <1>2, <1>3, <1>4, <1>5 DEF CancelNext

\* The submission of an order goes on as if nobody could cancel it: no step
\* of a cancellation, its crash included, moves a row or a handler of it.
THEOREM CancellationRefinement == CancelSpec => ImplementsSubmission
<1>1. CancelInit => Init
  BY DEF CancelInit
<1> QED
  BY <1>1, SubmissionStep, PTL DEF CancelSpec, ImplementsSubmission, Spec

\* Beside cancellation, with any number of processes: an order leaves once and
\* on one route, the rows agree, a second order stays excluded, and the books
\* hold no submission that the broker does not have.
THEOREM SubmissionBesideCancel ==
    CancelSpec => [](/\ OneRoutePerOrder /\ RowsAgree
                     /\ OneUnsettledSubmission /\ RecordedIsReal)
BY CancellationRefinement, OneRoute, RowAgreement, Interlock, RecordsAreReal,
   PTL DEF ImplementsSubmission

\* Beside cancellation, in one process or with prompt handlers: an order that
\* is live at the broker keeps the others blocked until it is cleared, though
\* its cancellation be under way or done.
THEOREM LiveOrdersBlockBesideCancel ==
    ASSUME Serialized
    PROVE  CancelSpec => []LiveOrderBlocksOthers
BY CancellationRefinement, LiveOrdersBlock, PTL DEF ImplementsSubmission

\* Beside cancellation, with any number of processes: a cancellation, the
\* crash of its handler included, neither spends nor gives back the authority
\* of an order's confirmation.
THEOREM AuthorityBesideCancel == CancelSpec => ImplementsAuthority
BY CancellationRefinement, AuthorityRefinement, PTL DEF ImplementsSubmission

\* Beside cancellation, in one process or with prompt handlers: no submit call
\* leaves after its submission was closed, at most one after the kill switch
\* was set, and the recovery queries of an order keep their distance.
THEOREM SerialBesideCancel ==
    ASSUME Serialized
    PROVE  CancelSpec => /\ ImplementsStrictAuthority
                         /\ []KillSwitchExposure
                         /\ QueriesSpaced
BY CancellationRefinement, StrictRefinement, KillSwitch, SpacedQueries, PTL
   DEF ImplementsSubmission

-----------------------------------------------------------------------------
(***************************************************************************)
(* What submission grants: a submitted intent stays one, and a step of one *)
(* worker moves no other.                                                  *)
(***************************************************************************)
LEMMA PersistKeepsSubmitted ==
    ASSUME TypeOK, NEW o \in Orders, NEW r \in Results, NEW age \in 0..MinWait,
           Persist(o, r, age),
           NEW p \in Orders, intent[p] = "submitted"
    PROVE  intent'[p] = "submitted"
BY DEF TypeOK, Persist, Unfinished

LEMMA SubmittedStays ==
    ASSUME SubmissionInvariant, [Next]_vars,
           NEW o \in Orders, intent[o] = "submitted"
    PROVE  intent'[o] = "submitted"
<1> USE DEF dbVars
<1>1. ASSUME NEW w \in Workers, Prepare(w) PROVE intent'[o] = "submitted"
  BY <1>1 DEF Prepare, MayPrepare, SubmissionInvariant, TypeOK, HoldersKnown
<1>2. ASSUME NEW w \in Workers, Finalize(w) PROVE intent'[o] = "submitted"
  <2>1. res[w] \in Results /\ ord[w] \in Orders /\ TypeOK
    BY <1>2 DEF Finalize, SubmissionInvariant, TypeOK, HoldersKnown
  <2> QED
    BY <1>2, <2>1, PersistKeepsSubmitted, AgeRange DEF Finalize
<1>3. ASSUME NEW w \in Workers, FinalizeRecovered(w)
      PROVE  intent'[o] = "submitted"
  <2>1. res[w] \in Results /\ ord[w] \in Orders /\ TypeOK
    BY <1>3 DEF FinalizeRecovered, SubmissionInvariant, TypeOK, HoldersKnown
  <2> QED
    BY <1>3, <2>1, PersistKeepsSubmitted, AgeRange DEF FinalizeRecovered
<1>4. ASSUME NEW w \in Workers, SubmitStep(w) PROVE intent'[o] = "submitted"
  BY <1>1, <1>2, <1>4 DEF SubmitStep, Review, PrepareRefused, PreCallCheck,
     Call, GatewayMissing, Reply
<1>5. ASSUME NEW w \in Workers, RecoverStep(w) PROVE intent'[o] = "submitted"
  BY <1>3, <1>5 DEF RecoverStep, Claim, Query
<1>6. ASSUME NEW w \in Workers, Abandon(w) \/ Restart(w)
      PROVE  intent'[o] = "submitted"
  BY <1>6 DEF Abandon, Restart
<1>7. ASSUME OtherWriters \/ Broker \/ Tick PROVE intent'[o] = "submitted"
  BY <1>7 DEF OtherWriters, Broker, Tick, CreateManualTicket,
     RecordObservation, ClearSubmission, SetKillSwitch, Deliver, Lose
<1>8. CASE UNCHANGED vars
  BY <1>8 DEF vars
<1> QED
  BY <1>4, <1>5, <1>6, <1>7, <1>8 DEF Next

LEMMA OthersStand ==
    ASSUME TypeOK, NEW w \in Workers,
           \/ SubmitStep(w) \/ RecoverStep(w) \/ Abandon(w) \/ Restart(w)
           \/ \E o \in Orders : CreateManualTicket(w, o)
           \/ \E enabled \in BOOLEAN : SetKillSwitch(w, enabled)
    PROVE  \A v \in Workers : v # w => pc'[v] = pc[v]
<1> USE DEF TypeOK, Goto, Hold, End, Begin, workerVars
<1>1. CASE SubmitStep(w)
  <2>1. CASE Prepare(w) \/ Call(w)
    BY <2>1 DEF Prepare, Call
  <2>2. CASE PreCallCheck(w) \/ GatewayMissing(w)
    BY <2>2 DEF PreCallCheck, GatewayMissing
  <2>3. CASE PrepareRefused(w) \/ Finalize(w)
    BY <2>3 DEF PrepareRefused, Finalize
  <2>4. CASE \E o \in Orders : Review(w, o)
    BY <2>4 DEF Review
  <2>5. CASE \E r \in Results : Reply(w, r)
    BY <2>5 DEF Reply
  <2> QED
    BY <1>1, <2>1, <2>2, <2>3, <2>4, <2>5 DEF SubmitStep
<1>2. CASE RecoverStep(w)
  BY <1>2 DEF RecoverStep, Claim, Query, FinalizeRecovered
<1> QED
  BY <1>1, <1>2 DEF Abandon, Restart, CreateManualTicket, SetKillSwitch

-----------------------------------------------------------------------------
(***************************************************************************)
(* The invariant of cancellation.                                          *)
(***************************************************************************)
LEMMA CancelInvariantInit == CancelInit => CancelInvariant
<1> SUFFICES ASSUME CancelInit PROVE CancelInvariant
  OBVIOUS
<1>1. 0 \in 0..MaxQueries /\ 0 \in 0..MaxObs
  BY MaxQueriesAssumption, MaxObsAssumption
<1>2. CancelTypeOK
  BY <1>1, AgeRange DEF CancelInit, CancelTypeOK
<1>3. RequestsKnown /\ CommandsAreAboutSubmitted
  BY DEF CancelInit, RequestsKnown, CommandsAreAboutSubmitted, Busy
<1>4. OneCancelGrant
  BY DEF CancelInit, OneCancelGrant, Cancelling
<1>5. QueriesNumbered
  BY DEF CancelInit, QueriesNumbered
<1> QED
  BY <1>2, <1>3, <1>4, <1>5 DEF CancelInvariant

\* A step that leaves cancellation to itself, but for the age of its rows.
LEMMA ForeignStep ==
    ASSUME CancelInvariant, SubmissionInvariant, [Next]_vars,
           UNCHANGED <<commandVars, queryCount, answered, handlerVars, cancels>>,
           queryAge' \in [Orders -> 0..MinWait],
           \A w \in Workers : Busy(w) => pc'[w] = pc[w]
    PROVE  CancelInvariant'
<1> USE DEF commandVars, handlerVars
<1>1. CancelTypeOK'
  BY DEF CancelInvariant, CancelTypeOK
<1>2. RequestsKnown'
  BY DEF CancelInvariant, RequestsKnown, Busy
<1>3. OneCancelGrant'
  BY DEF CancelInvariant, OneCancelGrant
<1>4. CommandsAreAboutSubmitted'
  BY SubmittedStays DEF CancelInvariant, CommandsAreAboutSubmitted
<1>5. QueriesNumbered'
  BY DEF CancelInvariant, QueriesNumbered, OneProcess
<1> QED
  BY <1>1, <1>2, <1>3, <1>4, <1>5 DEF CancelInvariant

LEMMA PrepareKeeps ==
    ASSUME CancelInvariant, SubmissionInvariant,
           NEW w \in Workers, NEW o \in Orders, PrepareCancel(w, o)
    PROVE  CancelInvariant'
<1>1. /\ cancel' = [cancel EXCEPT ![o] = "prepared"]
      /\ at' = [at EXCEPT ![w] = "granted"]
      /\ aim' = [aim EXCEPT ![w] = o]
      /\ claim' = [claim EXCEPT ![w] = 0]
      /\ evidence' = [evidence EXCEPT ![o] = obs[o]]
      /\ queryAge' = [queryAge EXCEPT ![o] = 0]
      /\ cancel[o] = "none" /\ pc[w] = "idle" /\ at[w] = "idle"
      /\ intent[o] = "submitted"
      /\ UNCHANGED <<pc, intent, queryCount, answered, cancels>>
  BY DEF PrepareCancel, Serve, Cancellable, Busy, vars, workerVars, dbVars
<1>2. CancelTypeOK
  BY DEF CancelInvariant
<1>3. CancelTypeOK'
  <2>1. obs[o] \in 0..MaxObs
    BY DEF SubmissionInvariant, TypeOK
  <2> QED
    BY <1>1, <1>2, <2>1, AgeRange, MaxQueriesAssumption
       DEF CancelTypeOK, Cancelling
<1>4. RequestsKnown'
  BY <1>1, <1>2, NoOrderAssumption
     DEF CancelInvariant, CancelTypeOK, RequestsKnown, Busy
<1>5. \A v \in Workers : at[v] \in Cancelling => aim[v] # o
  BY <1>1 DEF CancelInvariant, RequestsKnown, Busy, Cancelling
<1>6. OneCancelGrant'
  BY <1>1, <1>2, <1>5 DEF CancelInvariant, CancelTypeOK, OneCancelGrant,
     Cancelling
<1>7. CommandsAreAboutSubmitted'
  BY <1>1, <1>2 DEF CancelInvariant, CancelTypeOK, CommandsAreAboutSubmitted
<1>8. QueriesNumbered'
  BY <1>1, <1>2 DEF CancelInvariant, CancelTypeOK, QueriesNumbered, OneProcess
<1> QED
  BY <1>3, <1>4, <1>6, <1>7, <1>8 DEF CancelInvariant

LEMMA ClaimQueryKeeps ==
    ASSUME CancelInvariant, NEW w \in Workers, NEW o \in Orders,
           ClaimCancelQuery(w, o)
    PROVE  CancelInvariant'
<1>1. /\ at' = [at EXCEPT ![w] = "asking"]
      /\ aim' = [aim EXCEPT ![w] = o]
      /\ claim' = [claim EXCEPT ![w] = queryCount[o] + 1]
      /\ queryCount' = [queryCount EXCEPT ![o] = @ + 1]
      /\ queryAge' = [queryAge EXCEPT ![o] = 0]
      /\ cancel[o] # "none" /\ pc[w] = "idle" /\ at[w] = "idle"
      /\ queryCount[o] < MaxQueries
      /\ UNCHANGED <<pc, intent, cancel, evidence, answered, cancels>>
  BY DEF ClaimCancelQuery, Serve, Busy, vars, workerVars, dbVars, commandVars
<1>2. CancelTypeOK
  BY DEF CancelInvariant
<1>3. queryCount[o] \in Nat /\ queryCount[o] + 1 \in 0..MaxQueries
  BY <1>1, <1>2, MaxQueriesAssumption DEF CancelTypeOK
<1>4. CancelTypeOK'
  BY <1>1, <1>2, <1>3, AgeRange DEF CancelTypeOK, Cancelling
<1>5. RequestsKnown'
  BY <1>1, <1>2, NoOrderAssumption
     DEF CancelInvariant, CancelTypeOK, RequestsKnown, Busy
<1>6. OneCancelGrant'
  BY <1>1, <1>2 DEF CancelInvariant, CancelTypeOK, OneCancelGrant, Cancelling
<1>7. CommandsAreAboutSubmitted'
  BY <1>1 DEF CancelInvariant, CommandsAreAboutSubmitted
<1>8. QueriesNumbered'
  <2>1. \A p \in Orders : queryCount[p] <= queryCount'[p]
    BY <1>1, <1>2, <1>3 DEF CancelTypeOK
  <2>2. \A p \in Orders : answered'[p] <= queryCount'[p]
    BY <1>1, <1>2, <1>3 DEF CancelInvariant, CancelTypeOK, QueriesNumbered
  <2>3. ASSUME NEW v \in Workers, at'[v] = "asking"
        PROVE  /\ claim'[v] <= queryCount'[aim'[v]]
               /\ OneProcess => claim'[v] = queryCount'[aim'[v]]
    <3>1. CASE v = w
      BY <3>1, <1>1, <1>2, <1>3 DEF CancelTypeOK
    <3>2. CASE v # w
      <4>1. at[v] = "asking" /\ aim[v] \in Orders
            /\ aim'[v] = aim[v] /\ claim'[v] = claim[v]
        BY <3>2, <2>3, <1>1, <1>2
           DEF CancelInvariant, CancelTypeOK, RequestsKnown, Busy
      <4> QED
        BY <3>2, <4>1, <2>1, <1>1, <1>2, <1>3
           DEF CancelInvariant, CancelTypeOK, QueriesNumbered, OneProcess
    <3> QED
      BY <3>1, <3>2
  <2> QED
    BY <2>2, <2>3 DEF QueriesNumbered, OneProcess
<1> QED
  BY <1>4, <1>5, <1>6, <1>7, <1>8 DEF CancelInvariant

LEMMA CallKeeps ==
    ASSUME CancelInvariant, NEW w \in Workers,
           CheckCancel(w) \/ CallCancel(w)
    PROVE  CancelInvariant'
<1> USE DEF commandVars, queryVars, vars, workerVars, dbVars
<1>1. PICK o \in Orders : o = aim[w]
  BY DEF CheckCancel, CallCancel, CancelInvariant, CancelTypeOK, RequestsKnown,
     Busy
<1>2. /\ at[w] \in {"granted", "confirmed"}
      /\ at' = [at EXCEPT ![w] = IF CheckCancel(w) THEN "confirmed" ELSE "called"]
      /\ UNCHANGED <<pc, intent, aim, claim, cancel, evidence, queryCount,
                     queryAge, answered>>
  BY DEF CheckCancel, CallCancel, Proceed
<1>3. CancelTypeOK /\ cancels[o] = 0
  BY <1>1, <1>2 DEF CancelInvariant, OneCancelGrant
<1>4. \/ CheckCancel(w) /\ cancels' = cancels /\ at'[w] = "confirmed"
      \/ cancels' = [cancels EXCEPT ![o] = 1] /\ at'[w] = "called"
  BY <1>1, <1>2, <1>3 DEF CheckCancel, CallCancel, Proceed, CancelTypeOK
<1>5. CancelTypeOK'
  BY <1>2, <1>3, <1>4 DEF CancelTypeOK, Cancelling
<1>6. RequestsKnown'
  BY <1>2, <1>3 DEF CancelInvariant, CancelTypeOK, RequestsKnown, Busy
<1>7. OneCancelGrant'
  <2>1. \A v \in Workers : at'[v] \in Cancelling <=> at[v] \in Cancelling
    BY <1>2, <1>3, <1>4 DEF CancelTypeOK, Cancelling
  <2>2. \A v \in Workers : at[v] \in Cancelling /\ aim[v] = o => v = w
    BY <1>1, <1>2 DEF CancelInvariant, OneCancelGrant, Cancelling
  <2>3. cancel[o] # "none"
    BY <1>1, <1>2 DEF CancelInvariant, RequestsKnown, Busy
  <2>4. ASSUME NEW v \in Workers, at'[v] \in {"granted", "confirmed"}
        PROVE  cancels'[aim'[v]] = 0
    <3>1. CASE v = w
      BY <3>1, <2>4, <1>1, <1>2, <1>3, <1>4
    <3>2. CASE v # w
      <4>1. at[v] \in {"granted", "confirmed"}
        BY <3>2, <2>4, <1>2, <1>3 DEF CancelTypeOK
      <4>2. aim[v] # o /\ cancels[aim[v]] = 0 /\ aim'[v] = aim[v]
        BY <3>2, <4>1, <2>2, <1>2
           DEF CancelInvariant, OneCancelGrant, Cancelling
      <4>3. aim[v] \in Orders
        BY <4>1 DEF CancelInvariant, CancelTypeOK, RequestsKnown, Busy
      <4> QED
        BY <4>2, <4>3, <1>3, <1>4 DEF CancelTypeOK
    <3> QED
      BY <3>1, <3>2
  <2>5. \A p \in Orders : cancels'[p] <= 1 /\ (cancel'[p] = "none" => cancels'[p] = 0)
    BY <1>2, <1>3, <1>4, <2>3 DEF CancelInvariant, CancelTypeOK, OneCancelGrant
  <2>6. \A u, v \in Workers :
           at'[u] \in Cancelling /\ at'[v] \in Cancelling /\ aim'[u] = aim'[v]
              => u = v
    BY <1>2, <2>1 DEF CancelInvariant, OneCancelGrant
  <2> QED
    BY <2>4, <2>5, <2>6 DEF OneCancelGrant
<1>8. CommandsAreAboutSubmitted'
  BY <1>2 DEF CancelInvariant, CommandsAreAboutSubmitted
<1>9. QueriesNumbered'
  BY <1>2, <1>3, <1>4 DEF CancelInvariant, CancelTypeOK, QueriesNumbered,
     OneProcess
<1> QED
  BY <1>5, <1>6, <1>7, <1>8, <1>9 DEF CancelInvariant

\* What ends a request, an answer, a refusal, a rollback or a crash, leaves
\* the invariant to the requests that go on.
LEMMA LeaveKeeps ==
    ASSUME CancelInvariant, SubmissionInvariant, NEW w \in Workers, Leave(w),
           Busy(w), UNCHANGED intent, \A v \in Workers : v # w => pc'[v] = pc[v],
           UNCHANGED <<evidence, queryCount, queryAge, cancels>>,
           \/ UNCHANGED cancel
           \/ \E result \in CancelResults :
                 cancel' = [cancel EXCEPT ![aim[w]] = result],
           \/ UNCHANGED answered
           \/ at[w] = "asking" /\ answered' = [answered EXCEPT ![aim[w]] = claim[w]]
    PROVE  CancelInvariant'
<1>1. PICK o \in Orders : o = aim[w]
  BY DEF CancelInvariant, CancelTypeOK, RequestsKnown, Busy
<1>2. /\ at' = [at EXCEPT ![w] = "idle"]
      /\ aim' = [aim EXCEPT ![w] = NoOrder]
      /\ claim' = [claim EXCEPT ![w] = 0]
  BY DEF Leave
<1>3. CancelTypeOK
  BY DEF CancelInvariant
<1>4. cancel[o] # "none" /\ claim[w] \in 0..MaxQueries
      /\ (at[w] = "asking" => claim[w] <= queryCount[o])
  BY <1>1, <1>3 DEF CancelInvariant, CancelTypeOK, RequestsKnown, QueriesNumbered
<1>5. \A p \in Orders : cancel'[p] = "none" <=> cancel[p] = "none"
  BY <1>1, <1>3, <1>4 DEF CancelTypeOK, CancelResults
<1>6. CancelTypeOK'
  <2>1. cancel' \in [Orders -> CancelResults \cup {"none", "prepared"}]
    BY <1>1, <1>3 DEF CancelTypeOK
  <2>2. answered' \in [Orders -> 0..MaxQueries]
    BY <1>1, <1>3, <1>4 DEF CancelTypeOK
  <2>3. 0 \in 0..MaxQueries
    BY MaxQueriesAssumption
  <2> QED
    BY <1>2, <1>3, <2>1, <2>2, <2>3 DEF CancelTypeOK
<1>7. RequestsKnown'
  BY <1>2, <1>3, <1>5 DEF CancelInvariant, CancelTypeOK, RequestsKnown, Busy
<1>8. OneCancelGrant'
  BY <1>2, <1>3, <1>5 DEF CancelInvariant, CancelTypeOK, OneCancelGrant,
     Cancelling
<1>9. CommandsAreAboutSubmitted'
  BY <1>5 DEF CancelInvariant, CommandsAreAboutSubmitted
<1>10. QueriesNumbered'
  <2>1. \A p \in Orders : answered'[p] <= queryCount'[p]
    BY <1>1, <1>3, <1>4 DEF CancelInvariant, CancelTypeOK, QueriesNumbered
  <2> QED
    BY <1>2, <1>3, <2>1 DEF CancelInvariant, CancelTypeOK, QueriesNumbered,
       OneProcess
<1> QED
  BY <1>6, <1>7, <1>8, <1>9, <1>10 DEF CancelInvariant

LEMMA EndingKeeps ==
    ASSUME CancelInvariant, SubmissionInvariant, NEW w \in Workers,
           \/ RefuseCancel(w) \/ AnswerCancelQuery(w)
           \/ \E result \in CancelResults : ConcludeCancel(w, result)
           \/ AbandonCancel(w) \/ RestartCancelling(w)
    PROVE  CancelInvariant'
<1> USE DEF commandVars, queryVars
<1>1. CASE RefuseCancel(w)
  <2>1. Busy(w) /\ Conclude(aim[w], "cancel_rejected")
    BY <1>1 DEF RefuseCancel, Busy
  <2> QED
    BY <1>1, <2>1, LeaveKeeps DEF RefuseCancel, Conclude, CancelResults, vars,
       dbVars, workerVars
<1>2. ASSUME NEW result \in CancelResults, ConcludeCancel(w, result)
      PROVE  CancelInvariant'
  <2>1. Busy(w) /\ Conclude(aim[w], result)
    BY <1>2 DEF ConcludeCancel, Busy
  <2> QED
    BY <1>2, <2>1, LeaveKeeps DEF ConcludeCancel, Conclude, vars, dbVars,
       workerVars
<1>3. CASE AnswerCancelQuery(w)
  <2>1. Busy(w)
    BY <1>3 DEF AnswerCancelQuery, Busy
  <2> QED
    BY <1>3, <2>1, LeaveKeeps DEF AnswerCancelQuery, vars, dbVars, workerVars
<1>4. CASE AbandonCancel(w)
  BY <1>4, LeaveKeeps DEF AbandonCancel, vars, dbVars, workerVars
<1>5. CASE RestartCancelling(w)
  <2>1. UNCHANGED intent /\ \A v \in Workers : v # w => pc'[v] = pc[v]
    BY <1>5 DEF RestartCancelling, Restart, End, Goto, dbVars,
       SubmissionInvariant, TypeOK
  <2> QED
    BY <1>5, <2>1, LeaveKeeps DEF RestartCancelling
<1> QED
  BY <1>1, <1>2, <1>3, <1>4, <1>5

LEMMA CancelInvariantStep ==
    ASSUME CancelInvariant, SubmissionInvariant, [CancelNext]_allVars
    PROVE  CancelInvariant'
<1>0. [Next]_vars
  BY SubmissionStep
<1>1. ASSUME NEW w \in Workers, CancelStep(w) PROVE CancelInvariant'
  BY <1>1, PrepareKeeps, ClaimQueryKeeps, CallKeeps, EndingKeeps DEF CancelStep
<1>2. ASSUME NEW w \in Workers, LoopStep(w) PROVE CancelInvariant'
  <2>1. TypeOK /\ ~Busy(w) /\ \A v \in Workers : v # w => pc'[v] = pc[v]
    BY <1>2, OthersStand DEF LoopStep, SubmissionInvariant
  <2>2. queryAge' \in [Orders -> 0..MinWait]
    BY <1>2 DEF LoopStep, cancelVars, queryVars, CancelInvariant, CancelTypeOK
  <2> QED
    BY <1>0, <1>2, <2>1, <2>2, ForeignStep DEF LoopStep, cancelVars, queryVars
<1>3. CASE EvidenceStep
  <2>1. UNCHANGED pc
    BY <1>3 DEF EvidenceStep, RecordObservation, ClearSubmission, Broker,
       Deliver, Lose, workerVars
  <2>2. queryAge' \in [Orders -> 0..MinWait]
    BY <1>3 DEF EvidenceStep, cancelVars, queryVars, CancelInvariant,
       CancelTypeOK
  <2> QED
    BY <1>0, <1>3, <2>1, <2>2, ForeignStep
       DEF EvidenceStep, cancelVars, queryVars
<1>4. CASE CancelTick
  <2>1. UNCHANGED pc
    BY <1>4 DEF CancelTick, Tick, workerVars
  <2>2. queryAge' \in [Orders -> 0..MinWait]
    BY <1>4, AgesBounded DEF CancelTick, CancelInvariant, CancelTypeOK
  <2> QED
    BY <1>0, <1>4, <2>1, <2>2, ForeignStep DEF CancelTick
<1>5. CASE UNCHANGED allVars
  <2>1. queryAge' \in [Orders -> 0..MinWait]
    BY <1>5 DEF allVars, cancelVars, queryVars, CancelInvariant, CancelTypeOK
  <2> QED
    BY <1>0, <1>5, <2>1, ForeignStep DEF allVars, cancelVars, queryVars, vars,
       workerVars
<1> QED
  BY <1>1, <1>2, <1>3, <1>4, <1>5 DEF CancelNext

\* Submission runs beside cancellation with the invariant it has alone.
LEMMA SubmissionHolds == CancelSpec => []SubmissionInvariant
BY CancellationRefinement, Invariance, PTL DEF ImplementsSubmission

\* Cancel commands, grants and query numbers stay consistent with one another
\* and with the submission rows they are about, through crashes and retries.
THEOREM CancelInvariance == CancelSpec => []CancelInvariant
BY CancelInvariantInit, CancelInvariantStep, SubmissionHolds, PTL DEF CancelSpec

-----------------------------------------------------------------------------
LEMMA GrantsAreExact ==
    ASSUME CancelInvariant, SubmissionInvariant
    PROVE  OneCancelPerLiveOrder
<1> SUFFICES ASSUME NEW o \in Orders, cancels[o] = 1
             PROVE  broker[o] = "accepted" /\ calls[o] = 1
  BY DEF OneCancelPerLiveOrder, CancelInvariant, OneCancelGrant
<1>1. cancel[o] # "none"
  BY DEF CancelInvariant, OneCancelGrant
<1> QED
  BY <1>1 DEF CancelInvariant, CommandsAreAboutSubmitted, SubmissionInvariant,
     RecordedIsReal

\* One cancel call per order over every retry, race and crash, and only for
\* an order that was called once and that the broker has.
THEOREM OneCancel == CancelSpec => []OneCancelPerLiveOrder
BY CancelInvariance, SubmissionHolds, GrantsAreExact, PTL

LEMMA AnswersAdvance ==
    ASSUME CancelInvariant, [CancelNext]_allVars, OneProcess, NEW o \in Orders
    PROVE  answered'[o] >= answered[o]
<1>0. answered[o] \in 0..MaxQueries
  BY DEF CancelInvariant, CancelTypeOK
<1>1. ASSUME NEW w \in Workers, AnswerCancelQuery(w)
      PROVE  answered'[o] >= answered[o]
  <2>1. PICK p \in Orders : p = aim[w]
    BY <1>1 DEF AnswerCancelQuery, CancelInvariant, CancelTypeOK, RequestsKnown,
       Busy
  <2>2. claim[w] = queryCount[p] /\ answered[p] <= queryCount[p]
    BY <1>1, <2>1 DEF AnswerCancelQuery, CancelInvariant, QueriesNumbered
  <2>3. queryCount[p] \in 0..MaxQueries /\ answered[p] \in 0..MaxQueries
    BY DEF CancelInvariant, CancelTypeOK
  <2>4. answered' = [answered EXCEPT ![p] = queryCount[p]]
    BY <1>1, <2>1, <2>2 DEF AnswerCancelQuery
  <2> QED
    BY <1>0, <2>2, <2>3, <2>4 DEF CancelInvariant, CancelTypeOK
<1>2. ASSUME UNCHANGED answered PROVE answered'[o] >= answered[o]
  BY <1>0, <1>2
<1>3. \/ \E w \in Workers : AnswerCancelQuery(w)
      \/ UNCHANGED answered
  BY DEF CancelNext, CancelStep, LoopStep, EvidenceStep, CancelTick,
     PrepareCancel, CheckCancel, RefuseCancel, CallCancel, ConcludeCancel,
     ClaimCancelQuery, AbandonCancel, RestartCancelling, allVars, cancelVars,
     queryVars
<1> QED
  BY <1>1, <1>2, <1>3

\* With one API process the stored answer of a command is never replaced by
\* that of an earlier query.
THEOREM NewestAnswer == CancelSpec => NewestQueryKept
<1>1. CancelInvariant /\ [CancelNext]_allVars
         => [OneProcess => \A o \in Orders : answered'[o] >= answered[o]]_allVars
  BY AnswersAdvance
<1> QED
  BY <1>1, CancelInvariance, PTL DEF CancelSpec, NewestQueryKept
=============================================================================
