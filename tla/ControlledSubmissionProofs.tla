--------------------- MODULE ControlledSubmissionProofs ---------------------
(***************************************************************************)
(* Proofs about ControlledSubmission, for any number of orders, workers,   *)
(* ticks and lifecycle observations.                                       *)
(***************************************************************************)
EXTENDS ControlledSubmission, TLAPS

-----------------------------------------------------------------------------
(***************************************************************************)
(* Types.                                                                  *)
(***************************************************************************)
LEMMA AgeRange == 0 \in 0..MinWait /\ MinWait \in 0..MinWait
BY MinWaitAssumption

LEMMA AgesBounded ==
    ASSUME NEW age \in [Orders -> 0..MinWait]
    PROVE  Older(age) \in [Orders -> 0..MinWait]
BY MinWaitAssumption DEF Older

LEMMA TypeInit == Init => TypeOK
<1> SUFFICES ASSUME Init PROVE TypeOK
  OBVIOUS
<1>1. killSwitch \in BOOLEAN /\ killSeen \in [Workers -> BOOLEAN]
  BY DEF Init
<1>2. /\ clearedObs \in [Orders -> 0..MaxObs]
      /\ obs \in [Orders -> 0..MaxObs]
  BY MaxObsAssumption DEF Init
<1>3. /\ sincePrepared \in [Orders -> 0..MinWait]
      /\ sinceQuery \in [Orders -> 0..MinWait]
      /\ sinceAdmitted \in [Orders -> 0..MinWait]
  BY AgeRange DEF Init
<1> QED
  BY <1>1, <1>2, <1>3 DEF Init, TypeOK, IntentStatuses, OmsStatuses,
     TerminalOutcomes, LifecycleOutcomes, Results, Submitting, Recovering, Steps

LEMMA PersistTypes ==
    ASSUME TypeOK, NEW o \in Orders, NEW r \in Results,
           NEW age \in 0..MinWait, Persist(o, r, age)
    PROVE  /\ intent' \in [Orders -> IntentStatuses]
           /\ oms' \in [Orders -> OmsStatuses]
           /\ sinceQuery' \in [Orders -> 0..MinWait]
BY DEF TypeOK, Persist, IntentStatuses, OmsStatuses, Results

LEMMA EndTypes ==
    ASSUME TypeOK, NEW w \in Workers, End(w)
    PROVE  /\ pc' \in [Workers -> Steps]
           /\ ord' \in [Workers -> Orders \cup {NoOrder}]
           /\ res' \in [Workers -> Results \cup {"none"}]
BY DEF TypeOK, End, Goto, Steps

\* What a handler writes stays a status, an age or a step.
LEMMA SubmitTypes ==
    ASSUME TypeOK, HoldersKnown, NEW w \in Workers, SubmitStep(w)
    PROVE  TypeOK'
<1> USE AgeRange
    DEF TypeOK, dbVars, settleVars, killVars, timeVars, brokerVars, workerVars,
        historyVars, IntentStatuses, OmsStatuses, TerminalOutcomes,
        LifecycleOutcomes, Results, Submitting, Recovering, Steps
<1>1. ASSUME NEW o \in Orders, Review(w, o) PROVE TypeOK'
  BY <1>1 DEF Review, Begin, Goto
<1>2. CASE Prepare(w)
  <2>1. ord[w] \in Orders
    BY <1>2 DEF Prepare, HoldersKnown
  <2>2. intent' \in [Orders -> IntentStatuses] /\ oms' \in [Orders -> OmsStatuses]
    BY <1>2, <2>1 DEF Prepare
  <2>3. intentId' \in [Orders -> Nat] /\ nextId' \in Nat
    BY <1>2, <2>1 DEF Prepare
  <2>4. sincePrepared' \in [Orders -> 0..MinWait]
    BY <1>2, <2>1 DEF Prepare
  <2>5. sinceQuery' \in [Orders -> 0..MinWait]
    BY <1>2, <2>1 DEF Prepare
  <2>6. pc' \in [Workers -> Steps]
    BY <1>2 DEF Prepare, Goto
  <2> QED
    BY <1>2, <2>2, <2>3, <2>4, <2>5, <2>6 DEF Prepare
<1>3. CASE PrepareRefused(w)
  BY <1>3 DEF PrepareRefused, End, Goto
<1>4. CASE PreCallCheck(w)
  BY <1>4 DEF PreCallCheck, Hold, Goto
<1>5. CASE Call(w)
  <2>1. ord[w] \in Orders
    BY <1>5 DEF Call, HoldersKnown
  <2>2. calls' \in [Orders -> Nat] /\ wire' \subseteq Orders
    BY <1>5, <2>1 DEF Call
  <2>3. killCalls' \in 0..2
    BY <1>5 DEF Call
  <2>4. pc' \in [Workers -> Steps]
    BY <1>5 DEF Call, Goto
  <2> QED
    BY <1>5, <2>2, <2>3, <2>4 DEF Call
<1>6. CASE GatewayMissing(w)
  BY <1>6 DEF GatewayMissing, Hold, Goto
<1>7. ASSUME NEW r \in Results, Reply(w, r) PROVE TypeOK'
  BY <1>7 DEF Reply, Hold, Goto
<1>8. CASE Finalize(w)
  <2>1. res[w] \in Results /\ ord[w] \in Orders
    BY <1>8 DEF Finalize, HoldersKnown
  <2>2. Persist(ord[w], res[w], MinWait) /\ End(w)
    BY <1>8 DEF Finalize
  <2> QED
    BY <1>8, <2>1, <2>2, PersistTypes, EndTypes DEF Finalize
<1> QED
  BY <1>1, <1>2, <1>3, <1>4, <1>5, <1>6, <1>7, <1>8 DEF SubmitStep

LEMMA RecoverTypes ==
    ASSUME TypeOK, HoldersKnown, NEW w \in Workers, RecoverStep(w)
    PROVE  TypeOK'
<1> USE AgeRange
    DEF TypeOK, dbVars, settleVars, killVars, timeVars, brokerVars, workerVars,
        historyVars, IntentStatuses, OmsStatuses, TerminalOutcomes,
        LifecycleOutcomes, Results, Submitting, Recovering, Steps
<1>1. ASSUME NEW o \in Orders, Claim(w, o) PROVE TypeOK'
  <2>1. sinceQuery' \in [Orders -> 0..MinWait]
    BY <1>1 DEF Claim
  <2>2. sinceAdmitted' \in [Orders -> 0..MinWait]
    BY <1>1 DEF Claim
  <2>3. /\ pc' \in [Workers -> Steps]
        /\ ord' \in [Workers -> Orders \cup {NoOrder}]
    BY <1>1 DEF Claim, Begin, Goto
  <2> QED
    BY <1>1, <2>1, <2>2, <2>3 DEF Claim, Begin
<1>2. ASSUME NEW r \in Results, Query(w, r) PROVE TypeOK'
  BY <1>2 DEF Query, Hold, Goto
<1>3. CASE FinalizeRecovered(w)
  <2>1. res[w] \in Results /\ ord[w] \in Orders
    BY <1>3 DEF FinalizeRecovered, HoldersKnown
  <2>2. Persist(ord[w], res[w], 0) /\ End(w)
    BY <1>3 DEF FinalizeRecovered
  <2> QED
    BY <1>3, <2>1, <2>2, PersistTypes, EndTypes DEF FinalizeRecovered
<1> QED
  BY <1>1, <1>2, <1>3 DEF RecoverStep

LEMMA EnvironmentTypes ==
    ASSUME TypeOK, OtherWriters \/ Broker \/ Tick
    PROVE  TypeOK'
<1> USE DEF TypeOK, dbVars, settleVars, killVars, timeVars, brokerVars, workerVars,
        historyVars
<1>1. ASSUME NEW w \in Workers, NEW o \in Orders, CreateManualTicket(w, o)
      PROVE  TypeOK'
  BY <1>1 DEF CreateManualTicket, OmsStatuses
<1>2. ASSUME NEW o \in Orders, NEW t \in LifecycleOutcomes,
             RecordObservation(o, t)
      PROVE  TypeOK'
  <2>1. obs' \in [Orders -> 0..MaxObs]
    BY <1>2, MaxObsAssumption DEF RecordObservation
  <2>2. latest' \in [Orders -> LifecycleOutcomes \cup {"none"}]
    BY <1>2 DEF RecordObservation
  <2> QED
    BY <1>2, <2>1, <2>2 DEF RecordObservation
<1>3. ASSUME NEW o \in Orders, NEW t \in TerminalOutcomes,
             ClearSubmission(o, t)
      PROVE  TypeOK'
  <2>1. oms' \in [Orders -> OmsStatuses]
    BY <1>3 DEF ClearSubmission, OmsStatuses, TerminalOutcomes
  <2>2. clearance' \in [Orders -> TerminalOutcomes \cup {"none"}]
    BY <1>3 DEF ClearSubmission
  <2>3. clearedObs' \in [Orders -> 0..MaxObs]
    BY <1>3 DEF ClearSubmission
  <2> QED
    BY <1>3, <2>1, <2>2, <2>3 DEF ClearSubmission
<1>4. ASSUME NEW w \in Workers, NEW e \in BOOLEAN, SetKillSwitch(w, e)
      PROVE  TypeOK'
  <2>1. killSwitch' \in BOOLEAN /\ killSeen' \in [Workers -> BOOLEAN]
    BY <1>4 DEF SetKillSwitch
  <2>2. killCalls' \in 0..2
    BY <1>4 DEF SetKillSwitch
  <2> QED
    BY <1>4, <2>1, <2>2 DEF SetKillSwitch
<1>5. ASSUME NEW o \in Orders, NEW v \in {"accepted", "refused"}, Deliver(o, v)
      PROVE  TypeOK'
  BY <1>5 DEF Deliver
<1>6. ASSUME NEW o \in Orders, Lose(o) PROVE TypeOK'
  BY <1>6 DEF Lose
<1>7. CASE Tick
  BY <1>7, AgesBounded DEF Tick
<1> QED
  BY <1>1, <1>2, <1>3, <1>4, <1>5, <1>6, <1>7 DEF OtherWriters, Broker

LEMMA TypeStep ==
    ASSUME TypeOK, HoldersKnown, [Next]_vars
    PROVE  TypeOK'
<1>1. ASSUME NEW w \in Workers, Abandon(w) PROVE TypeOK'
  BY <1>1, EndTypes DEF Abandon, TypeOK, dbVars, settleVars, killVars,
     timeVars, brokerVars, historyVars
<1>2. ASSUME NEW w \in Workers, Restart(w) PROVE TypeOK'
  <2>1. killSeen' \in [Workers -> BOOLEAN]
    BY <1>2 DEF Restart, TypeOK
  <2> QED
    BY <1>2, <2>1, EndTypes DEF Restart, TypeOK, dbVars, settleVars, timeVars,
       brokerVars, historyVars
<1>3. CASE UNCHANGED vars
  BY <1>3 DEF TypeOK, vars, dbVars, settleVars, killVars, timeVars, brokerVars,
     workerVars, historyVars
<1> QED
  BY <1>1, <1>2, <1>3, SubmitTypes, RecoverTypes, EnvironmentTypes DEF Next

-----------------------------------------------------------------------------
(***************************************************************************)
(* The invariant.  TypeStep gives its types; the lemmas below give the     *)
(* rest, one action each, for the parts that the action can disturb.       *)
(***************************************************************************)
Handlers == HoldersKnown /\ OneGrant /\ CallsGranted /\ ResultsAreReal
Rows == OnlySubmittedIsCleared /\ RowsAgree /\ OneUnsettledSubmission
Reality == BrokerFollowsCalls /\ RecordedIsReal

LEMMA Parts ==
    SubmissionInvariant <=> TypeOK /\ Handlers /\ Rows /\ Reality
BY DEF SubmissionInvariant, Handlers, Rows, Reality

LEMMA InvariantInit == Init => SubmissionInvariant
<1> SUFFICES ASSUME Init PROVE SubmissionInvariant
  OBVIOUS
<1>1. Handlers
  BY NoOrderAssumption DEF Init, Handlers, HoldersKnown, OneGrant,
     CallsGranted, ResultsAreReal, Submitting, Recovering
<1>2. Rows
  BY DEF Init, Rows, OnlySubmittedIsCleared, RowsAgree,
     OneUnsettledSubmission, Unresolved
<1>3. Reality
  BY DEF Init, Reality, BrokerFollowsCalls, RecordedIsReal
<1> QED
  BY <1>1, <1>2, <1>3, TypeInit, Parts

\* Steps that only move their own worker: no row, no call and no broker.
Quiet(w) ==
    /\ UNCHANGED <<intent, oms, clearance, broker, wire, calls>>
    /\ \A v \in Workers \ {w} :
          pc'[v] = pc[v] /\ ord'[v] = ord[v] /\ res'[v] = res[v]

LEMMA QuietRows ==
    ASSUME Rows, Reality, NEW w \in Workers, Quiet(w)
    PROVE  Rows' /\ Reality'
BY DEF Quiet, Rows, Reality, OnlySubmittedIsCleared, RowsAgree,
   OneUnsettledSubmission, Unresolved, BrokerFollowsCalls, RecordedIsReal

LEMMA EndKeepsHandlers ==
    ASSUME TypeOK, Handlers, NEW w \in Workers, End(w), Quiet(w)
    PROVE  Handlers'
BY NoOrderAssumption DEF TypeOK, Handlers, HoldersKnown, OneGrant,
   CallsGranted, ResultsAreReal, Submitting, Recovering, Quiet, End, Goto

LEMMA ReviewStep ==
    ASSUME TypeOK, Handlers, NEW w \in Workers, NEW o \in Orders, Review(w, o)
    PROVE  Handlers' /\ Quiet(w)
BY NoOrderAssumption DEF TypeOK, Handlers, HoldersKnown, OneGrant,
   CallsGranted, ResultsAreReal, Submitting, Recovering, Quiet, Review, Begin,
   Goto, dbVars, settleVars, brokerVars, historyVars

\* A worker that already holds the grant goes on, with or without a result.
LEMMA HoldKeepsHandlers ==
    ASSUME TypeOK, Handlers, NEW w \in Workers, NEW r \in Results,
           NEW step \in {"finalizing", "queried"},
           Hold(w, r, step), Quiet(w),
           \/ pc[w] \in Submitting /\ step = "finalizing"
           \/ pc[w] = "claimed" /\ step = "queried",
           r = "submitted" => broker[ord[w]] = "accepted"
    PROVE  Handlers'
BY NoOrderAssumption DEF TypeOK, Handlers, HoldersKnown, OneGrant,
   CallsGranted, ResultsAreReal, Submitting, Recovering, Quiet, Hold, Goto,
   Results

\* The grant is new: nobody holds one for an order without an intent, and the
\* interlock leaves no other order unresolved.
LEMMA PrepareStep ==
    ASSUME TypeOK, Handlers, Rows, Reality, NEW w \in Workers, Prepare(w)
    PROVE  Handlers' /\ Rows' /\ Reality'
<1> DEFINE o == ord[w]
<1>1. /\ o \in Orders /\ intent[o] = "none" /\ calls[o] = 0
      /\ clearance[o] = "none"
  BY DEF Prepare, MayPrepare, TypeOK, Handlers, HoldersKnown, CallsGranted,
     Rows, OnlySubmittedIsCleared
<1>2. /\ intent' = [intent EXCEPT ![o] = "prepared"]
      /\ oms' = [oms EXCEPT ![o] = "submission_pending"]
      /\ pc' = [pc EXCEPT ![w] = "prepared"]
      /\ pc[w] = "reviewed"
      /\ UNCHANGED <<ord, res, clearance, broker, wire, calls>>
  BY DEF Prepare, Goto, settleVars, brokerVars, historyVars
<1>3. \A p \in Orders \ {o} : ~Unresolved(p)
  BY DEF Prepare, MayPrepare, PrepareInterlock
<1> HIDE DEF o
<1>4. Handlers'
  <2> USE DEF TypeOK, Submitting, Recovering
  <2>1. HoldersKnown'
    BY <1>1, <1>2 DEF Handlers, HoldersKnown, o
  <2>2. OneGrant'
    BY <1>1, <1>2 DEF Handlers, HoldersKnown, OneGrant, o
  <2>3. CallsGranted'
    BY <1>1, <1>2 DEF Handlers, CallsGranted, o
  <2>4. ResultsAreReal'
    BY <1>1, <1>2 DEF Handlers, ResultsAreReal
  <2> QED
    BY <2>1, <2>2, <2>3, <2>4 DEF Handlers
<1>5. Rows'
  <2>1. OnlySubmittedIsCleared'
    BY <1>1, <1>2 DEF TypeOK, Rows, OnlySubmittedIsCleared
  <2>2. RowsAgree'
    BY <1>1, <1>2 DEF TypeOK, Rows, RowsAgree
  <2>3. OneUnsettledSubmission'
    BY <1>1, <1>2, <1>3 DEF TypeOK, OneUnsettledSubmission, Unresolved
  <2> QED
    BY <2>1, <2>2, <2>3 DEF Rows
<1>6. Reality'
  BY <1>1, <1>2 DEF TypeOK, Reality, BrokerFollowsCalls, RecordedIsReal
<1> QED
  BY <1>4, <1>5, <1>6

\* The one call: its order has made none, so the broker has not seen it.
LEMMA CallStep ==
    ASSUME TypeOK, Handlers, Rows, Reality, NEW w \in Workers, Call(w)
    PROVE  Handlers' /\ Rows' /\ Reality'
<1> DEFINE o == ord[w]
<1>1. /\ o \in Orders /\ intent[o] # "none" /\ calls[o] = 0
      /\ broker[o] = "unseen" /\ intent[o] # "submitted"
  BY DEF Call, TypeOK, Handlers, HoldersKnown, CallsGranted, Submitting,
     Reality, BrokerFollowsCalls, RecordedIsReal
<1>2. /\ calls' = [calls EXCEPT ![o] = 1]
      /\ wire' = wire \cup {o}
      /\ pc' = [pc EXCEPT ![w] = "calling"]
      /\ pc[w] = "checked"
      /\ UNCHANGED <<intent, oms, clearance, broker, ord, res>>
  BY <1>1 DEF Call, Goto, TypeOK, dbVars, settleVars
<1>3. \A v \in Workers \ {w} : pc[v] \in Submitting => ord[v] # o
  BY <1>2 DEF Handlers, OneGrant, Submitting
<1> HIDE DEF o
<1>4. Handlers'
  <2> USE DEF TypeOK, Submitting, Recovering
  <2>1. HoldersKnown'
    BY <1>1, <1>2 DEF Handlers, HoldersKnown
  <2>2. OneGrant'
    BY <1>1, <1>2 DEF Handlers, OneGrant
  <2>3. CallsGranted'
    BY <1>1, <1>2, <1>3 DEF Handlers, CallsGranted, o
  <2>4. ResultsAreReal'
    BY <1>1, <1>2 DEF Handlers, ResultsAreReal
  <2> QED
    BY <2>1, <2>2, <2>3, <2>4 DEF Handlers
<1>5. Rows'
  BY <1>2 DEF Rows, OnlySubmittedIsCleared, RowsAgree,
     OneUnsettledSubmission, Unresolved
<1>6. Reality'
  BY <1>1, <1>2 DEF TypeOK, Reality, BrokerFollowsCalls, RecordedIsReal
<1> QED
  BY <1>4, <1>5, <1>6

\* The finalize transaction, whoever runs it: the rows move together, and
\* only an unfinished intent moves.
LEMMA PersistStep ==
    ASSUME TypeOK, Handlers, Rows, Reality, NEW w \in Workers, NEW age,
           pc[w] \in {"finalizing", "queried"},
           Persist(ord[w], res[w], age), End(w),
           UNCHANGED <<clearance, broker, wire, calls>>
    PROVE  Handlers' /\ Rows' /\ Reality'
<1> DEFINE o == ord[w]
           r == res[w]
<1>1. /\ o \in Orders /\ r \in Results /\ intent[o] # "none"
      /\ r = "submitted" => broker[o] = "accepted"
  BY DEF TypeOK, Handlers, HoldersKnown, ResultsAreReal, Submitting, Recovering
<1>2. /\ pc' = [pc EXCEPT ![w] = "idle"]
      /\ ord' = [ord EXCEPT ![w] = NoOrder]
      /\ res' = [res EXCEPT ![w] = "none"]
  BY DEF End, Goto
<1>3. \/ UNCHANGED <<intent, oms>>
      \/ /\ intent[o] \in {"prepared", "submission_unknown"}
         /\ intent' = [intent EXCEPT ![o] = r]
         /\ oms' = [oms EXCEPT ![o] = r]
  BY DEF Persist, Unfinished
<1> HIDE DEF o, r
<1>4. Handlers'
  <2> USE NoOrderAssumption DEF TypeOK, Submitting, Recovering, Results
  <2>1. HoldersKnown'
    BY <1>1, <1>2, <1>3 DEF Handlers, HoldersKnown
  <2>2. OneGrant'
    BY <1>2 DEF Handlers, OneGrant
  <2>3. CallsGranted'
    BY <1>1, <1>2, <1>3 DEF Handlers, CallsGranted
  <2>4. ResultsAreReal'
    BY <1>2 DEF Handlers, ResultsAreReal
  <2> QED
    BY <2>1, <2>2, <2>3, <2>4 DEF Handlers
<1>5. Rows'
  <2> USE DEF TypeOK, Results
  <2>1. OnlySubmittedIsCleared'
    BY <1>1, <1>3 DEF Rows, OnlySubmittedIsCleared
  <2>2. RowsAgree'
    BY <1>1, <1>3 DEF Rows, RowsAgree, OnlySubmittedIsCleared
  <2>3. OneUnsettledSubmission'
    BY <1>1, <1>3 DEF Rows, OneUnsettledSubmission, Unresolved
  <2> QED
    BY <2>1, <2>2, <2>3 DEF Rows
<1>6. Reality'
  <2>1. BrokerFollowsCalls'
    BY DEF Reality, BrokerFollowsCalls
  <2>2. broker[o] = "accepted" => calls[o] = 1
    BY <1>1 DEF TypeOK, Reality, BrokerFollowsCalls, Handlers, CallsGranted
  <2>3. RecordedIsReal'
    BY <1>1, <1>3, <2>2 DEF TypeOK, Results, Reality, RecordedIsReal
  <2> QED
    BY <2>1, <2>3 DEF Reality
<1> QED
  BY <1>4, <1>5, <1>6

LEMMA ClaimStep ==
    ASSUME TypeOK, Handlers, NEW w \in Workers, NEW o \in Orders, Claim(w, o)
    PROVE  Handlers' /\ Quiet(w)
BY NoOrderAssumption DEF TypeOK, Handlers, HoldersKnown, OneGrant,
   CallsGranted, ResultsAreReal, Submitting, Recovering, Quiet, Claim, Begin,
   Goto, dbVars, settleVars, brokerVars

\* Going from the grant to the checks changes nobody's claim to it.
LEMMA CheckedStep ==
    ASSUME TypeOK, Handlers, NEW w \in Workers, pc[w] = "prepared",
           Goto(w, "checked"), Quiet(w), UNCHANGED <<ord, res>>
    PROVE  Handlers'
BY DEF TypeOK, Handlers, HoldersKnown, OneGrant, CallsGranted, ResultsAreReal,
   Submitting, Recovering, Quiet, Goto

LEMMA SubmitKeepsInvariant ==
    ASSUME TypeOK, Handlers, Rows, Reality, NEW w \in Workers, SubmitStep(w)
    PROVE  Handlers' /\ Rows' /\ Reality'
<1> USE DEF dbVars, settleVars, brokerVars, historyVars
<1>1. ASSUME NEW o \in Orders, Review(w, o) PROVE Handlers' /\ Rows' /\ Reality'
  BY <1>1, ReviewStep, QuietRows
<1>2. CASE PrepareRefused(w)
  <2>1. Quiet(w) /\ End(w)
    BY <1>2 DEF PrepareRefused, Quiet, End, Goto, TypeOK
  <2> QED
    BY <2>1, EndKeepsHandlers, QuietRows
<1>3. CASE PreCallCheck(w)
  <2>1. Quiet(w)
    BY <1>3 DEF PreCallCheck, Quiet, Hold, Goto, TypeOK
  <2>2. CASE Goto(w, "checked") /\ UNCHANGED <<ord, res>>
    BY <1>3, <2>1, <2>2, CheckedStep, QuietRows DEF PreCallCheck
  <2>3. CASE Hold(w, "rejected", "finalizing")
    BY <1>3, <2>1, <2>3, HoldKeepsHandlers, QuietRows
       DEF PreCallCheck, Submitting, Results
  <2> QED
    BY <1>3, <2>2, <2>3 DEF PreCallCheck
<1>4. CASE GatewayMissing(w)
  <2>1. Quiet(w)
    BY <1>4 DEF GatewayMissing, Quiet, Hold, Goto, TypeOK
  <2> QED
    BY <1>4, <2>1, HoldKeepsHandlers, QuietRows
       DEF GatewayMissing, Submitting, Results
<1>5. ASSUME NEW r \in Results, Reply(w, r)
      PROVE  Handlers' /\ Rows' /\ Reality'
  <2>1. Quiet(w)
    BY <1>5 DEF Reply, Quiet, Hold, Goto, TypeOK
  <2>2. r = "submitted" => broker[ord[w]] = "accepted"
    BY <1>5 DEF Reply, Answer
  <2> QED
    BY <1>5, <2>1, <2>2, HoldKeepsHandlers, QuietRows DEF Reply, Submitting
<1>6. CASE Finalize(w)
  BY <1>6, PersistStep DEF Finalize
<1> QED
  BY <1>1, <1>2, <1>3, <1>4, <1>5, <1>6, PrepareStep, CallStep DEF SubmitStep

LEMMA RecoverKeepsInvariant ==
    ASSUME TypeOK, Handlers, Rows, Reality, NEW w \in Workers, RecoverStep(w)
    PROVE  Handlers' /\ Rows' /\ Reality'
<1> USE DEF dbVars, settleVars, brokerVars, historyVars
<1>1. ASSUME NEW o \in Orders, Claim(w, o) PROVE Handlers' /\ Rows' /\ Reality'
  BY <1>1, ClaimStep, QuietRows
<1>2. ASSUME NEW r \in Results, Query(w, r)
      PROVE  Handlers' /\ Rows' /\ Reality'
  <2>1. Quiet(w)
    BY <1>2 DEF Query, Quiet, Hold, Goto, TypeOK
  <2>2. r = "submitted" => broker[ord[w]] = "accepted"
    BY <1>2 DEF Query, Answer
  <2> QED
    BY <1>2, <2>1, <2>2, HoldKeepsHandlers, QuietRows DEF Query
<1>3. CASE FinalizeRecovered(w)
  BY <1>3, PersistStep DEF FinalizeRecovered
<1> QED
  BY <1>1, <1>2, <1>3 DEF RecoverStep

LEMMA FrameKeepsInvariant ==
    ASSUME Handlers, Rows, Reality,
           UNCHANGED <<intent, oms, clearance, broker, wire, calls>>,
           UNCHANGED <<pc, ord, res>>
    PROVE  Handlers' /\ Rows' /\ Reality'
<1>1. Handlers'
  BY DEF Handlers, HoldersKnown, OneGrant, CallsGranted, ResultsAreReal
<1>2. Rows'
  BY DEF Rows, OnlySubmittedIsCleared, RowsAgree, OneUnsettledSubmission,
     Unresolved
<1>3. Reality'
  BY DEF Reality, BrokerFollowsCalls, RecordedIsReal
<1> QED
  BY <1>1, <1>2, <1>3

\* The other writers, the broker and the clock never touch a handler, and
\* what the broker does with an order, it does once.
LEMMA EnvironmentKeepsInvariant ==
    ASSUME TypeOK, Handlers, Rows, Reality, OtherWriters \/ Broker \/ Tick
    PROVE  Handlers' /\ Rows' /\ Reality'
<1> USE DEF dbVars, settleVars, brokerVars, workerVars, historyVars
<1>1. ASSUME NEW w \in Workers, NEW o \in Orders, CreateManualTicket(w, o)
      PROVE  Handlers' /\ Rows' /\ Reality'
  <2>1. Handlers'
    BY <1>1 DEF CreateManualTicket, Handlers, HoldersKnown, OneGrant,
       CallsGranted, ResultsAreReal
  <2>2. RowsAgree'
    BY <1>1 DEF CreateManualTicket, TypeOK, Rows, RowsAgree,
       OnlySubmittedIsCleared, IntentStatuses, TerminalOutcomes
  <2>3. Rows' /\ Reality'
    BY <1>1, <2>2 DEF CreateManualTicket, Rows, Reality,
       OnlySubmittedIsCleared, OneUnsettledSubmission, Unresolved,
       BrokerFollowsCalls, RecordedIsReal
  <2> QED
    BY <2>1, <2>3
<1>2. ASSUME NEW o \in Orders, NEW t \in LifecycleOutcomes,
             RecordObservation(o, t)
      PROVE  Handlers' /\ Rows' /\ Reality'
  BY <1>2 DEF RecordObservation, Handlers, HoldersKnown, OneGrant,
     CallsGranted, ResultsAreReal, Rows, Reality, OnlySubmittedIsCleared,
     RowsAgree, OneUnsettledSubmission, Unresolved, BrokerFollowsCalls,
     RecordedIsReal
<1>3. ASSUME NEW o \in Orders, NEW t \in TerminalOutcomes,
             ClearSubmission(o, t)
      PROVE  Handlers' /\ Rows' /\ Reality'
  <2>1. Handlers' /\ Reality'
    BY <1>3 DEF ClearSubmission, Handlers, HoldersKnown, OneGrant,
       CallsGranted, ResultsAreReal, Reality, BrokerFollowsCalls,
       RecordedIsReal
  <2>2. RowsAgree'
    BY <1>3 DEF ClearSubmission, TypeOK, Rows, RowsAgree, TerminalOutcomes
  <2>3. Rows'
    BY <1>3, <2>2 DEF ClearSubmission, TypeOK, Rows, OnlySubmittedIsCleared,
       OneUnsettledSubmission, Unresolved, TerminalOutcomes
  <2> QED
    BY <2>1, <2>3
<1>4. CASE \/ \E w \in Workers, e \in BOOLEAN : SetKillSwitch(w, e)
           \/ Tick
  BY <1>4, FrameKeepsInvariant DEF SetKillSwitch, Tick
<1>5. ASSUME NEW o \in Orders,
             Lose(o) \/ \E v \in {"accepted", "refused"} : Deliver(o, v)
      PROVE  Handlers' /\ Rows' /\ Reality'
  <2>1. broker[o] = "unseen" /\ wire' = wire \ {o}
    BY <1>5 DEF Lose, Deliver, Reality, BrokerFollowsCalls
  <2>2. \A p \in Orders : broker[p] # "unseen" => broker'[p] = broker[p]
    BY <1>5, <2>1 DEF Lose, Deliver, TypeOK
  <2>3. Handlers'
    <3>1. HoldersKnown' /\ OneGrant' /\ CallsGranted'
      BY <1>5 DEF Lose, Deliver, Handlers, HoldersKnown, OneGrant, CallsGranted
    <3>2. ResultsAreReal'
      BY <1>5, <2>2 DEF Lose, Deliver, TypeOK, Handlers, HoldersKnown,
         ResultsAreReal
    <3> QED
      BY <3>1, <3>2 DEF Handlers
  <2>4. Rows'
    BY <1>5 DEF Lose, Deliver, Rows, OnlySubmittedIsCleared, RowsAgree,
       OneUnsettledSubmission, Unresolved
  <2>5. Reality'
    BY <1>5, <2>1, <2>2 DEF Lose, Deliver, TypeOK, Reality,
       BrokerFollowsCalls, RecordedIsReal
  <2> QED
    BY <2>3, <2>4, <2>5
<1> QED
  BY <1>1, <1>2, <1>3, <1>4, <1>5 DEF OtherWriters, Broker

LEMMA InvariantStep ==
    ASSUME SubmissionInvariant, [Next]_vars
    PROVE  SubmissionInvariant'
<1>1. TypeOK /\ Handlers /\ Rows /\ Reality
  BY Parts
<1>2. ASSUME NEW w \in Workers, Abandon(w) \/ Restart(w)
      PROVE  Handlers' /\ Rows' /\ Reality'
  <2>1. Quiet(w) /\ End(w)
    BY <1>1, <1>2 DEF Abandon, Restart, Quiet, End, Goto, TypeOK, dbVars, settleVars,
       brokerVars, historyVars
  <2> QED
    BY <1>1, <2>1, EndKeepsHandlers, QuietRows
<1>3. ASSUME UNCHANGED vars PROVE Handlers' /\ Rows' /\ Reality'
  <2>1. /\ UNCHANGED <<intent, oms, clearance, broker, wire, calls>>
        /\ UNCHANGED <<pc, ord, res>>
    BY <1>3 DEF vars, dbVars, settleVars, brokerVars, workerVars, historyVars
  <2> QED
    BY <1>1, <2>1, FrameKeepsInvariant
<1>4. Handlers' /\ Rows' /\ Reality'
  <2>1. CASE \E w \in Workers : SubmitStep(w)
    BY <1>1, <2>1, SubmitKeepsInvariant
  <2>2. CASE \E w \in Workers : RecoverStep(w)
    BY <1>1, <2>2, RecoverKeepsInvariant
  <2>3. CASE OtherWriters \/ Broker \/ Tick
    BY <1>1, <2>3, EnvironmentKeepsInvariant
  <2>4. CASE \E w \in Workers : Abandon(w) \/ Restart(w)
    BY <1>2, <2>4
  <2>5. CASE UNCHANGED vars
    BY <1>3, <2>5
  <2> QED
    BY <2>1, <2>2, <2>3, <2>4, <2>5 DEF Next
<1>5. TypeOK'
  BY <1>1, TypeStep DEF Handlers
<1> QED
  BY <1>4, <1>5 DEF SubmissionInvariant, Handlers, Rows, Reality

-----------------------------------------------------------------------------
(***************************************************************************)
(* Theorems.                                                               *)
(***************************************************************************)
\* No interleaving of submits, recoveries, crashes, late answers, clearances
\* and observations leads out of the invariant.
THEOREM Invariance == Spec => []SubmissionInvariant
BY InvariantInit, InvariantStep, PTL DEF Spec

\* Handlers and transactions only ever store statuses, ids and ages.
THEOREM TypeCorrectness == Spec => []TypeOK
BY Invariance, PTL DEF SubmissionInvariant

\* An order leaves once and on one route: a manual ticket needs an order
\* without an intent, and an order without an intent was never called.
THEOREM OneRoute == Spec => []OneRoutePerOrder
<1>1. ASSUME SubmissionInvariant, NEW o \in Orders,
             oms[o] = "manual_ticket_created"
      PROVE  intent[o] = "none"
  BY <1>1 DEF SubmissionInvariant, RowsAgree, TypeOK, IntentStatuses,
     TerminalOutcomes
<1>2. SubmissionInvariant => OneRoutePerOrder
  BY <1>1 DEF SubmissionInvariant, CallsGranted, OneRoutePerOrder
<1> QED
  BY <1>2, Invariance, PTL

\* Intent, OMS and clearance rows agree after every transaction.
THEOREM RowAgreement == Spec => []RowsAgree
BY Invariance, PTL DEF SubmissionInvariant

\* The interlock excludes a second order although the review before it works
\* on rows that may have changed since.
THEOREM Interlock == Spec => []OneUnsettledSubmission
BY Invariance, PTL DEF SubmissionInvariant

\* The books never hold a submission that the broker does not have.
THEOREM RecordsAreReal == Spec => []RecordedIsReal
BY Invariance, PTL DEF SubmissionInvariant

-----------------------------------------------------------------------------
(***************************************************************************)
(* Refinement.  A step of a handler, a ticket or a clearance is one step   *)
(* of the order's authority or none.                                       *)
(***************************************************************************)
LEMMA MappedInit == Init => Authority!Init
BY DEF Init, Authority!Init, Spent, Called, AuthorityOf

\* Rows and calls as they were: the authority is as it was.
LEMMA MappedFrame ==
    ASSUME UNCHANGED <<intent, oms, clearance, calls>>
    PROVE  UNCHANGED Authority!vars
<1>1. Spent' = Spent
  BY DEF Spent, AuthorityOf
<1>2. Called' = Called
  BY DEF Called
<1> QED
  BY <1>1, <1>2 DEF Authority!vars

\* A step on the rows of one order moves the authority of that order alone.
LEMMA MappedMove ==
    ASSUME NEW o \in Orders,
           \A p \in Orders \ {o} :
              /\ intent'[p] = intent[p] /\ oms'[p] = oms[p]
              /\ clearance'[p] = clearance[p],
           UNCHANGED calls
    PROVE  Authority!Become(o, AuthorityOf(o), AuthorityOf(o)')
<1>1. \A p \in Orders \ {o} : AuthorityOf(p)' = AuthorityOf(p)
  BY DEF AuthorityOf
<1>2. Spent' = [Spent EXCEPT ![o] = AuthorityOf(o)']
  BY <1>1 DEF Spent
<1>3. Called' = Called
  BY DEF Called
<1> QED
  BY <1>2, <1>3 DEF Authority!Become, Spent

LEMMA MappedPrepare ==
    ASSUME SubmissionInvariant, NEW w \in Workers, Prepare(w)
    PROVE  Authority!Next
<1>0. PICK o \in Orders : o = ord[w]
  BY DEF Prepare, SubmissionInvariant, TypeOK, HoldersKnown
<1>1. /\ intent[o] = "none" /\ clearance[o] = "none"
      /\ oms[o] = "manually_confirmed"
  BY <1>0 DEF Prepare, MayPrepare, SubmissionInvariant, TypeOK, HoldersKnown,
     OnlySubmittedIsCleared
<1>2. /\ intent' = [intent EXCEPT ![o] = "prepared"]
      /\ oms' = [oms EXCEPT ![o] = "submission_pending"]
      /\ UNCHANGED <<clearance, calls>>
  BY <1>0 DEF Prepare, settleVars, historyVars
<1>3. \A p \in Orders \ {o} : ~Unresolved(p)
  BY <1>0 DEF Prepare, MayPrepare, PrepareInterlock
<1>4. ASSUME NEW p \in Orders \ {o} PROVE ~Authority!Open(p)
  <2>1. \/ intent[p] = "submitted" /\ clearance[p] # "none"
        \/ intent[p] \in {"none", "rejected"}
    BY <1>3 DEF Unresolved, SubmissionInvariant, OnlySubmittedIsCleared,
       TypeOK, IntentStatuses
  <2>2. AuthorityOf(p) \notin {"pending", "live"}
    BY <2>1 DEF AuthorityOf
  <2> QED
    BY <2>2 DEF Authority!Open, Spent
<1>5. AuthorityOf(o) = "unspent" /\ AuthorityOf(o)' = "pending"
  BY <1>1, <1>2 DEF AuthorityOf, SubmissionInvariant, TypeOK
<1>6. Authority!Become(o, "unspent", "pending")
  BY <1>1, <1>2, <1>5, MappedMove DEF SubmissionInvariant, TypeOK
<1> QED
  BY <1>1, <1>4, <1>6 DEF Authority!Next, Authority!Spend

LEMMA MappedCall ==
    ASSUME SubmissionInvariant, NEW w \in Workers, Call(w)
    PROVE  Authority!Next
<1>0. PICK o \in Orders : o = ord[w]
  BY DEF Call, SubmissionInvariant, TypeOK, HoldersKnown
<1>1. intent[o] # "none" /\ calls[o] = 0
  BY <1>0 DEF Call, SubmissionInvariant, TypeOK, HoldersKnown, CallsGranted,
     Submitting
<1>2. intent[o] # "submitted" /\ clearance[o] = "none"
  BY <1>1 DEF SubmissionInvariant, BrokerFollowsCalls, RecordedIsReal,
     OnlySubmittedIsCleared
<1>3. /\ calls' = [calls EXCEPT ![o] = 1]
      /\ UNCHANGED <<intent, oms, clearance>>
  BY <1>0, <1>1 DEF Call, SubmissionInvariant, TypeOK, dbVars, settleVars
<1>4. AuthorityOf(o) \in {"pending", "dead"}
  BY <1>1, <1>2 DEF AuthorityOf, SubmissionInvariant, TypeOK, IntentStatuses
<1>5. o \notin Called /\ Called' = Called \cup {o}
  BY <1>1, <1>3 DEF Called, SubmissionInvariant, TypeOK
<1>6. Spent' = Spent
  BY <1>3 DEF Spent, AuthorityOf
<1> QED
  BY <1>1, <1>4, <1>5, <1>6 DEF Authority!Next, Authority!Send, Spent

LEMMA MappedPersist ==
    ASSUME SubmissionInvariant, NEW w \in Workers, NEW age,
           pc[w] \in {"finalizing", "queried"},
           Persist(ord[w], res[w], age), UNCHANGED <<clearance, calls>>
    PROVE  [Authority!Next]_(Authority!vars)
<1>0. PICK o \in Orders, r \in Results : o = ord[w] /\ r = res[w]
  BY DEF SubmissionInvariant, TypeOK, HoldersKnown
<1>1. r = "submitted" => calls[o] > 0
  <2>1. r = "submitted" => broker[o] = "accepted"
    BY <1>0 DEF SubmissionInvariant, ResultsAreReal
  <2>2. calls[o] # 0 => calls[o] > 0
    BY DEF SubmissionInvariant, TypeOK
  <2> QED
    BY <2>1, <2>2 DEF SubmissionInvariant, BrokerFollowsCalls
<1>2. CASE UNCHANGED <<intent, oms>>
  BY <1>2, MappedFrame
<1>3. CASE /\ intent[o] \in {"prepared", "submission_unknown"}
           /\ intent' = [intent EXCEPT ![o] = r]
           /\ oms' = [oms EXCEPT ![o] = r]
  <2>1. clearance[o] = "none"
    BY <1>1, <1>3 DEF SubmissionInvariant, OnlySubmittedIsCleared
  <2>2. Authority!Become(o, AuthorityOf(o), AuthorityOf(o)')
    BY <1>1, <1>3, MappedMove DEF SubmissionInvariant, TypeOK
  <2>3. AuthorityOf(o) = "pending"
    BY <1>1, <1>3, <2>1 DEF AuthorityOf
  <2>4. intent'[o] = r /\ clearance'[o] = "none"
    BY <1>1, <1>3, <2>1 DEF SubmissionInvariant, TypeOK
  <2>5. CASE r = "submitted"
    <3>1. AuthorityOf(o)' = "live"
      BY <2>4, <2>5 DEF AuthorityOf
    <3>2. o \in Called
      BY <1>1, <2>5 DEF Called
    <3> QED
      BY <1>1, <2>2, <2>3, <3>1, <3>2 DEF Authority!Next, Authority!Confirm
  <2>6. CASE r = "rejected"
    <3>1. AuthorityOf(o)' = "dead"
      BY <2>4, <2>6 DEF AuthorityOf
    <3> QED
      BY <1>1, <2>2, <2>3, <3>1 DEF Authority!Next, Authority!Close
  <2>7. CASE r = "submission_unknown"
    <3>1. AuthorityOf(o)' = "pending"
      BY <2>4, <2>7 DEF AuthorityOf
    <3> QED
      BY <2>2, <2>3, <3>1 DEF Authority!Become, Authority!vars, Spent
  <2> QED
    BY <2>5, <2>6, <2>7 DEF Results
<1> QED
  BY <1>0, <1>2, <1>3 DEF Persist, Unfinished

LEMMA MappedSubmit ==
    ASSUME SubmissionInvariant, NEW w \in Workers, SubmitStep(w)
    PROVE  [Authority!Next]_(Authority!vars)
<1> USE DEF dbVars, settleVars, brokerVars, historyVars
<1>1. ASSUME NEW o \in Orders, Review(w, o) PROVE UNCHANGED Authority!vars
  BY <1>1, MappedFrame DEF Review
<1>2. CASE PrepareRefused(w) \/ PreCallCheck(w) \/ GatewayMissing(w)
  BY <1>2, MappedFrame DEF PrepareRefused, PreCallCheck, GatewayMissing
<1>3. ASSUME NEW r \in Results, Reply(w, r) PROVE UNCHANGED Authority!vars
  BY <1>3, MappedFrame DEF Reply
<1>4. CASE Finalize(w)
  BY <1>4, MappedPersist DEF Finalize
<1> QED
  BY <1>1, <1>2, <1>3, <1>4, MappedPrepare, MappedCall DEF SubmitStep

LEMMA MappedRecover ==
    ASSUME SubmissionInvariant, NEW w \in Workers, RecoverStep(w)
    PROVE  [Authority!Next]_(Authority!vars)
<1> USE DEF dbVars, settleVars, brokerVars, historyVars
<1>1. ASSUME NEW o \in Orders, Claim(w, o) PROVE UNCHANGED Authority!vars
  BY <1>1, MappedFrame DEF Claim
<1>2. ASSUME NEW r \in Results, Query(w, r) PROVE UNCHANGED Authority!vars
  BY <1>2, MappedFrame DEF Query
<1>3. CASE FinalizeRecovered(w)
  BY <1>3, MappedPersist DEF FinalizeRecovered
<1> QED
  BY <1>1, <1>2, <1>3 DEF RecoverStep

LEMMA MappedEnvironment ==
    ASSUME SubmissionInvariant, OtherWriters \/ Broker \/ Tick
    PROVE  [Authority!Next]_(Authority!vars)
<1> USE DEF dbVars, settleVars, historyVars
<1>1. ASSUME NEW w \in Workers, NEW o \in Orders, CreateManualTicket(w, o)
      PROVE  Authority!Next
  <2>1. intent[o] = "none"
    BY <1>1 DEF CreateManualTicket, SubmissionInvariant, RowsAgree, TypeOK,
       IntentStatuses, TerminalOutcomes
  <2>2. Authority!Become(o, AuthorityOf(o), AuthorityOf(o)')
    BY <1>1, MappedMove DEF CreateManualTicket, SubmissionInvariant, TypeOK
  <2>3. AuthorityOf(o) = "unspent" /\ AuthorityOf(o)' = "ticketed"
    BY <1>1, <2>1 DEF CreateManualTicket, AuthorityOf, SubmissionInvariant,
       TypeOK
  <2> QED
    BY <2>2, <2>3 DEF Authority!Next, Authority!Ticket
<1>2. ASSUME NEW o \in Orders, NEW t \in TerminalOutcomes,
             ClearSubmission(o, t)
      PROVE  Authority!Next
  <2>1. Authority!Become(o, AuthorityOf(o), AuthorityOf(o)')
    BY <1>2, MappedMove DEF ClearSubmission, SubmissionInvariant, TypeOK
  <2>2. AuthorityOf(o) = "live" /\ AuthorityOf(o)' = "settled"
    BY <1>2 DEF ClearSubmission, AuthorityOf, SubmissionInvariant, TypeOK,
       TerminalOutcomes
  <2> QED
    BY <2>1, <2>2 DEF Authority!Next, Authority!Settle
<1>3. ASSUME NEW o \in Orders, NEW t \in LifecycleOutcomes,
             RecordObservation(o, t)
      PROVE  UNCHANGED Authority!vars
  BY <1>3, MappedFrame DEF RecordObservation
<1>4. ASSUME \/ \E w \in Workers, e \in BOOLEAN : SetKillSwitch(w, e)
             \/ Tick
      PROVE  UNCHANGED Authority!vars
  BY <1>4, MappedFrame DEF SetKillSwitch, Tick
<1>5. ASSUME NEW o \in Orders,
             Lose(o) \/ \E v \in {"accepted", "refused"} : Deliver(o, v)
      PROVE  UNCHANGED Authority!vars
  BY <1>5, MappedFrame DEF Lose, Deliver
<1> QED
  BY <1>1, <1>2, <1>3, <1>4, <1>5 DEF OtherWriters, Broker

LEMMA MappedStep ==
    ASSUME SubmissionInvariant, [Next]_vars
    PROVE  [Authority!Next]_(Authority!vars)
<1>1. ASSUME NEW w \in Workers, Abandon(w) \/ Restart(w)
      PROVE  UNCHANGED Authority!vars
  BY <1>1, MappedFrame DEF Abandon, Restart, dbVars, settleVars, historyVars
<1>2. CASE UNCHANGED vars
  BY <1>2, MappedFrame DEF vars, dbVars, settleVars, historyVars
<1> QED
  BY <1>1, <1>2, MappedSubmit, MappedRecover, MappedEnvironment DEF Next

\* submit(), recover(), the manual ticket and the clearance implement the
\* one-shot authority: a confirmation is spent once, one order at a time.
THEOREM AuthorityRefinement == Spec => ImplementsAuthority
BY MappedInit, MappedStep, Invariance, PTL
   DEF Spec, ImplementsAuthority, Authority!Spec
=============================================================================
