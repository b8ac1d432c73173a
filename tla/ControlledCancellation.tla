----------------------- MODULE ControlledCancellation -----------------------
(***************************************************************************)
(* Signed one-shot cancellation of a submitted order, and its query-only   *)
(* recovery, beside the submission whose rows it reads.                    *)
(*                                                                         *)
(*   cancel():   PrepareCancel, CheckCancel or RefuseCancel, CallCancel,   *)
(*               ConcludeCancel                                            *)
(*   recover():  ClaimCancelQuery, AnswerCancelQuery                       *)
(*                                                                         *)
(* The handlers run in the same event loops as submit() and recover(): a   *)
(* worker serves one request of either kind at a time.  The review before  *)
(* a transaction is part of its action, for the transaction resolves all   *)
(* the review found and refuses a difference; releases, approvals and the  *)
(* gateway's health are abstracted to whether a check passes.  What the    *)
(* gateway answers is kept in the command's row and is evidence of         *)
(* nothing: that the order is cancelled is told by a lifecycle fact.       *)
(***************************************************************************)
EXTENDS ControlledSubmission

CONSTANT MaxQueries  \* bound: recovery queries claimed per command

ASSUME MaxQueriesAssumption == MaxQueries \in Nat

VARIABLES
    \* controlled_broker_cancellation_commands, one row per order
    cancel,     \* status, "none": no row
    evidence,   \* lifecycle_observation_id of the cancelled order
    queryCount, \* query_count: recovery queries claimed
    queryAge,   \* now - max(prepared_at_epoch_ms, last_query_at_epoch_ms)
    answered,   \* the query whose answer is last_query_result_json, 0: none
    \* the workers
    at, aim,    \* step and order of the cancellation request
    claim,      \* query_sequence of its recovery claim
    \* history
    cancels     \* cancel calls made per order

commandVars == <<cancel, evidence>>
queryVars == <<queryCount, queryAge, answered>>
handlerVars == <<at, aim, claim>>
cancelVars == <<commandVars, queryVars, handlerVars, cancels>>
allVars == <<vars, cancelVars>>

CancelResults == {"cancel_requested", "cancel_rejected", "cancellation_unknown"}
Cancelling == {"granted", "confirmed", "called"}

\* Every command keeps a status its table accepts, and no handler a query
\* that was not claimed.
CancelTypeOK ==
    /\ cancel \in [Orders -> CancelResults \cup {"none", "prepared"}]
    /\ evidence \in [Orders -> 0..MaxObs]
    /\ queryCount \in [Orders -> 0..MaxQueries]
    /\ queryAge \in [Orders -> 0..MinWait]
    /\ answered \in [Orders -> 0..MaxQueries]
    /\ at \in [Workers -> Cancelling \cup {"idle", "asking"}]
    /\ aim \in [Workers -> Orders \cup {NoOrder}]
    /\ claim \in [Workers -> 0..MaxQueries]
    /\ cancels \in [Orders -> Nat]

CancelInit ==
    /\ Init
    /\ cancel = [o \in Orders |-> "none"]
    /\ evidence = [o \in Orders |-> 0]
    /\ queryCount = [o \in Orders |-> 0]
    /\ queryAge = [o \in Orders |-> MinWait]
    /\ answered = [o \in Orders |-> 0]
    /\ at = [w \in Workers |-> "idle"]
    /\ aim = [w \in Workers |-> NoOrder]
    /\ claim = [w \in Workers |-> 0]
    /\ cancels = [o \in Orders |-> 0]

-----------------------------------------------------------------------------
Busy(w) == at[w] # "idle"

\* The worker takes up a request for o; it ends one.
Serve(w, o, step, number) ==
    /\ pc[w] = "idle" /\ ~Busy(w)
    /\ at' = [at EXCEPT ![w] = step]
    /\ aim' = [aim EXCEPT ![w] = o]
    /\ claim' = [claim EXCEPT ![w] = number]

Proceed(w, step) ==
    /\ at' = [at EXCEPT ![w] = step]
    /\ UNCHANGED <<aim, claim>>

Leave(w) ==
    /\ at' = [at EXCEPT ![w] = "idle"]
    /\ aim' = [aim EXCEPT ![w] = NoOrder]
    /\ claim' = [claim EXCEPT ![w] = 0]

\* The order is submitted in both rows, and the latest lifecycle fact about
\* it is usable and leaves something to cancel.
Cancellable(o) ==
    /\ intent[o] = "submitted" /\ oms[o] = "submitted"
    /\ latest[o] = "open"

\* The fingerprint binds the command to one lifecycle observation.
StillBound(o) == Cancellable(o) /\ evidence[o] = obs[o]

\* Faulty: a retry that finds the command prepared takes the grant over.
PrepareCancelResuming(w, o) ==
    /\ Serve(w, o, "granted", 0)
    /\ cancel[o] \in {"none", "prepared"} /\ Cancellable(o)
    /\ cancel' = [cancel EXCEPT ![o] = "prepared"]
    /\ evidence' = [evidence EXCEPT ![o] = obs[o]]
    /\ queryAge' = [queryAge EXCEPT ![o] = 0]
    /\ UNCHANGED <<vars, queryCount, answered, cancels>>

\* The claim of an order's one cancellation, ever.  A retry is answered from
\* the row or refused.
PrepareCancel(w, o) ==
    /\ Serve(w, o, "granted", 0)
    /\ cancel[o] = "none" /\ Cancellable(o)
    /\ cancel' = [cancel EXCEPT ![o] = "prepared"]
    /\ evidence' = [evidence EXCEPT ![o] = obs[o]]
    /\ queryAge' = [queryAge EXCEPT ![o] = 0]
    /\ UNCHANGED <<vars, queryCount, answered, cancels>>

\* The finalize transaction: only a prepared command takes a result.
Conclude(o, result) ==
    /\ cancel' = IF cancel[o] = "prepared"
                 THEN [cancel EXCEPT ![o] = result] ELSE cancel
    /\ UNCHANGED evidence

\* Everything is reviewed again before the call; approval, release and health
\* may refuse it whatever the rows say.
CheckCancel(w) ==
    /\ at[w] = "granted" /\ StillBound(aim[w])
    /\ Proceed(w, "confirmed")
    /\ UNCHANGED <<vars, commandVars, queryVars, cancels>>

RefuseCancel(w) ==
    /\ at[w] = "granted"
    /\ Conclude(aim[w], "cancel_rejected")
    /\ Leave(w)
    /\ UNCHANGED <<vars, queryVars, cancels>>

CallCancel(w) ==
    /\ at[w] = "confirmed"
    /\ cancels' = [cancels EXCEPT ![aim[w]] = @ + 1]
    /\ Proceed(w, "called")
    /\ UNCHANGED <<vars, commandVars, queryVars>>

\* Faulty: the gateway's word cancels the order.
ConcludeCancelInBooks(w, result) ==
    /\ \/ at[w] = "called"
       \/ at[w] = "confirmed" /\ result = "cancellation_unknown"
    /\ Conclude(aim[w], result)
    /\ oms' = IF result = "cancel_requested"
              THEN [oms EXCEPT ![aim[w]] = "cancelled"] ELSE oms
    /\ Leave(w)
    /\ UNCHANGED <<intent, intentId, nextId, settleVars, killVars, timeVars,
                   brokerVars, workerVars, historyVars, queryVars, cancels>>

\* The gateway may answer anything, an exception or a foreign identity being
\* unknown; or it has gone since the check, which is unknown without a call.
ConcludeCancel(w, result) ==
    /\ \/ at[w] = "called"
       \/ at[w] = "confirmed" /\ result = "cancellation_unknown"
    /\ Conclude(aim[w], result)
    /\ Leave(w)
    /\ UNCHANGED <<vars, queryVars, cancels>>

-----------------------------------------------------------------------------
\* Faulty: a retry that finds its claim open goes on to query with it.
ClaimCancelQueryReusing(w, o) ==
    /\ cancel[o] # "none" /\ StillBound(o)
    /\ \E number \in 1..MaxQueries :
          /\ number <= queryCount[o] + 1
          /\ Serve(w, o, "asking", number)
          /\ queryCount' = [queryCount EXCEPT ![o] =
                               IF number > @ THEN number ELSE @]
    /\ queryAge' = [queryAge EXCEPT ![o] = 0]
    /\ UNCHANGED <<vars, commandVars, answered, cancels>>

\* The claim of the next numbered query, whatever the command's status: the
\* command and what it was bound to have not changed, and the wait since the
\* command or the last claim is over.
ClaimCancelQuery(w, o) ==
    /\ cancel[o] # "none" /\ StillBound(o)
    /\ queryAge[o] >= MinWait /\ queryCount[o] < MaxQueries
    /\ Serve(w, o, "asking", queryCount[o] + 1)
    /\ queryCount' = [queryCount EXCEPT ![o] = @ + 1]
    /\ queryAge' = [queryAge EXCEPT ![o] = 0]
    /\ UNCHANGED <<vars, commandVars, answered, cancels>>

\* The answer, a refusal before the query included, replaces the last one.
AnswerCancelQuery(w) ==
    /\ at[w] = "asking"
    /\ answered' = [answered EXCEPT ![aim[w]] = claim[w]]
    /\ Leave(w)
    /\ UNCHANGED <<vars, commandVars, queryCount, queryAge, cancels>>

\* A transaction was unavailable: the request ends where it stands.
AbandonCancel(w) ==
    /\ Busy(w)
    /\ Leave(w)
    /\ UNCHANGED <<vars, commandVars, queryVars, cancels>>

\* The process dies.
RestartCancelling(w) ==
    /\ Busy(w)
    /\ Restart(w)
    /\ Leave(w)
    /\ UNCHANGED <<commandVars, queryVars, cancels>>

-----------------------------------------------------------------------------
CancelStep(w) ==
    \/ \E o \in Orders : PrepareCancel(w, o) \/ ClaimCancelQuery(w, o)
    \/ CheckCancel(w) \/ RefuseCancel(w) \/ CallCancel(w)
    \/ \E result \in CancelResults : ConcludeCancel(w, result)
    \/ AnswerCancelQuery(w) \/ AbandonCancel(w) \/ RestartCancelling(w)

\* What the event loop of w does besides.
LoopStep(w) ==
    /\ ~Busy(w)
    /\ \/ SubmitStep(w) \/ RecoverStep(w) \/ Abandon(w) \/ Restart(w)
       \/ \E o \in Orders : CreateManualTicket(w, o)
       \/ \E enabled \in BOOLEAN : SetKillSwitch(w, enabled)
    /\ UNCHANGED cancelVars

EvidenceStep ==
    /\ \/ \E o \in Orders, t \in LifecycleOutcomes : RecordObservation(o, t)
       \/ \E o \in Orders, t \in TerminalOutcomes : ClearSubmission(o, t)
       \/ Broker
    /\ UNCHANGED cancelVars

CancelTick ==
    /\ Tick
    /\ queryAge' = Older(queryAge)
    /\ UNCHANGED <<commandVars, queryCount, answered, handlerVars, cancels>>

CancelNext ==
    \/ \E w \in Workers : CancelStep(w) \/ LoopStep(w)
    \/ EvidenceStep
    \/ CancelTick

CancelSpec == CancelInit /\ [][CancelNext]_allVars

-----------------------------------------------------------------------------
\* "request_one_exact_broker_cancellation_once": over every retry, race and
\* crash, at most one cancel call leaves for an order, and only for an order
\* that submit() sent and the broker has: never for one whose submission was
\* refused, is still open or went by a manual ticket.
OneCancelPerLiveOrder ==
    \A o \in Orders :
        /\ cancels[o] <= 1
        /\ cancels[o] = 1 => broker[o] = "accepted" /\ calls[o] = 1

\* Cancellation has no hand in the submission: whatever a gateway answers to
\* a cancel call or a query, the intent, OMS and clearance rows go on as if
\* there were none, so that all that is shown of submission holds beside it.
ImplementsSubmission == Spec

\* The stored answer is never replaced by that of an earlier query, when
\* there is one API process: a process that died takes its query with it.
NewestQueryKept ==
    [][OneProcess => \A o \in Orders : answered'[o] >= answered[o]]_allVars

-----------------------------------------------------------------------------
RequestsKnown ==
    \A w \in Workers :
        /\ Busy(w) <=> aim[w] # NoOrder
        /\ Busy(w) => pc[w] = "idle" /\ cancel[aim[w]] # "none"

\* The prepare transaction grants the cancel call of an order to one worker,
\* and the grant is unused before the call.
OneCancelGrant ==
    /\ \A v, w \in Workers :
          at[v] \in Cancelling /\ at[w] \in Cancelling /\ aim[v] = aim[w]
              => v = w
    /\ \A w \in Workers :
          at[w] \in {"granted", "confirmed"} => cancels[aim[w]] = 0
    /\ \A o \in Orders :
          /\ cancels[o] <= 1
          /\ cancel[o] = "none" => cancels[o] = 0

\* What is being cancelled was submitted, and remains so.
CommandsAreAboutSubmitted ==
    \A o \in Orders : cancel[o] # "none" => intent[o] = "submitted"

\* Queries are numbered in the order of their claims, and only a running
\* request can still bring an answer.
QueriesNumbered ==
    /\ \A o \in Orders : answered[o] <= queryCount[o]
    /\ \A w \in Workers :
          at[w] = "asking" =>
              /\ claim[w] <= queryCount[aim[w]]
              /\ OneProcess => claim[w] = queryCount[aim[w]]

CancelInvariant ==
    /\ CancelTypeOK
    /\ RequestsKnown /\ OneCancelGrant
    /\ CommandsAreAboutSubmitted /\ QueriesNumbered
=============================================================================
