------------------------ MODULE ControlledSubmission ------------------------
(***************************************************************************)
(* Signed one-shot submission of a manually confirmed order to the broker, *)
(* and its query-only recovery.                                            *)
(*                                                                         *)
(* A worker is an API process: its event loop runs one request at a time,  *)
(* a submit() or a recover(), to its end.  The shared runtime lock admits  *)
(* several such processes on one database.  Every database step is one     *)
(* BEGIN IMMEDIATE transaction and therefore one action, and between two   *)
(* steps any other worker, the broker, the clock or a crash may move.  A   *)
(* transaction and the clock reading passed to it fall in one tick.        *)
(*                                                                         *)
(*   submit():   Review, Prepare, PreCallCheck, Call, Reply, Finalize      *)
(*   recover():  Claim, Query, FinalizeRecovered                           *)
(*                                                                         *)
(* Identities and fingerprints are abstracted: an intent is unique per     *)
(* order (the table holds one row per order_id), and a retry that finds a  *)
(* row is either answered from it or refused; both leave the state alone.  *)
(***************************************************************************)
EXTENDS Naturals

CONSTANTS
    Orders,         \* manually confirmed OMS orders, one controlled account
    Workers,        \* API processes on the database
    NoOrder,        \* the order of an idle worker
    MinWait,        \* ticks in CONTROLLED_BROKER_RECOVERY_MINIMUM_WAIT_SECONDS
    MaxObs,         \* bound: lifecycle observations recorded per order
    PromptHandlers  \* does every submit handler end within MinWait of Prepare?

ASSUME NoOrderAssumption == NoOrder \notin Orders
ASSUME MinWaitAssumption == MinWait \in Nat \ {0}
ASSUME MaxObsAssumption == MaxObs \in Nat
ASSUME PromptHandlersAssumption == PromptHandlers \in BOOLEAN

VARIABLES
    \* persisted rows
    intent,         \* controlled_broker_submit_intents.status, "none": no row
    intentId,       \* its AUTOINCREMENT id, 0: no row
    nextId,         \* the next id of that table
    oms,            \* oms_orders.status
    clearance,      \* terminal_status of the clearance row, "none": no row
    clearedObs,     \* its lifecycle_observation_id, 0: cleared without one
    latest,         \* outcome of the latest lifecycle observation
    obs,            \* id of the latest lifecycle observation, 0: none
    killSwitch,     \* runtime_controls kill_switch.enabled
    killSeen,       \* each process's own copy of it, read at its start
    \* time, as ages capped at MinWait
    sincePrepared,  \* now - prepared_at_epoch_ms
    sinceQuery,     \* now - last_recovery_at_epoch_ms (epoch 0: MinWait)
    \* the broker and the wire to it
    broker,         \* what the broker did with the client_order_id
    wire,           \* orders whose submit request is in transit
    \* the workers
    pc, ord, res,
    \* history
    calls,          \* submit calls made per order
    sinceAdmitted,  \* age of the last admitted recovery query
    killCalls       \* submit calls made since the kill switch row was enabled

dbVars == <<intent, intentId, nextId, oms>>
settleVars == <<clearance, clearedObs, latest, obs>>
killVars == <<killSwitch, killSeen>>
timeVars == <<sincePrepared, sinceQuery>>
brokerVars == <<broker, wire>>
workerVars == <<pc, ord, res>>
historyVars == <<calls, sinceAdmitted, killCalls>>

vars == <<dbVars, settleVars, killVars, timeVars, brokerVars, workerVars,
          historyVars>>

IntentStatuses ==
    {"none", "prepared", "submitted", "rejected", "submission_unknown"}
OmsStatuses ==
    {"manually_confirmed", "manual_ticket_created", "submission_pending",
     "submission_unknown", "submitted", "rejected", "filled", "cancelled"}
TerminalOutcomes == {"filled", "cancelled"}
LifecycleOutcomes == TerminalOutcomes \cup {"open", "blocked"}
Results == {"submitted", "rejected", "submission_unknown"}

\* Where a worker is: after the review, after the granted prepare, after the
\* pre-call checks, in the gateway call, about to persist its result; and in
\* recover(): after the granted claim, about to persist the query's result.
Submitting == {"prepared", "checked", "calling", "finalizing"}
Recovering == {"claimed", "queried"}
Steps == {"idle", "reviewed"} \cup Submitting \cup Recovering

\* Every row, handler and age keeps a value the code can store or hold: in
\* particular no handler ends by persisting a status that is not a result.
TypeOK ==
    /\ intent \in [Orders -> IntentStatuses]
    /\ intentId \in [Orders -> Nat]
    /\ nextId \in Nat
    /\ oms \in [Orders -> OmsStatuses]
    /\ clearance \in [Orders -> TerminalOutcomes \cup {"none"}]
    /\ clearedObs \in [Orders -> 0..MaxObs]
    /\ latest \in [Orders -> LifecycleOutcomes \cup {"none"}]
    /\ obs \in [Orders -> 0..MaxObs]
    /\ killSwitch \in BOOLEAN
    /\ killSeen \in [Workers -> BOOLEAN]
    /\ sincePrepared \in [Orders -> 0..MinWait]
    /\ sinceQuery \in [Orders -> 0..MinWait]
    /\ broker \in [Orders -> {"unseen", "accepted", "refused"}]
    /\ wire \subseteq Orders
    /\ pc \in [Workers -> Steps]
    /\ ord \in [Workers -> Orders \cup {NoOrder}]
    /\ res \in [Workers -> Results \cup {"none"}]
    /\ calls \in [Orders -> Nat]
    /\ sinceAdmitted \in [Orders -> 0..MinWait]
    /\ killCalls \in 0..2

Init ==
    /\ intent = [o \in Orders |-> "none"]
    /\ intentId = [o \in Orders |-> 0]
    /\ nextId = 1
    /\ oms = [o \in Orders |-> "manually_confirmed"]
    /\ clearance = [o \in Orders |-> "none"]
    /\ clearedObs = [o \in Orders |-> 0]
    /\ latest = [o \in Orders |-> "none"]
    /\ obs = [o \in Orders |-> 0]
    /\ killSwitch = FALSE
    /\ killSeen = [w \in Workers |-> FALSE]
    /\ sincePrepared = [o \in Orders |-> MinWait]
    /\ sinceQuery = [o \in Orders |-> MinWait]
    /\ broker = [o \in Orders |-> "unseen"]
    /\ wire = {}
    /\ pc = [w \in Workers |-> "idle"]
    /\ ord = [w \in Workers |-> NoOrder]
    /\ res = [w \in Workers |-> "none"]
    /\ calls = [o \in Orders |-> 0]
    /\ sinceAdmitted = [o \in Orders |-> MinWait]
    /\ killCalls = 0

-----------------------------------------------------------------------------
(***************************************************************************)
(* The submission interlock.                                               *)
(***************************************************************************)
Unresolved(o) ==
    /\ intent[o] \in {"prepared", "submitted", "submission_unknown"}
    /\ clearance[o] = "none"

Cleared(o) == intent[o] = "submitted" /\ clearance[o] # "none"

\* The latest lifecycle fact contradicts the clearance: it is not a usable
\* terminal fact, it has another outcome, or it is not the very observation
\* the clearance was bound to.
Contradicted(o) ==
    \/ latest[o] \in {"open", "blocked"}
    \/ latest[o] \in TerminalOutcomes /\ latest[o] # clearance[o]
    \/ clearedObs[o] # 0 /\ clearedObs[o] # obs[o]
    \/ latest[o] # "none" /\ oms[o] # clearance[o]

\* All cleared intents of other orders are examined by the review; the
\* prepare transaction asks for one row (limit=1) and the limit applies to
\* the cleared intents, before they are compared with their lifecycle.
Invalidated(o) == Cleared(o) /\ Contradicted(o)

OldestCleared(o, p) ==
    /\ p # o /\ Cleared(p)
    /\ \A q \in Orders \ {o, p} : Cleared(q) => intentId[p] < intentId[q]

ReviewInterlock(o) ==
    \E p \in Orders \ {o} : Unresolved(p) \/ Invalidated(p)

\* Faulty: the transaction trusts the review for the unresolved intents.
PrepareInterlockTrusting(o) ==
    \E p \in Orders \ {o} : OldestCleared(o, p) /\ Invalidated(p)

PrepareInterlock(o) ==
    \E p \in Orders \ {o} :
        Unresolved(p) \/ (OldestCleared(o, p) /\ Invalidated(p))

-----------------------------------------------------------------------------
(***************************************************************************)
(* submit().                                                               *)
(***************************************************************************)
Goto(w, step) == pc' = [pc EXCEPT ![w] = step]

\* Start a request for o; end it, dropping everything the worker held.
Begin(w, o, step) ==
    /\ pc[w] = "idle"
    /\ Goto(w, step)
    /\ ord' = [ord EXCEPT ![w] = o]
    /\ UNCHANGED res

End(w) ==
    /\ Goto(w, "idle")
    /\ ord' = [ord EXCEPT ![w] = NoOrder]
    /\ res' = [res EXCEPT ![w] = "none"]

\* Go on to persist result r.
Hold(w, r, step) ==
    /\ Goto(w, step)
    /\ res' = [res EXCEPT ![w] = r]
    /\ UNCHANGED ord

\* No intent yet and an unblocked preview; everything it reads may be stale
\* when Prepare runs, and the kill switch it reads is the process's own copy.
\* A blocked review changes nothing.
Review(w, o) ==
    /\ Begin(w, o, "reviewed")
    /\ intent[o] = "none"
    /\ oms[o] = "manually_confirmed"
    /\ ~ReviewInterlock(o)
    /\ ~killSeen[w]
    /\ UNCHANGED <<dbVars, settleVars, killVars, timeVars, brokerVars,
                   historyVars>>

\* Faulty: the transaction leaves the kill switch to the review.
MayPrepareDeaf(o) ==
    /\ intent[o] = "none"
    /\ ~PrepareInterlock(o)
    /\ oms[o] = "manually_confirmed"

\* The kill switch of the transaction is the row.
MayPrepare(o) ==
    /\ intent[o] = "none"
    /\ ~PrepareInterlock(o)
    /\ oms[o] = "manually_confirmed"
    /\ ~killSwitch

\* The prepare transaction grants the external call to one worker: it inserts
\* the intent and moves the OMS order with it.
Prepare(w) ==
    LET o == ord[w] IN
    /\ pc[w] = "reviewed"
    /\ MayPrepare(o)
    /\ intent' = [intent EXCEPT ![o] = "prepared"]
    /\ intentId' = [intentId EXCEPT ![o] = nextId]
    /\ nextId' = nextId + 1
    /\ oms' = [oms EXCEPT ![o] = "submission_pending"]
    /\ sincePrepared' = [sincePrepared EXCEPT ![o] = 0]
    /\ sinceQuery' = [sinceQuery EXCEPT ![o] = MinWait]
    /\ Goto(w, "prepared")
    /\ UNCHANGED <<settleVars, killVars, brokerVars, ord, res, historyVars>>

\* Faulty: a retry that finds the prepared intent takes the grant over.
PrepareRefusedResuming(w) ==
    /\ pc[w] = "reviewed"
    /\ ~MayPrepare(ord[w])
    /\ IF intent[ord[w]] = "prepared" THEN Hold(w, "none", "prepared")
                                      ELSE End(w)
    /\ UNCHANGED <<dbVars, settleVars, killVars, timeVars, brokerVars,
                   historyVars>>

\* A reused intent, a conflicting one and a blocked one all roll back and end
\* the request without an external call.
PrepareRefused(w) ==
    /\ pc[w] = "reviewed"
    /\ ~MayPrepare(ord[w])
    /\ End(w)
    /\ UNCHANGED <<dbVars, settleVars, killVars, timeVars, brokerVars,
                   historyVars>>

\* Approval, release, gateway capability and health are re-read here and may
\* each have changed; the kill switch, again the process's own copy, is the
\* one of them that is modelled.
PreCallCheck(w) ==
    /\ pc[w] = "prepared"
    /\ \/ /\ ~killSeen[w]
          /\ Goto(w, "checked")
          /\ UNCHANGED <<ord, res>>
       \/ Hold(w, "rejected", "finalizing")
    /\ UNCHANGED <<dbVars, settleVars, killVars, timeVars, brokerVars,
                   historyVars>>

Call(w) ==
    LET o == ord[w] IN
    /\ pc[w] = "checked"
    /\ Goto(w, "calling")
    /\ wire' = wire \cup {o}
    /\ calls' = [calls EXCEPT ![o] = @ + 1]
    /\ killCalls' = IF killSwitch /\ killCalls < 2 THEN killCalls + 1
                                                   ELSE killCalls
    /\ UNCHANGED <<dbVars, settleVars, killVars, timeVars, broker, ord, res,
                   sinceAdmitted>>

\* Faulty: no classification for the missing gateway.
GatewayMissingUnclassified(w) ==
    /\ pc[w] = "checked"
    /\ Hold(w, "none", "finalizing")
    /\ UNCHANGED <<dbVars, settleVars, killVars, timeVars, brokerVars,
                   historyVars>>

\* The gateway has gone since the checks: unknown, without a call.
GatewayMissing(w) ==
    /\ pc[w] = "checked"
    /\ Hold(w, "submission_unknown", "finalizing")
    /\ UNCHANGED <<dbVars, settleVars, killVars, timeVars, brokerVars,
                   historyVars>>

\* Faulty: an order in transit is taken for accepted.
AnswerOptimistic(o, r, definitiveNotFound) ==
    \/ r = "submission_unknown"
    \/ r = "submitted" /\ (broker[o] = "accepted" \/ o \in wire)
    \/ r = "rejected" /\ broker[o] = "refused"
    \/ r = "rejected" /\ definitiveNotFound
          /\ broker[o] = "unseen" /\ o \notin wire

\* Faulty: a not_found that is not definitive is taken for a rejection.
AnswerHasty(o, r, definitiveNotFound) ==
    \/ r = "submission_unknown"
    \/ r = "submitted" /\ broker[o] = "accepted"
    \/ r = "rejected" /\ broker[o] = "refused"
    \/ r = "rejected" /\ definitiveNotFound /\ broker[o] = "unseen"

\* What a result may say.  Anything that is not exact and definitive (an
\* exception, a missing field, a foreign identity) classifies as unknown.
Answer(o, r, definitiveNotFound) ==
    \/ r = "submission_unknown"
    \/ r = "submitted" /\ broker[o] = "accepted"
    \/ r = "rejected" /\ broker[o] = "refused"
    \/ r = "rejected" /\ definitiveNotFound
          /\ broker[o] = "unseen" /\ o \notin wire

Reply(w, r) ==
    /\ pc[w] = "calling"
    /\ Answer(ord[w], r, FALSE)
    /\ Hold(w, r, "finalizing")
    /\ UNCHANGED <<dbVars, settleVars, killVars, timeVars, brokerVars,
                   historyVars>>

\* Faulty: a terminal intent is overwritten by the later result.
UnfinishedAlways(o) == oms[o] # "manually_confirmed"

\* Faulty: the OMS order is left behind.
PersistIntentOnly(o, r, queryAge) ==
    /\ IF intent[o] \in {"prepared", "submission_unknown"}
       THEN /\ intent' = [intent EXCEPT ![o] = r]
            /\ sinceQuery' = [sinceQuery EXCEPT ![o] = queryAge]
       ELSE UNCHANGED <<intent, sinceQuery>>
    /\ UNCHANGED oms

\* The finalize transaction.  A terminal intent is never overwritten: the
\* same result is answered from the row, another one is refused; both end the
\* request with the rows as they are.
Unfinished(o) ==
    /\ intent[o] \in {"prepared", "submission_unknown"}
    /\ oms[o] \in {"submission_pending", "submission_unknown"}

Persist(o, r, queryAge) ==
    IF Unfinished(o)
    THEN /\ intent' = [intent EXCEPT ![o] = r]
         /\ oms' = [oms EXCEPT ![o] = r]
         /\ sinceQuery' = [sinceQuery EXCEPT ![o] = queryAge]
    ELSE UNCHANGED <<intent, oms, sinceQuery>>

\* recovered=False writes last_recovery_at_epoch_ms = 0.
Finalize(w) ==
    /\ pc[w] = "finalizing"
    /\ Persist(ord[w], res[w], MinWait)
    /\ End(w)
    /\ UNCHANGED <<intentId, nextId, settleVars, killVars, sincePrepared,
                   brokerVars, historyVars>>

-----------------------------------------------------------------------------
(***************************************************************************)
(* recover(): query only, rate limited.                                    *)
(***************************************************************************)
\* Faulty: the age of a prepared intent is not looked at.
WaitedSinceQuery(o) == sinceQuery[o] >= MinWait

Waited(o) == sincePrepared[o] >= MinWait /\ sinceQuery[o] >= MinWait

\* Faulty: an intent is only recoverable once its handler reported back.
ClaimUnknown(w, o) ==
    /\ Begin(w, o, "claimed")
    /\ intent[o] = "submission_unknown"
    /\ Waited(o)
    /\ sinceQuery' = [sinceQuery EXCEPT ![o] = 0]
    /\ sinceAdmitted' = [sinceAdmitted EXCEPT ![o] = 0]
    /\ UNCHANGED <<dbVars, settleVars, killVars, sincePrepared, brokerVars,
                   calls, killCalls>>

\* One claim per MinWait, whatever worker asks: the claim stamps the intent
\* before it lets its worker query.
Claim(w, o) ==
    /\ Begin(w, o, "claimed")
    /\ intent[o] \in {"prepared", "submission_unknown"}
    /\ Waited(o)
    /\ sinceQuery' = [sinceQuery EXCEPT ![o] = 0]
    /\ sinceAdmitted' = [sinceAdmitted EXCEPT ![o] = 0]
    /\ UNCHANGED <<dbVars, settleVars, killVars, sincePrepared, brokerVars,
                   calls, killCalls>>

Query(w, r) ==
    /\ pc[w] = "claimed"
    /\ Answer(ord[w], r, TRUE)
    /\ Hold(w, r, "queried")
    /\ UNCHANGED <<dbVars, settleVars, killVars, timeVars, brokerVars,
                   historyVars>>

\* Faulty: the query's own time is not kept.
FinalizeRecoveredUnstamped(w) ==
    /\ pc[w] = "queried"
    /\ Persist(ord[w], res[w], MinWait)
    /\ End(w)
    /\ UNCHANGED <<intentId, nextId, settleVars, killVars, sincePrepared,
                   brokerVars, historyVars>>

FinalizeRecovered(w) ==
    /\ pc[w] = "queried"
    /\ Persist(ord[w], res[w], 0)
    /\ End(w)
    /\ UNCHANGED <<intentId, nextId, settleVars, killVars, sincePrepared,
                   brokerVars, historyVars>>

\* The request ends where it stands: the transaction was unavailable (rolled
\* back), or the approval re-check before the query failed.  An exception of
\* the gateway call does not end it, that is an unknown result.
Abandon(w) ==
    /\ pc[w] \notin {"idle", "calling"}
    /\ End(w)
    /\ UNCHANGED <<dbVars, settleVars, killVars, timeVars, brokerVars,
                   historyVars>>

\* The process dies, at any point, and its successor reads the kill switch.
Restart(w) ==
    /\ End(w)
    /\ killSeen' = [killSeen EXCEPT ![w] = killSwitch]
    /\ UNCHANGED <<dbVars, settleVars, killSwitch, timeVars, brokerVars,
                   historyVars>>

-----------------------------------------------------------------------------
(***************************************************************************)
(* The other writers of the same rows.                                     *)
(***************************************************************************)
\* The manual route, on any process: one compare-and-set on the OMS row.
CreateManualTicket(w, o) ==
    /\ pc[w] = "idle" /\ ~killSeen[w]
    /\ oms[o] = "manually_confirmed"
    /\ oms' = [oms EXCEPT ![o] = "manual_ticket_created"]
    /\ UNCHANGED <<intent, intentId, nextId, settleVars, killVars, timeVars,
                   brokerVars, workerVars, historyVars>>

\* An imported lifecycle fact about an order the broker has; "blocked" is a
\* persisted observation that failed its own validation.
RecordObservation(o, outcome) ==
    /\ broker[o] = "accepted"
    /\ obs[o] < MaxObs
    /\ obs' = [obs EXCEPT ![o] = @ + 1]
    /\ latest' = [latest EXCEPT ![o] = outcome]
    /\ UNCHANGED <<dbVars, clearance, clearedObs, killVars, timeVars,
                   brokerVars, workerVars, historyVars>>

\* The signed clearance, re-validated in its own transaction: a lifecycle
\* fact, when there is one, must be terminal and is what gets cleared;
\* without one only a full fill (from the statement import) can be.
ClearSubmission(o, outcome) ==
    /\ intent[o] = "submitted" /\ oms[o] = "submitted"
    /\ clearance[o] = "none"
    /\ \/ latest[o] = "none" /\ outcome = "filled"
       \/ latest[o] = outcome
    /\ clearance' = [clearance EXCEPT ![o] = outcome]
    /\ clearedObs' = [clearedObs EXCEPT ![o] = obs[o]]
    /\ oms' = [oms EXCEPT ![o] = outcome]
    /\ UNCHANGED <<intent, intentId, nextId, latest, obs, killVars, timeVars,
                   brokerVars, workerVars, historyVars>>

\* The process that serves the request changes its own copy, then the row,
\* unless persisting fails.  The copies of other processes stay as they are.
SetKillSwitch(w, enabled) ==
    /\ pc[w] = "idle"
    /\ killSeen' = [killSeen EXCEPT ![w] = enabled]
    /\ \/ killSwitch' = enabled /\ killCalls' = 0
       \/ UNCHANGED <<killSwitch, killCalls>>
    /\ UNCHANGED <<dbVars, settleVars, timeVars, brokerVars, workerVars, calls,
                   sinceAdmitted>>

-----------------------------------------------------------------------------
(***************************************************************************)
(* The broker and the clock.                                               *)
(***************************************************************************)
Deliver(o, verdict) ==
    /\ o \in wire
    /\ wire' = wire \ {o}
    /\ broker' = [broker EXCEPT ![o] = verdict]
    /\ UNCHANGED <<dbVars, settleVars, killVars, timeVars, workerVars,
                   historyVars>>

Lose(o) ==
    /\ o \in wire
    /\ wire' = wire \ {o}
    /\ UNCHANGED <<dbVars, settleVars, killVars, timeVars, broker, workerVars,
                   historyVars>>

Older(age) == [o \in Orders |-> IF age[o] < MinWait THEN age[o] + 1 ELSE age[o]]

\* With PromptHandlers, no submit handler is still running when its order
\* becomes recoverable.
Tick ==
    /\ PromptHandlers =>
          \A w \in Workers :
              pc[w] \in Submitting => sincePrepared[ord[w]] + 1 < MinWait
    /\ sincePrepared' = Older(sincePrepared)
    /\ sinceQuery' = Older(sinceQuery)
    /\ sinceAdmitted' = Older(sinceAdmitted)
    /\ UNCHANGED <<dbVars, settleVars, killVars, brokerVars, workerVars,
                   calls, killCalls>>

-----------------------------------------------------------------------------
SubmitStep(w) ==
    \/ \E o \in Orders : Review(w, o)
    \/ Prepare(w) \/ PrepareRefused(w) \/ PreCallCheck(w)
    \/ Call(w) \/ GatewayMissing(w)
    \/ \E r \in Results : Reply(w, r)
    \/ Finalize(w)

RecoverStep(w) ==
    \/ \E o \in Orders : Claim(w, o)
    \/ \E r \in Results : Query(w, r)
    \/ FinalizeRecovered(w)

OtherWriters ==
    \/ \E w \in Workers, o \in Orders : CreateManualTicket(w, o)
    \/ \E o \in Orders, t \in LifecycleOutcomes : RecordObservation(o, t)
    \/ \E o \in Orders, t \in TerminalOutcomes : ClearSubmission(o, t)
    \/ \E w \in Workers, enabled \in BOOLEAN : SetKillSwitch(w, enabled)

Broker ==
    \E o \in Orders :
        \/ \E v \in {"accepted", "refused"} : Deliver(o, v)
        \/ Lose(o)

Next ==
    \/ \E w \in Workers :
          SubmitStep(w) \/ RecoverStep(w) \/ Abandon(w) \/ Restart(w)
    \/ OtherWriters
    \/ Broker
    \/ Tick

Spec == Init /\ [][Next]_vars

-----------------------------------------------------------------------------
(***************************************************************************)
(* Safety, whatever the handlers' speed.                                   *)
(***************************************************************************)
\* An order leaves on one route and at most once: over every retry, race,
\* crash and recovery, submit() calls the broker at most once for it, and
\* never for an order that was handed to a human as a manual ticket.
OneRoutePerOrder ==
    \A o \in Orders :
        /\ calls[o] <= 1
        /\ oms[o] = "manual_ticket_created" => calls[o] = 0

\* The intent row, the OMS row and the clearance row are written by four
\* different transactions and always tell the same story.
RowsAgree ==
    \A o \in Orders :
        oms[o] \in CASE intent[o] = "none" ->
                          {"manually_confirmed", "manual_ticket_created"}
                    [] intent[o] = "prepared" -> {"submission_pending"}
                    [] intent[o] = "submitted" ->
                          IF clearance[o] = "none" THEN {"submitted"}
                                                   ELSE {clearance[o]}
                    [] OTHER -> {intent[o]}

\* The interlock: two orders never have an unsettled submission together.
OneUnsettledSubmission ==
    \A o, p \in Orders : Unresolved(o) /\ Unresolved(p) => o = p

\* A submission is recorded as submitted only when the broker has the order,
\* and the broker has it only because submit() called: no reordering of late
\* answers and recoveries makes the books claim an order that is not there.
RecordedIsReal ==
    \A o \in Orders :
        intent[o] = "submitted" => broker[o] = "accepted" /\ calls[o] = 1

-----------------------------------------------------------------------------
(***************************************************************************)
(* Safety that rests on submit handlers not being overtaken: there is one  *)
(* API process, or every handler ends before its intent is recoverable.    *)
(***************************************************************************)
OneProcess == \A v, w \in Workers : v = w

Serialized == OneProcess \/ PromptHandlers

\* "unreconciled_submission_blocks_new_orders" (safety_flags): an order that
\* is live at the broker and not cleared blocks every other order.
LiveOrderBlocksOthers ==
    \A o \in Orders :
        broker[o] = "accepted" /\ clearance[o] = "none" => Unresolved(o)

\* Two recovery queries of one order are at least MinWait apart.
QueriesSpaced ==
    [][\A w \in Workers :
          pc[w] = "idle" /\ pc'[w] = "claimed"
              => sinceAdmitted[ord'[w]] = MinWait]_vars

\* Once the kill switch row is on, at most one submit call still leaves, that
\* of the one granted intent: however many processes have not heard of it.
KillSwitchExposure == killCalls <= 1

\* A lifecycle fact that contradicts the clearance of any other order blocks
\* the submit transaction.
ContradictionBlocksPrepare ==
    [][\A o \in Orders :
          intent[o] = "none" /\ intent'[o] = "prepared"
              => \A p \in Orders \ {o} : ~Invalidated(p)]_vars

-----------------------------------------------------------------------------
(***************************************************************************)
(* Why they hold: the invariant that every step preserves.                 *)
(***************************************************************************)
HoldersKnown ==
    \A w \in Workers :
        /\ pc[w] = "idle" <=> ord[w] = NoOrder
        /\ pc[w] \in Submitting \cup Recovering => intent[ord[w]] # "none"
        /\ pc[w] \in {"finalizing", "queried"} => res[w] # "none"

\* The prepare transaction grants the call of an order to one worker.
OneGrant ==
    \A v, w \in Workers :
        /\ pc[v] \in Submitting /\ pc[w] \in Submitting
        /\ ord[v] = ord[w]
        => v = w

\* A call needs the grant, and the grant is still unused before the call.
CallsGranted ==
    /\ \A w \in Workers : pc[w] \in {"prepared", "checked"} => calls[ord[w]] = 0
    /\ \A o \in Orders :
          /\ calls[o] <= 1
          /\ intent[o] = "none" => calls[o] = 0

\* The broker has nothing but what was called, and one request at a time.
BrokerFollowsCalls ==
    \A o \in Orders :
        /\ calls[o] = 0 => broker[o] = "unseen" /\ o \notin wire
        /\ o \in wire => broker[o] = "unseen"

\* A positive result is evidence of an order that is there to stay.
ResultsAreReal ==
    \A w \in Workers :
        pc[w] \in {"finalizing", "queried"} /\ res[w] = "submitted"
            => broker[ord[w]] = "accepted"

OnlySubmittedIsCleared ==
    \A o \in Orders : clearance[o] # "none" => intent[o] = "submitted"

\* Handlers, rows, wire and broker together: no crash, late answer or second
\* handler leads out of these conjuncts.
SubmissionInvariant ==
    /\ TypeOK
    /\ HoldersKnown /\ OneGrant /\ CallsGranted
    /\ BrokerFollowsCalls /\ ResultsAreReal
    /\ OnlySubmittedIsCleared
    /\ RowsAgree /\ OneUnsettledSubmission /\ RecordedIsReal

\* A submit handler has its intent to itself.
Exclusive ==
    \A w \in Workers :
        pc[w] \in Submitting =>
            /\ intent[ord[w]] = "prepared"
            /\ PromptHandlers => sincePrepared[ord[w]] < MinWait
            /\ \A v \in Workers : pc[v] \in Recovering => ord[v] # ord[w]

\* The broker has no order of that id and none is on its way.
Gone(o) == broker[o] # "accepted" /\ o \notin wire

\* What was, or is about to be, recorded as rejected is gone.
RejectedIsGone ==
    /\ \A o \in Orders : intent[o] = "rejected" => Gone(o)
    /\ \A w \in Workers :
          pc[w] \in {"finalizing", "queried"} /\ res[w] = "rejected"
              => Gone(ord[w])

\* A call made under the kill switch uses up the one grant there can be.
KillUsesTheGrant ==
    /\ killCalls <= 1
    /\ killCalls = 1 =>
          killSwitch /\ \A w \in Workers : pc[w] \notin {"prepared", "checked"}

SerialPart == Exclusive /\ RejectedIsGone /\ KillUsesTheGrant

\* The row remembers the last admitted query: what erases its stamp, a prepare
\* or the report of a submit handler, comes before the first one.
QueriesStamped ==
    /\ \A o \in Orders :
          /\ sinceQuery[o] <= sinceAdmitted[o]
          /\ intent[o] = "none" => sinceAdmitted[o] = MinWait
    /\ \A w \in Workers :
          pc[w] \in Submitting => sinceAdmitted[ord[w]] = MinWait

\* Serialized, no recovery closes a submission under its handler.
SerialInvariant ==
    SubmissionInvariant /\ (Serialized => SerialPart /\ QueriesStamped)

-----------------------------------------------------------------------------
(***************************************************************************)
(* The abstract authority that the rows implement.                         *)
(***************************************************************************)
AuthorityOf(o) ==
    CASE intent[o] = "submitted" ->
            IF clearance[o] = "none" THEN "live" ELSE "settled"
      [] intent[o] = "rejected" -> "dead"
      [] intent[o] \in {"prepared", "submission_unknown"} -> "pending"
      [] intent[o] = "none" ->
            IF oms[o] = "manual_ticket_created" THEN "ticketed" ELSE "unspent"

Spent == [o \in Orders |-> AuthorityOf(o)]
Called == {o \in Orders : calls[o] > 0}

Authority ==
    INSTANCE OneShotAuthority
        WITH authority <- Spent, sent <- Called, LateSends <- TRUE

StrictAuthority ==
    INSTANCE OneShotAuthority
        WITH authority <- Spent, sent <- Called, LateSends <- FALSE

\* The rows and the calls of submit(), recover(), the manual ticket and the
\* clearance implement the one-shot authority, calls that leave late included.
ImplementsAuthority == Authority!Spec

\* Serialized, no call leaves after its submission was closed.
ImplementsStrictAuthority == StrictAuthority!Spec

-----------------------------------------------------------------------------
(***************************************************************************)
(* Recovery converges, if somebody keeps asking for it.  recover() is a    *)
(* request: no server loop starts it.  The environment is assumed to ask   *)
(* again and again, not to kill every such request, and to answer some     *)
(* query definitively; handlers run on and the wire delivers or loses.     *)
(***************************************************************************)
Definitive(w) == Query(w, "submitted") \/ Query(w, "rejected")
Concludes(w) == FinalizeRecovered(w) /\ res[w] # "submission_unknown"

Fairness ==
    /\ WF_vars(Tick)
    /\ WF_vars(Broker)
    /\ \A w \in Workers :
          /\ WF_vars(pc[w] # "idle" /\ (SubmitStep(w) \/ RecoverStep(w)))
          /\ SF_vars(\E o \in Orders : Claim(w, o))
          /\ SF_vars(Definitive(w))
          /\ SF_vars(Concludes(w))

FairSpec == Spec /\ Fairness

\* An intent whose outcome is open, its handler crashed anywhere between
\* prepare and finalize or its answer lost, gets an outcome.
RecoveryConverges ==
    \A o \in Orders :
        intent[o] \in {"prepared", "submission_unknown"}
            ~> intent[o] \in {"submitted", "rejected"}
=============================================================================
