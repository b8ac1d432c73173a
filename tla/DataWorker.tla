----------------------------- MODULE DataWorker -----------------------------
(***************************************************************************)
(* The data worker: the loop that plans, claims and attends market data    *)
(* jobs, the thread that executes one of them against the providers, and   *)
(* the observation opt-in whose generation fences the jobs queued for it.  *)
(*                                                                         *)
(* A loop pass visits the stages in order and waits in each for the job it *)
(* claimed there.  The thread validates, reserves and makes the provider   *)
(* calls, and publishes; the loop renews the lease meanwhile, and reports  *)
(* the outcome.  The thread cannot be cancelled: when the execution is     *)
(* aborted the process exits, and the thread may take a last step before.  *)
(*                                                                         *)
(* Datasets, calendars and provider answers are reduced to whether they    *)
(* were published and how the call ended.  The daily inputs of the         *)
(* observation are one (date, basket), planned anew under each generation. *)
(***************************************************************************)
EXTENDS JobQueue, Sequences

CONSTANTS
    Deployments,    \* what is run: one of these, chosen in Init
    Timeout,        \* execution timeout
    MaxGen,         \* bound: times the opt-in is configured
    MaxCrashes      \* bound: times a worker process dies

\* A job of kind "none" is not part of the deployment.
Kinds == {"calendar", "action", "verified", "collection", "none"}

\* A deployment: the kind of every job and the opt-in generation its payload
\* is granted under (0: none), the worker processes there are, and how many
\* times one of them dies.
DeploymentSpace ==
    [payload : [Jobs -> [kind : Kinds, gen : 0..MaxGen]],
     fleet : SUBSET Workers,
     crashes : 0..MaxCrashes]

\* A generation plans its daily input once.
PlansOnce(d) ==
    \A j, k \in Jobs :
        /\ d.payload[j].kind = "verified" /\ d.payload[j].gen # 0
        /\ d.payload[k] = d.payload[j]
        => j = k

ASSUME WorkerAssumption ==
    /\ IsFiniteSet(Workers)
    /\ \A d \in Deployments : PlansOnce(d)
    /\ Timeout \in Nat \ {0} /\ MaxGen \in Nat \ {0}
    /\ MaxCrashes \in Nat
    /\ Deployments \subseteq DeploymentSpace

VARIABLES
    deployment, \* what is run
    today,      \* is the calendar job's day still the current one?
    optIn,      \* generation of the observation policy, 0: not opted in
    lastGen,    \* generations issued so far
    \* the worker processes
    stage,      \* where the loop is, "down": no process
    stale,      \* age of the loop's clock reading
    job,        \* the job it attends
    attempt,    \* the attempt of its lease
    work,       \* where the execution's thread is
    left,       \* time left until the execution's timeout
    pending,    \* job ids of the preparation report, not yet claimed
    plan,       \* the generation a preparation works for, 0: none
    reused,     \* did the preparation find a result of another generation?
    busy,       \* forward_claimed: this pass claimed a forward input
    \* history
    crashes,    \* processes that died
    published,  \* jobs whose result is published
    called      \* calls made under a reservation of the current day

prepareVars == <<pending, plan, reused, busy>>
policyVars == <<optIn, lastGen>>
executionVars == <<job, attempt, work, left>>
workerVars == <<stage, stale, executionVars>>
historyVars == <<crashes, published, called>>
vars == <<queueVars, deployment, today, policyVars, workerVars, prepareVars,
          historyVars>>

Outcomes == {"published", "deferred", "unavailable", "error", "fatal",
             "stopped"}
Stages == {"down", "idle", "calendar", "plan", "action", "policies",
           "prior", "enqueue", "report", "forward", "collection", "verified", "exiting"}

Payload(j) == deployment.payload[j]
OfKind(k) == {j \in Jobs : Payload(j).kind = k}
Observed == {j \in Jobs : Payload(j).gen # 0}
DailyOf(g) == {j \in OfKind("verified") : Payload(j).gen = g}

TypeOK ==
    /\ QueueTypeOK
    /\ deployment \in Deployments
    /\ today \in BOOLEAN
    /\ optIn \in 0..MaxGen /\ lastGen \in optIn..MaxGen
    /\ stage \in [Workers -> Stages]
    /\ stale \in [Workers -> 0..MaxStale]
    /\ job \in [Workers -> Jobs \union {NoJob}]
    /\ attempt \in [Workers -> Nat]
    /\ work \in [Workers -> {"none", "start", "permit", "old permit",
                             "captured", "ready"} \union Outcomes]
    /\ left \in [Workers -> 0..Timeout]
    /\ pending \in [Workers -> SUBSET Jobs]
    /\ plan \in [Workers -> 0..MaxGen]
    /\ reused \in [Workers -> BOOLEAN]
    /\ busy \in [Workers -> BOOLEAN]
    /\ crashes \in 0..MaxCrashes
    /\ published \in SUBSET Jobs
    /\ called \in Nat

Init ==
    /\ QueueInit
    /\ deployment \in Deployments
    /\ today = TRUE
    /\ optIn = 0 /\ lastGen = 0
    /\ stage = [w \in Workers |-> "down"]
    /\ stale = [w \in Workers |-> 0]
    /\ job = [w \in Workers |-> NoJob]
    /\ attempt = [w \in Workers |-> 0]
    /\ work = [w \in Workers |-> "none"]
    /\ left = [w \in Workers |-> 0]
    /\ pending = [w \in Workers |-> {}]
    /\ plan = [w \in Workers |-> 0]
    /\ reused = [w \in Workers |-> FALSE]
    /\ busy = [w \in Workers |-> FALSE]
    /\ crashes = 0 /\ published = {} /\ called = 0

-----------------------------------------------------------------------------
(* The loop *)

\* The stages of a pass, in order; one without jobs of its kind only claims
\* nothing, and is passed over.
Pass == <<"calendar", "plan", "action", "policies", "collection", "verified">>

Present(s) ==
    CASE s = "calendar"   -> OfKind("calendar") # {} /\ today
      [] s = "plan"       -> OfKind("collection") # {}
      [] s = "action"     -> OfKind("action") # {}
      [] s = "policies"   -> Observed # {}
      [] s = "collection" -> OfKind("collection") # {}
      [] s = "verified"   -> OfKind("verified") # {}

FirstStage(i) ==
    LET later == {k \in i..Len(Pass) : Present(Pass[k])}
    IN  IF later = {} THEN "idle"
        ELSE Pass[CHOOSE k \in later : \A m \in later : k <= m]

After(s) == FirstStage(1 + CHOOSE k \in 1..Len(Pass) : Pass[k] = s)

GoTo(w, s) == stage' = [stage EXCEPT ![w] = s]

\* The supervisor starts the worker process again.
Start(w) ==
    /\ stage[w] = "down" /\ w \in deployment.fleet
    /\ GoTo(w, "idle")
    /\ UNCHANGED <<queueVars, deployment, today, policyVars, stale,
                   executionVars, prepareVars, historyVars>>

\* A pass reads the clock once, and plans today's calendar job with it.
BeginPass(w) ==
    /\ stage[w] = "idle"
    /\ GoTo(w, FirstStage(1))
    /\ stale' = [stale EXCEPT ![w] = 0]
    /\ IF today THEN Enqueue(OfKind("calendar")) ELSE UNCHANGED queueVars
    /\ UNCHANGED <<deployment, today, policyVars, executionVars, prepareVars,
                   historyVars>>

PlanCollection(w) ==
    /\ stage[w] = "plan"
    /\ GoTo(w, After("plan"))
    /\ Enqueue(OfKind("collection"))
    /\ UNCHANGED <<deployment, today, policyVars, stale, executionVars,
                   prepareVars, historyVars>>

\* claim(), and the execution it starts.
ClaimFor(w, S, age, next) ==
    LET j == Claimed(S, age)
    IN  /\ Claim(S, w, age)
        /\ IF j = NoJob
           THEN GoTo(w, next) /\ UNCHANGED executionVars
           ELSE /\ job' = [job EXCEPT ![w] = j]
                /\ attempt' = [attempt EXCEPT ![w] = row[j].attempt + 1]
                /\ work' = [work EXCEPT ![w] = "start"]
                /\ left' = [left EXCEPT ![w] = Timeout]
                /\ UNCHANGED stage

\* The calendar and the corporate action claims use the reading of the clock
\* made when the pass began, the other ones a fresh one.
ClaimAge(w) == IF stage[w] \in {"calendar", "action"} THEN stale[w] ELSE 0

ClaimInStage(w) ==
    /\ stage[w] \in {"calendar", "action", "collection", "verified"}
    /\ work[w] = "none"
    /\ ClaimFor(w, OfKind(stage[w]), ClaimAge(w), After(stage[w]))
    /\ UNCHANGED <<deployment, today, policyVars, stale, prepareVars,
                   historyVars>>

-----------------------------------------------------------------------------
(* The preparation of an observation's inputs *)

ReadPolicy(w) ==
    /\ stage[w] = "policies"
    /\ plan' = [plan EXCEPT ![w] = optIn]
    /\ GoTo(w, IF optIn = 0 THEN After("policies") ELSE "prior")
    /\ UNCHANGED <<queueVars, deployment, today, policyVars, stale,
                   executionVars, pending, reused, busy, historyVars>>

\* A job of an earlier generation, or of none, that succeeded is reused.
ReadPrior(w) ==
    /\ stage[w] = "prior"
    /\ reused' = [reused EXCEPT ![w] =
                    \/ DailyOf(plan[w]) = {}
                    \/ \E j \in OfKind("verified") :
                          row[j].status = "succeeded"]
    /\ GoTo(w, "enqueue")
    /\ UNCHANGED <<queueVars, deployment, today, policyVars, stale,
                   executionVars, pending, plan, busy, historyVars>>

\* Under the write lock, if the generation is still the one read: the daily
\* jobs, or, once they succeeded, the corporate action days.
EnqueueInputs(w) ==
    LET daily == DailyOf(plan[w])
        days == {j \in OfKind("action") : Payload(j).gen = plan[w]}
        open == {j \in daily : row[j].status # "succeeded"}
    IN  /\ stage[w] = "enqueue"
        /\ \/ /\ optIn = plan[w] /\ ~reused[w]
              /\ Enqueue(daily)
              /\ pending' = [pending EXCEPT ![w] = open]
              /\ reused' = [reused EXCEPT ![w] = open = {}]
              /\ GoTo(w, IF open = {} THEN "enqueue" ELSE "report")
           \/ /\ optIn = plan[w] /\ reused[w]
              /\ Enqueue(days)
              /\ GoTo(w, "report")
              /\ UNCHANGED <<pending, reused>>
           \/ /\ optIn # plan[w]
              /\ GoTo(w, "report")
              /\ UNCHANGED <<queueVars, pending, reused>>
        /\ UNCHANGED <<deployment, today, policyVars, stale, executionVars,
                       plan, busy, historyVars>>

\* record_observation_automation_status(): the report of a generation that
\* was replaced meanwhile is dropped, its pending jobs with it.
RecordReport(w) ==
    /\ stage[w] = "report"
    /\ pending' = [pending EXCEPT ![w] = IF optIn = plan[w] THEN @ ELSE {}]
    /\ plan' = [plan EXCEPT ![w] = 0]
    /\ reused' = [reused EXCEPT ![w] = FALSE]
    /\ GoTo(w, "forward")
    /\ UNCHANGED <<queueVars, deployment, today, policyVars, stale,
                   executionVars, busy, historyVars>>

ClaimForward(w) ==
    /\ stage[w] = "forward" /\ work[w] = "none"
    /\ \E j \in pending[w] :
          /\ pending' = [pending EXCEPT ![w] = @ \ {j}]
          /\ ClaimFor(w, {j}, 0, "forward")
          /\ busy' = [busy EXCEPT ![w] = @ \/ Claimed({j}, 0) # NoJob]
    /\ UNCHANGED <<deployment, today, policyVars, stale, plan, reused,
                   historyVars>>

\* A pass that claimed a forward input claims no historical one, nor does one
\* that holds the budget for a trading session whose inputs are not all
\* closed yet (reserve_forward_budget).
EndForward(w, hold) ==
    /\ stage[w] = "forward" /\ work[w] = "none"
    /\ pending[w] = {}
    /\ busy' = [busy EXCEPT ![w] = FALSE]
    /\ GoTo(w, IF busy[w] \/ hold THEN "idle" ELSE After("policies"))
    /\ UNCHANGED <<queueVars, deployment, today, policyVars, stale,
                   executionVars, pending, plan, reused, historyVars>>

-----------------------------------------------------------------------------
(* The execution's thread *)

Holds(w) == HoldsLease(job[w], w, attempt[w])

\* The grant of a job is current: its generation is the opted in one.
Granted(j) == Payload(j).gen \in {0, optIn}

Aborted(w) == stage[w] = "exiting"

ThreadAt(w, places) == work[w] \in places

Advance(w, place) ==
    /\ work' = [work EXCEPT ![w] = place]
    /\ UNCHANGED <<deployment, today, policyVars, stage, stale, job, attempt,
                   left, prepareVars, crashes>>

\* run_due() of a calendar job, which is refused on a later day.  Its
\* publication names the lease in its own transaction.
RunCalendar(w) ==
    /\ ThreadAt(w, {"start"})
    /\ Payload(job[w]).kind = "calendar"
    /\ \/ today /\ Advance(w, "ready")
       \/ today /\ Advance(w, "error")
       \/ Advance(w, "fatal")
    /\ UNCHANGED <<queueVars, published, called>>

\* before_provider_fetch: revalidate, then reserve the call.
ReserveCall(w) ==
    LET j == job[w]
    IN  /\ ThreadAt(w, {"start"})
        /\ Payload(j).kind # "calendar"
        /\ \/ /\ Aborted(w)
              /\ Advance(w, "stopped") /\ UNCHANGED queueVars
           \/ /\ ~Aborted(w) /\ ~(Granted(j) /\ Holds(w))
              /\ Advance(w, "error") /\ UNCHANGED queueVars
           \/ /\ ~Aborted(w) /\ Granted(j) /\ Holds(w)
              /\ Defer(j)
              /\ Advance(w, "deferred")
           \/ /\ ~Aborted(w) /\ Granted(j) /\ Holds(w)
              /\ CountCall
              /\ Advance(w, "permit")
        /\ UNCHANGED <<published, called>>

\* Faulty: a second call is made under the reservation of the first one.
CallAgain(w) ==
    /\ ThreadAt(w, {"permit", "old permit"})
    /\ called' = IF work[w] = "permit" THEN called + 1 ELSE called
    /\ \E place \in {work[w], "captured", "unavailable", "error", "fatal"} :
          /\ place = "unavailable" => Payload(job[w]).kind = "verified"
          /\ Advance(w, place)
    /\ UNCHANGED <<queueVars, published>>

\* The call: another one follows, the capture is complete, or it failed.  Only
\* a verified dataset tells an unavailable source from another failure.
CallProvider(w) ==
    /\ ThreadAt(w, {"permit", "old permit"})
    /\ called' = IF work[w] = "permit" THEN called + 1 ELSE called
    /\ \E place \in {"start", "captured", "unavailable", "error", "fatal"} :
          /\ place = "unavailable" => Payload(job[w]).kind = "verified"
          /\ Advance(w, place)
    /\ UNCHANGED <<queueVars, published>>

\* before_publish: not aborted, the lease renewed, the request current.
BeforePublish(w) ==
    LET j == job[w]
    IN  /\ ThreadAt(w, {"captured"})
        /\ \/ /\ Aborted(w) \/ ~Holds(w)
              /\ Advance(w, "stopped") /\ UNCHANGED queueVars
           \/ /\ ~Aborted(w) /\ Holds(w)
              /\ Heartbeat(j)
              /\ Advance(w, IF Granted(j) THEN "ready" ELSE "error")
        /\ UNCHANGED <<published, called>>

\* Faulty: the grant is not checked again under the lock.
PublishValidated(w) ==
    /\ ThreadAt(w, {"ready"})
    /\ published' = published \union {job[w]}
    /\ Advance(w, "published")
    /\ UNCHANGED <<queueVars, called>>

\* A granted dataset is published under the opt-in's write lock, and a
\* calendar under its lease.  The others are published as they are, though
\* the lease may have gone and the execution may have been aborted since.
Publish(w) ==
    LET j == job[w]
        fenced == Payload(j).kind = "verified" /\ Payload(j).gen # 0
        admitted == CASE fenced -> Granted(j) /\ ~Aborted(w)
                      [] Payload(j).kind = "calendar" -> Holds(w)
                      [] OTHER -> TRUE
    IN  /\ ThreadAt(w, {"ready"})
        /\ published' = IF admitted THEN published \union {j} ELSE published
        /\ Advance(w, IF admitted THEN "published" ELSE "error")
        /\ UNCHANGED <<queueVars, called>>

-----------------------------------------------------------------------------
(* The loop attending the execution *)

Attending(w) == work[w] # "none" /\ stage[w] # "exiting"

\* The execution is over for the loop.
Leave(w, next) ==
    /\ GoTo(w, next)
    /\ job' = [job EXCEPT ![w] = NoJob]
    /\ attempt' = [attempt EXCEPT ![w] = 0]
    /\ work' = [work EXCEPT ![w] = "none"]
    /\ left' = [left EXCEPT ![w] = 0]

NextStage(w) == IF stage[w] = "forward" THEN "forward" ELSE After(stage[w])

RenewLease(w) ==
    /\ Attending(w) /\ Holds(w)
    /\ Heartbeat(job[w])
    /\ UNCHANGED <<deployment, today, policyVars, workerVars, prepareVars,
                   historyVars>>

\* The deadline passed or a heartbeat found the lease gone: the failure is
\* reported if the lease is still held, and the process exits.
Abort(w) ==
    /\ Attending(w)
    /\ (left[w] = 0 /\ work[w] \notin Outcomes) \/ ~Holds(w)
    /\ IF Holds(w) THEN Fail(job[w], TRUE, FALSE) ELSE UNCHANGED queueVars
    /\ GoTo(w, "exiting")
    /\ UNCHANGED <<deployment, today, policyVars, stale, executionVars,
                   prepareVars, historyVars>>

\* The reservation transaction has put the job back already.  No other
\* forward input is tried in this pass.
SettleDeferred(w) ==
    /\ Attending(w) /\ work[w] = "deferred"
    /\ pending' = [pending EXCEPT ![w] = {}]
    /\ Leave(w, NextStage(w))
    /\ UNCHANGED <<queueVars, deployment, today, policyVars, stale, plan,
                   reused, busy, historyVars>>

\* Faulty: the grant of a job is not checked when it is completed.
FinishableByLease(w) == Holds(w)

\* finish(), with the grant checked in its transaction.  A refused finish is
\* an error of the execution.
Finishable(w) ==
    /\ Holds(w)
    /\ Payload(job[w]).kind \in {"verified", "action"} => Granted(job[w])

\* Faulty: the job is completed as soon as its result has an identity.
SettleIdentified(w) ==
    /\ Attending(w) /\ work[w] \in {"ready", "published"}
    /\ IF Finishable(w)
       THEN Finish(job[w]) /\ Leave(w, NextStage(w))
       ELSE /\ work' = [work EXCEPT ![w] = "error"]
            /\ UNCHANGED <<queueVars, stage, job, attempt, left>>
    /\ UNCHANGED <<deployment, today, policyVars, stale, prepareVars,
                   historyVars>>

SettlePublished(w) ==
    /\ Attending(w) /\ work[w] = "published"
    /\ IF Finishable(w)
       THEN Finish(job[w]) /\ Leave(w, NextStage(w))
       ELSE /\ work' = [work EXCEPT ![w] = "error"]
            /\ UNCHANGED <<queueVars, stage, job, attempt, left>>
    /\ UNCHANGED <<deployment, today, policyVars, stale, prepareVars,
                   historyVars>>

\* fail(), which a lost lease refuses.  A thread that found the lease gone
\* ends the process.
SettleFailed(w) ==
    /\ Attending(w)
    /\ work[w] \in {"unavailable", "error", "fatal", "stopped"}
    /\ IF Holds(w) THEN Fail(job[w], work[w] # "fatal",
                             work[w] = "unavailable")
                   ELSE UNCHANGED queueVars
    /\ IF work[w] = "stopped"
       THEN GoTo(w, "exiting") /\ UNCHANGED executionVars
       ELSE Leave(w, NextStage(w))
    /\ UNCHANGED <<deployment, today, policyVars, stale, prepareVars,
                   historyVars>>

\* The process ends, its thread with it.
Down(w) ==
    /\ Leave(w, "down")
    /\ stale' = [stale EXCEPT ![w] = 0]
    /\ pending' = [pending EXCEPT ![w] = {}]
    /\ plan' = [plan EXCEPT ![w] = 0]
    /\ reused' = [reused EXCEPT ![w] = FALSE]
    /\ busy' = [busy EXCEPT ![w] = FALSE]
    /\ UNCHANGED <<queueVars, deployment, today, policyVars, published, called>>

Exit(w) == stage[w] = "exiting" /\ Down(w) /\ UNCHANGED crashes

Crash(w) ==
    /\ stage[w] # "down" /\ crashes < deployment.crashes
    /\ crashes' = crashes + 1
    /\ Down(w)

-----------------------------------------------------------------------------
(* The operator, the API and time *)

\* configure_observation_automation(): every change is a new generation.
Configure(on) ==
    /\ Observed # {} /\ lastGen < MaxGen
    /\ lastGen' = lastGen + 1
    /\ optIn' = IF on THEN lastGen + 1 ELSE 0
    /\ UNCHANGED <<queueVars, deployment, today, workerVars, prepareVars,
                   historyVars>>

EnqueueVerified(j) ==
    /\ Payload(j).kind = "verified" /\ Payload(j).gen = 0
    /\ row[j].status = "absent"
    /\ Enqueue({j})
    /\ UNCHANGED <<deployment, today, policyVars, workerVars, prepareVars,
                   historyVars>>

Stop(j) ==
    /\ StopQueued(j)
    /\ UNCHANGED <<deployment, today, policyVars, workerVars, prepareVars,
                   historyVars>>

\* The age of the reading matters until the last claim made with it.
Reading(w) == stage[w] \in {"calendar", "plan", "action"}

Tick ==
    /\ PassTick
    /\ stale' = [w \in Workers |->
                   IF Reading(w) /\ stale[w] < MaxStale THEN stale[w] + 1
                                                        ELSE stale[w]]
    /\ left' = [w \in Workers |-> IF left[w] > 0 THEN left[w] - 1 ELSE 0]
    /\ UNCHANGED <<deployment, today, policyVars, stage, job, attempt, work,
                   prepareVars, historyVars>>

\* The calendar job of the day is not the current one any more.
Midnight ==
    /\ PassMidnight
    /\ today' = (today /\ OfKind("calendar") = {})
    /\ work' = [w \in Workers |->
                  IF work[w] = "permit" THEN "old permit" ELSE work[w]]
    /\ called' = 0
    /\ UNCHANGED <<deployment, policyVars, stage, stale, job, attempt, left,
                   prepareVars, crashes, published>>

-----------------------------------------------------------------------------
Prepare(w) ==
    \/ ReadPolicy(w) \/ ReadPrior(w) \/ EnqueueInputs(w) \/ RecordReport(w)
    \/ ClaimForward(w) \/ (\E hold \in BOOLEAN : EndForward(w, hold))

Loop(w) ==
    \/ Start(w) \/ BeginPass(w) \/ PlanCollection(w)
    \/ ClaimInStage(w) \/ Prepare(w)

Thread(w) ==
    \/ RunCalendar(w) \/ ReserveCall(w) \/ CallProvider(w)
    \/ BeforePublish(w) \/ Publish(w)

Attend(w) ==
    \/ Abort(w) \/ SettleDeferred(w) \/ SettlePublished(w)
    \/ SettleFailed(w) \/ Exit(w)

Next ==
    \/ \E w \in Workers : Loop(w) \/ Attend(w) \/ Thread(w)
                         \/ RenewLease(w) \/ Crash(w)
    \/ \E on \in BOOLEAN : Configure(on)
    \/ \E j \in Jobs : EnqueueVerified(j) \/ Stop(j)
    \/ Tick
    \/ Midnight

\* The supervisor restarts a dead worker, the loop polls, it answers an
\* outcome, a lost lease and the deadline, and time passes.  Nothing is
\* assumed of the thread: a provider call may hang.  A pass that does not
\* hold the budget for the observation comes again and again, as not every
\* day is a trading day.
Fairness ==
    /\ WF_vars(Tick) /\ WF_vars(Midnight)
    /\ \A w \in Workers :
          /\ WF_vars(Loop(w) \/ Attend(w))
          /\ SF_vars(EndForward(w, FALSE))

Spec == Init /\ [][Next]_vars /\ Fairness

-----------------------------------------------------------------------------
(* Properties *)

\* Every provider call was counted before it was made and a count is used
\* once: the calls of a day and the threads about to make one under that
\* day's budget never exceed the reservations, nor these the limit, whatever
\* crashes, times out or is run twice (market_daily_call_budget.py:34-120).
CallsCounted ==
    /\ called + Cardinality({w \in Workers : work[w] = "permit"}) <= used
    /\ used <= Limit

\* A job that succeeded has its result in the catalog, though publication and
\* completion are two steps that a crash, an abort or another worker's claim
\* may separate (data_worker.py:680-713).
SucceededIsPublished ==
    \A j \in Jobs : row[j].status = "succeeded" => j \in published

\* One daily input of an observation is not completed under two generations
\* of its opt-in: the plan of a new one reuses what the old one completed,
\* and an execution of the old one that is still running cannot complete
\* any more (research_observation_data_preparation.py:407-468).
InputCompletedOnce ==
    \A j, k \in OfKind("verified") \intersect Observed :
        /\ row[j].status = "succeeded" /\ row[k].status = "succeeded"
        => j = k

\* No dataset is published for an observation under a generation that is not
\* the opted in one at that moment, though the thread validated its grant
\* some time before (automation_runs.py:365-382).
PublishedUnderGrant ==
    [][\A j \in published' \ published :
          Payload(j).kind = "verified" => Granted(j)]_vars

\* No job is given a claim slot back in this step.
NothingGivenBack == \A j \in Jobs : row'[j].max = row[j].max

\* Where sources are unavailable or the budget is spent only finitely often,
\* every job but a calendar one ends, succeeded or failed, whatever hangs,
\* crashes or is revoked: no row waits or runs for ever.  A job whose source
\* stays unavailable is given its slot back and queued again without end
\* (data_worker.py:733-740), and so is one that finds the budget spent every
\* time (market_daily_call_budget.py:76-94).  (The calendar job of a past day
\* is claimed by nobody, and may stay as it is.)
JobsEnd ==
    <>[][NothingGivenBack]_vars =>
        \A j \in Jobs : []<>(\/ Payload(j).kind = "calendar"
                              \/ row[j].status \notin {"queued", "running"})
=============================================================================
