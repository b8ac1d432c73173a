------------------------- MODULE ResearchWorkerJobs -------------------------
(***************************************************************************)
(* The durable job of the isolated shadow-research worker: enqueue, lease, *)
(* takeover, the fence around a blocking provider call, and recovery.      *)
(*                                                                         *)
(* One job is one row of automation_runs for one off-peak segment, whose   *)
(* end is its deadline.  Worker processes poll it; a claim starts an       *)
(* execution, named by its lease generation.  An execution has a main part *)
(* (claim, heartbeat, commit), attended by the worker's loop, and a thread *)
(* (the research and its provider calls) that cannot be cancelled: when    *)
(* the lease is lost the loop goes on without it.  A database step is one  *)
(* transaction and one action, its clock reading in the same tick.         *)
(*                                                                         *)
(* The research itself is whether it calls the provider again and how it   *)
(* ends; the contents of prompts, drafts and results are left out.         *)
(***************************************************************************)
EXTENDS Integers, FiniteSets

CONSTANTS
    Workers,        \* worker processes, the lease owners
    NoWorker,       \* the owner of a row that is not leased
    Schedulers,     \* concurrent calls of enqueue_if_authorized() in the API
    Deadline,       \* deadline_at, in ticks after the start of the segment
    Lease,          \* lease_seconds
    Timeout,        \* the provider call's total timeout
    SendRunway,     \* Timeout and its completion guard
    Runway,         \* SHADOW_RESEARCH_MINIMUM_OFF_PEAK_RUNWAY_SECONDS
    Backoff,        \* delay of a retry, of either kind
    Cooldown,       \* AI_SHADOW_RESEARCH_RECOVERY_COOLDOWN_SECONDS
    MaxFailures,    \* AI_SHADOW_RESEARCH_WORKER_MAX_RUNTIME_ATTEMPTS
    MaxRecoveries,  \* AI_SHADOW_RESEARCH_MAX_RECOVERY_ATTEMPTS
    MaxGen,         \* bound: claims of the job
    PromptSends     \* does a call leave in the tick it was registered in?

ASSUME NoWorkerAssumption == NoWorker \notin Workers
ASSUME TimesAssumption ==
    /\ Deadline \in Nat \ {0} /\ Lease \in Nat \ {0} /\ Timeout \in Nat \ {0}
    /\ SendRunway \in Nat /\ SendRunway >= Timeout
    /\ Runway \in Nat /\ Backoff \in Nat /\ Cooldown \in Nat
ASSUME BoundsAssumption ==
    /\ MaxFailures \in Nat \ {0} /\ MaxRecoveries \in Nat \ {0}
    /\ MaxGen \in Nat
ASSUME PromptSendsAssumption == PromptSends \in BOOLEAN
ASSUME SchedulersAssumption == IsFiniteSet(Schedulers)

VARIABLES
    now,            \* the clock, up to Deadline
    \* the row
    status,         \* automation_runs.status, "absent": no row
    available,      \* available_at, read while the row is pending
    generation,     \* lease_generation
    owner,          \* lease_owner
    leaseUntil,     \* lease_expires_at, 0: none
    flight,         \* generation in provider_in_flight, 0: none
    flightUntil,    \* its fenced_until
    failures,       \* failure_attempt_count
    recoveries,     \* recovery_count
    failedAt,       \* updated_at of a failed row
    \* the owner's controls
    paused,         \* the policy row is disabled
    killSwitch,     \* runtime_controls kill_switch.enabled
    killSeen,       \* each worker's own copy of it, read at its start
    \* the executions, by generation
    phase,          \* where the execution is
    by,             \* the worker it runs in
    until,          \* the total timeout of its call in progress
    \* the processes
    attended,       \* the execution a worker's loop waits for, 0: it polls
    seenAt,         \* when a scheduler saw a recoverable row, -1: it did not
    \* history
    pauseCalls,     \* calls made since the policy was disabled
    killCalls       \* calls made since the kill switch row was enabled

leaseVars == <<generation, owner, leaseUntil>>
flightVars == <<flight, flightUntil>>
countVars == <<failures, recoveries, failedAt>>
rowVars == <<status, available, leaseVars, flightVars, countVars>>
controlVars == <<paused, killSwitch, killSeen>>
executionVars == <<phase, by, until, attended>>
historyVars == <<pauseCalls, killCalls>>

vars == <<now, rowVars, controlVars, executionVars, seenAt, historyVars>>

Statuses == {"absent", "pending", "leased", "completed", "failed", "expired"}
Generations == 1..MaxGen

\* From its registration on, a call is announced to other workers.
Calling == {"registered", "cleared", "sending"}
\* The part of an execution that runs while the heartbeat renews the lease.
InThread == Calling \cup {"running", "entering", "answered", "finished"}
Outcomes == {"completed", "waiting", "failed", "fatal"}
Phases == InThread \cup Outcomes \cup {"none", "claimed", "over"}

\* The row, the executions and the clock keep values the code can store.
TypeOK ==
    /\ now \in 0..Deadline
    /\ status \in Statuses
    /\ available \in Nat
    /\ generation \in 0..MaxGen
    /\ owner \in Workers \cup {NoWorker}
    /\ leaseUntil \in 0..Deadline
    /\ flight \in 0..MaxGen
    /\ flightUntil \in 0..Deadline
    /\ failures \in Nat
    /\ recoveries \in Nat
    /\ failedAt \in 0..Deadline
    /\ paused \in BOOLEAN
    /\ killSwitch \in BOOLEAN
    /\ killSeen \in [Workers -> BOOLEAN]
    /\ phase \in [Generations -> Phases]
    /\ by \in [Generations -> Workers \cup {NoWorker}]
    /\ until \in [Generations -> Nat]
    /\ attended \in [Workers -> 0..MaxGen]
    /\ seenAt \in [Schedulers -> -1..Deadline]
    /\ pauseCalls \in 0..2
    /\ killCalls \in 0..2

Init ==
    /\ now = 0
    /\ status = "absent" /\ available = 0
    /\ generation = 0 /\ owner = NoWorker /\ leaseUntil = 0
    /\ flight = 0 /\ flightUntil = 0
    /\ failures = 0 /\ recoveries = 0 /\ failedAt = 0
    /\ paused = FALSE /\ killSwitch = FALSE
    /\ killSeen = [w \in Workers |-> FALSE]
    /\ phase = [g \in Generations |-> "none"]
    /\ by = [g \in Generations |-> NoWorker]
    /\ until = [g \in Generations |-> 0]
    /\ attended = [w \in Workers |-> 0]
    /\ seenAt = [s \in Schedulers |-> -1]
    /\ pauseCalls = 0 /\ killCalls = 0

Earlier(a, b) == IF a < b THEN a ELSE b

-----------------------------------------------------------------------------
(***************************************************************************)
(* The scheduler, in the API process: the polling loop and the run-now     *)
(* route, on concurrent threads.                                           *)
(***************************************************************************)
MaySchedule == ~paused /\ ~killSwitch /\ now + Runway < Deadline

\* INSERT OR IGNORE of the segment's job; without the runway the segment is
\* the next one, another row.
Enqueue(s) ==
    /\ seenAt[s] = -1
    /\ MaySchedule
    /\ status = "absent"
    /\ status' = "pending"
    /\ available' = now
    /\ UNCHANGED <<now, leaseVars, flightVars, countVars, controlVars,
                   executionVars, seenAt, historyVars>>

\* Faulty: the number of recoveries is not looked at.
RecoverableUncounted ==
    /\ status = "failed"
    /\ Deadline - now >= Runway
    /\ now - failedAt >= Cooldown

Recoverable ==
    /\ status = "failed"
    /\ Deadline - now >= Runway
    /\ now - failedAt >= Cooldown
    /\ recoveries < MaxRecoveries

\* The row the enqueue found; the decision is taken outside a transaction.
Observe(s) ==
    /\ seenAt[s] = -1
    /\ MaySchedule
    /\ Recoverable
    /\ seenAt' = [seenAt EXCEPT ![s] = now]
    /\ UNCHANGED <<now, rowVars, controlVars, executionVars, historyVars>>

\* Faulty: the recovery transaction does not look at the row again.
RecoverBlindly(s) ==
    /\ seenAt[s] # -1
    /\ seenAt' = [seenAt EXCEPT ![s] = -1]
    /\ status' = "pending"
    /\ available' = seenAt[s]
    /\ failures' = 0
    /\ recoveries' = recoveries + 1
    /\ failedAt' = 0
    /\ UNCHANGED <<now, leaseVars, flightVars, controlVars, executionVars,
                   historyVars>>

\* The recovery transaction looks at the status again, not at the rest.
Recover(s) ==
    /\ seenAt[s] # -1
    /\ seenAt' = [seenAt EXCEPT ![s] = -1]
    /\ IF status = "failed"
       THEN /\ status' = "pending"
            /\ available' = seenAt[s]
            /\ failures' = 0
            /\ recoveries' = recoveries + 1
            /\ failedAt' = 0
       ELSE UNCHANGED <<status, available, countVars>>
    /\ UNCHANGED <<now, leaseVars, flightVars, controlVars, executionVars,
                   historyVars>>

-----------------------------------------------------------------------------
(***************************************************************************)
(* Claim and takeover.                                                     *)
(***************************************************************************)
\* Faulty: an expired lease is taken over whatever its call does.
ClaimableUnfenced ==
    \/ status = "pending" /\ now >= available
    \/ status = "leased" /\ now >= leaseUntil

\* A pending job that is due, or a lease that has run out and whose call, if
\* one is registered, has too.
Claimable ==
    \/ status = "pending" /\ now >= available
    \/ status = "leased" /\ now >= leaseUntil
          /\ (flight # 0 => now >= flightUntil)

Claim(w) ==
    LET g == generation + 1 IN
    /\ attended[w] = 0
    /\ now < Deadline /\ g \in Generations
    /\ Claimable
    /\ status' = "leased"
    /\ available' = 0
    /\ generation' = g
    /\ owner' = w
    /\ leaseUntil' = Earlier(now + Lease, Deadline)
    /\ flight' = 0 /\ flightUntil' = 0
    /\ phase' = [phase EXCEPT ![g] = "claimed"]
    /\ by' = [by EXCEPT ![g] = w]
    /\ attended' = [attended EXCEPT ![w] = g]
    /\ UNCHANGED <<now, countVars, controlVars, until, seenAt, historyVars>>

Release ==
    /\ owner' = NoWorker /\ leaseUntil' = 0
    /\ flight' = 0 /\ flightUntil' = 0

\* Faulty: only a job nobody holds expires.
ExpireUnheld(w) ==
    /\ attended[w] = 0
    /\ now >= Deadline
    /\ status = "pending"
    /\ status' = "expired"
    /\ Release
    /\ UNCHANGED <<now, available, generation, countVars, controlVars,
                   executionVars, seenAt, historyVars>>

\* Faulty: a job is closed as soon as no further call could end in time.
ExpireWithoutWindow(w) ==
    /\ attended[w] = 0
    /\ now + SendRunway >= Deadline
    /\ status \in {"pending", "leased"}
    /\ status' = "expired"
    /\ Release
    /\ UNCHANGED <<now, available, generation, countVars, controlVars,
                   executionVars, seenAt, historyVars>>

\* A poll at or after the deadline closes the job, whoever holds it.
Expire(w) ==
    /\ attended[w] = 0
    /\ now >= Deadline
    /\ status \in {"pending", "leased"}
    /\ status' = "expired"
    /\ Release
    /\ UNCHANGED <<now, available, generation, countVars, controlVars,
                   executionVars, seenAt, historyVars>>

-----------------------------------------------------------------------------
(***************************************************************************)
(* The execution.                                                          *)
(***************************************************************************)
\* The row is leased to this worker, in this very generation, for some time.
Current(g) ==
    /\ status = "leased"
    /\ owner = by[g] /\ generation = g
    /\ now < leaseUntil

\* Faulty: the policy is the one the job was admitted under.
AuthorizedOnce(g) == now < Deadline /\ ~killSeen[by[g]]

\* The policy is read from its row; the kill switch is the process's own copy.
Authorized(g) ==
    /\ now < Deadline
    /\ ~paused
    /\ ~killSeen[by[g]]

MayAct(g) == Current(g) /\ Authorized(g)

InSendWindow == now + SendRunway < Deadline

Goto(g, p) ==
    /\ phase' = [phase EXCEPT ![g] = p]
    /\ UNCHANGED <<by, attended>>

\* The worker's loop goes on to its next poll.
Detached(g) ==
    [w \in Workers |-> IF attended[w] = g THEN 0 ELSE attended[w]]

\* The execution ends, without a trace in the row.
Quit(g) ==
    /\ phase' = [phase EXCEPT ![g] = "over"]
    /\ attended' = Detached(g)
    /\ UNCHANGED by

\* The research ends with a result, if anybody still waits for it.
Conclude(g, outcome) ==
    Goto(g, IF attended[by[g]] = g THEN outcome ELSE "over")

\* Authority and the runway of a whole batch, before a provider is built.
Admit(g) ==
    /\ phase[g] = "claimed"
    /\ Goto(g, IF Authorized(g) /\ now + Runway < Deadline THEN "running"
                                                         ELSE "fatal")
    /\ UNCHANGED <<now, rowVars, controlVars, until, seenAt, historyVars>>

\* Every check of the fence: fenced, deferred, or allowed to go on.
PassGate(g, next) ==
    IF ~MayAct(g) THEN Quit(g)
    ELSE IF InSendWindow THEN Goto(g, next) ELSE Conclude(g, "waiting")

\* The gates before a provider call is registered.
Enter(g) ==
    /\ phase[g] = "running"
    /\ PassGate(g, "entering")
    /\ UNCHANGED <<now, rowVars, controlVars, until, seenAt, historyVars>>

\* Faulty: the lease is not looked at when the call is registered.
BeginSendUnheld(g) ==
    /\ phase[g] = "entering"
    /\ IF flight = 0
       THEN /\ flight' = g
            /\ flightUntil' = Earlier(now + Timeout, Deadline)
            /\ Goto(g, "registered")
       ELSE Quit(g) /\ UNCHANGED flightVars
    /\ UNCHANGED <<now, status, available, leaseVars, countVars, controlVars,
                   until, seenAt, historyVars>>

\* The call is registered before it is made, for as long as it may take.
BeginSend(g) ==
    /\ phase[g] = "entering"
    /\ IF Current(g) /\ flight = 0
       THEN /\ flight' = g
            /\ flightUntil' = Earlier(now + Timeout, Deadline)
            /\ Goto(g, "registered")
       ELSE Quit(g) /\ UNCHANGED flightVars
    /\ UNCHANGED <<now, status, available, leaseVars, countVars, controlVars,
                   until, seenAt, historyVars>>

\* Faulty: the time a call may take is not looked at again.
RecheckWithoutWindow(g) ==
    /\ phase[g] = "registered"
    /\ IF MayAct(g) THEN Goto(g, "cleared") ELSE Quit(g)
    /\ UNCHANGED <<now, rowVars, controlVars, until, seenAt, historyVars>>

\* The gates once more, now that takeover waits; refused, the registration
\* stays in the row.
Recheck(g) ==
    /\ phase[g] = "registered"
    /\ PassGate(g, "cleared")
    /\ UNCHANGED <<now, rowVars, controlVars, until, seenAt, historyVars>>

CountIf(condition, n) == IF condition /\ n < 2 THEN n + 1 ELSE n

\* The transport's total timeout starts with the call itself.
Send(g) ==
    /\ phase[g] = "cleared"
    /\ Goto(g, "sending")
    /\ until' = [until EXCEPT ![g] = now + Timeout]
    /\ pauseCalls' = CountIf(paused, pauseCalls)
    /\ killCalls' = CountIf(killSwitch, killCalls)
    /\ UNCHANGED <<now, rowVars, controlVars, seenAt>>

\* A response, an error or the timeout.
Answer(g) ==
    /\ phase[g] = "sending"
    /\ Goto(g, "answered")
    /\ until' = [until EXCEPT ![g] = 0]
    /\ UNCHANGED <<now, rowVars, controlVars, seenAt, historyVars>>

\* The registration is cleared by its own, still current generation only; the
\* answer of any other is dropped.
FinishSend(g) ==
    /\ phase[g] = "answered"
    /\ IF Current(g) /\ flight = g
       THEN /\ flight' = 0 /\ flightUntil' = 0
            /\ Goto(g, "finished")
       ELSE Quit(g) /\ UNCHANGED flightVars
    /\ UNCHANGED <<now, status, available, leaseVars, countVars, controlVars,
                   until, seenAt, historyVars>>

\* The gates after the call: an answer that comes in with too little runway
\* is dropped like one that comes in too late.
Accept(g) ==
    /\ phase[g] = "finished"
    /\ IF MayAct(g) /\ InSendWindow THEN Goto(g, "running") ELSE Quit(g)
    /\ UNCHANGED <<now, rowVars, controlVars, until, seenAt, historyVars>>

\* The research ends by itself, with or without having called.
Result(g, outcome) ==
    /\ phase[g] = "running"
    /\ Conclude(g, outcome)
    /\ UNCHANGED <<now, rowVars, controlVars, until, seenAt, historyVars>>

-----------------------------------------------------------------------------
(***************************************************************************)
(* Commit and heartbeat, by the worker's loop.                             *)
(***************************************************************************)
Reschedule(next, count) ==
    /\ status' = IF next < Deadline THEN "pending" ELSE "expired"
    /\ available' = Earlier(next, Deadline)
    /\ failures' = count
    /\ UNCHANGED failedAt

Finish(s) ==
    /\ status' = s
    /\ failedAt' = IF s = "failed" THEN now ELSE 0
    /\ UNCHANGED <<available, failures>>

Retryable == failures + 1 < MaxFailures /\ Deadline - now >= Runway

Dispose(outcome) ==
    \/ outcome = "completed" /\ Finish("completed")
    \/ /\ outcome = "waiting"
       /\ \E next \in {now + Backoff, Deadline} : Reschedule(next, 0)
    \/ /\ outcome = "failed" /\ Retryable
       /\ Reschedule(Earlier(now + Backoff, Deadline), failures + 1)
    \/ /\ outcome = "fatal" \/ (outcome = "failed" /\ ~Retryable)
       /\ Finish("failed")

Committable(g) == Current(g) /\ flight = 0

\* A result is published by the current generation with no call registered;
\* otherwise the lease is lost and the row left to the next claim.
Commit(g) ==
    /\ phase[g] \in Outcomes
    /\ IF Committable(g)
       THEN /\ Dispose(phase[g])
            /\ Release
       ELSE UNCHANGED <<status, available, owner, leaseUntil, flightVars,
                        failures, failedAt>>
    /\ Quit(g)
    /\ UNCHANGED <<now, generation, recoveries, controlVars, until, seenAt,
                   historyVars>>

\* A transaction or a read of the execution is unavailable (rolled back): an
\* error result of the research, a registration it leaves behind included, or
\* a commit that does not happen.
Unavailable(g) ==
    /\ \/ phase[g] \in {"claimed", "entering", "registered", "answered",
                        "finished"}
          /\ Conclude(g, "failed")
       \/ phase[g] \in Outcomes /\ Quit(g)
    /\ UNCHANGED <<now, rowVars, controlVars, until, seenAt, historyVars>>

\* The loop waits for the thread and renews its lease, unless the heartbeat
\* has died of a failed transaction.
Heartbeat(w) ==
    LET g == attended[w] IN
    /\ g # 0 /\ phase[g] \in InThread
    /\ Current(g)
    /\ leaseUntil' = Earlier(now + Lease, Deadline)
    /\ UNCHANGED <<now, status, available, generation, owner, flightVars,
                   countVars, controlVars, executionVars, seenAt, historyVars>>

\* A renewal is refused or the deadline passes: the loop stops waiting, the
\* thread runs on.
Detach(w) ==
    LET g == attended[w] IN
    /\ g # 0 /\ phase[g] \in InThread
    /\ ~Current(g)
    /\ attended' = [attended EXCEPT ![w] = 0]
    /\ UNCHANGED <<now, rowVars, controlVars, phase, by, until, seenAt,
                   historyVars>>

\* The process dies with all its threads; its successor, a new owner of the
\* same place, reads the kill switch.
Crash(w) ==
    /\ phase' = [g \in Generations |-> IF by[g] = w THEN "over" ELSE phase[g]]
    /\ by' = [g \in Generations |-> IF by[g] = w THEN NoWorker ELSE by[g]]
    /\ until' = [g \in Generations |-> IF by[g] = w THEN 0 ELSE until[g]]
    /\ attended' = [attended EXCEPT ![w] = 0]
    /\ killSeen' = [killSeen EXCEPT ![w] = killSwitch]
    /\ UNCHANGED <<now, rowVars, paused, killSwitch, seenAt, historyVars>>

-----------------------------------------------------------------------------
(***************************************************************************)
(* The owner and the clock.                                                *)
(***************************************************************************)
SetPaused(disabled) ==
    /\ paused # disabled
    /\ paused' = disabled
    /\ pauseCalls' = 0
    /\ UNCHANGED <<now, rowVars, killSwitch, killSeen, executionVars, seenAt,
                   killCalls>>

\* Written by the API process; no worker process hears of it.
SetKillSwitch(enabled) ==
    /\ killSwitch # enabled
    /\ killSwitch' = enabled
    /\ killCalls' = 0
    /\ UNCHANGED <<now, rowVars, paused, killSeen, executionVars, seenAt,
                   pauseCalls>>

\* A call ends before its own timeout; with PromptSends no time passes
\* between its registration and the call.
Tick ==
    /\ now < Deadline
    /\ \A g \in Generations : phase[g] = "sending" => now + 1 < until[g]
    /\ PromptSends =>
          \A g \in Generations : phase[g] \notin {"registered", "cleared"}
    /\ now' = now + 1
    /\ UNCHANGED <<rowVars, controlVars, executionVars, seenAt, historyVars>>

-----------------------------------------------------------------------------
ThreadStep(g) ==
    \/ Admit(g) \/ Enter(g) \/ BeginSend(g) \/ Recheck(g) \/ Send(g)
    \/ Answer(g) \/ FinishSend(g) \/ Accept(g)
    \/ \E outcome \in Outcomes : Result(g, outcome)
    \/ Commit(g)

Poll(w) == Claim(w) \/ Expire(w)

Next ==
    \/ \E s \in Schedulers : Enqueue(s) \/ Observe(s) \/ Recover(s)
    \/ \E w \in Workers : Poll(w) \/ Heartbeat(w) \/ Detach(w) \/ Crash(w)
    \/ \E g \in Generations : ThreadStep(g) \/ Unavailable(g)
    \/ \E b \in BOOLEAN : SetPaused(b) \/ SetKillSwitch(b)
    \/ Tick

Spec == Init /\ [][Next]_vars

-----------------------------------------------------------------------------
(***************************************************************************)
(* Safety.                                                                 *)
(***************************************************************************)
\* While a provider call is in progress, its execution detached or not, the
\* row announces it: no takeover, commit, expiry or recovery has touched the
\* row, and at most one call is in progress.
CallsAreAnnounced ==
    \A g \in Generations :
        phase[g] = "sending" =>
            /\ status = "leased" /\ generation = g
            /\ flight = g /\ now < flightUntil

\* After the owner pauses the policy at most one more call leaves.
PauseExposure == pauseCalls <= 1

\* After the kill switch is on at most one more call leaves.
KillExposure == killCalls <= 1

\* A job is recovered MaxRecoveries times, and once more at most by each
\* further scheduler that decided on what it saw before the last recovery.
RecoveriesBounded == recoveries < MaxRecoveries + Cardinality(Schedulers)

\* A job that is done stays done, and a job that is leased is not queued again
\* under its holder: a recovery that was decided on an old row finds it out.
OnlyFailedRecovers ==
    [][/\ status \in {"completed", "expired"} => status' = status
       /\ status = "leased" /\ status' = "pending"
             => \E g \in Generations : phase[g] \in Outcomes /\ Current(g)]_vars

\* The job as a permission to call: its executions hold it one after another,
\* and make one call for each that they announced while they held it, though
\* they be detached since.  If calls leave promptly then, whatever becomes of
\* leases, results and workers, no permission is given or taken meanwhile.
Permission == INSTANCE CallPermission WITH
    MaxReopenings <- MaxRecoveries + Cardinality(Schedulers) - 1,
    Prompt <- PromptSends,
    job <- IF status \in {"pending", "leased"} THEN "open"
           ELSE IF status \in {"completed", "expired"} THEN "closed"
           ELSE status,
    holder <- IF status = "leased" THEN generation ELSE 0,
    granted <- generation,
    announced <- {g \in Generations : phase[g] \in {"registered", "cleared"}},
    calling <- {g \in Generations : phase[g] = "sending"},
    reopened <- recoveries

CallsByPermission == Permission!Spec

-----------------------------------------------------------------------------
(***************************************************************************)
(* Why they hold: the invariant that every step preserves.                 *)
(***************************************************************************)
Holds(g) == status = "leased" /\ generation = g /\ flight = g

\* A prompt call is registered in the row for as long as it may take.
Fenced(g) ==
    /\ phase[g] \in {"registered", "cleared"} =>
          Holds(g) /\ now < Deadline
             /\ flightUntil = Earlier(now + Timeout, Deadline)
    /\ phase[g] = "cleared" => now + Timeout < Deadline
    /\ phase[g] = "sending" =>
          Holds(g) /\ now < until[g] /\ until[g] <= flightUntil

\* The one call made under a paused policy was cleared before the pause, and
\* there is no other.
PauseUsesTheFence ==
    /\ pauseCalls <= 1
    /\ pauseCalls = 1 => paused /\ \A g \in Generations : phase[g] # "cleared"

\* Each recovery a scheduler is about to make was budgeted when it looked.
Deciding == {s \in Schedulers : seenAt[s] # -1}

RecoveryBudget ==
    recoveries + Cardinality(Deciding) < MaxRecoveries + Cardinality(Schedulers)

\* A worker that found the kill switch enabled at its start makes no call:
\* what calls under the kill switch is older than it.
CopiesObeyed ==
    \A g \in Generations :
        /\ phase[g] \notin {"none", "over"} => by[g] \in Workers
        /\ phase[g] \in {"cleared", "sending"} => ~killSeen[by[g]]

\* What has not been claimed yet has not begun.
NoneBeforeItsClaim ==
    \A g \in Generations :
        g > generation => phase[g] = "none" /\ by[g] = NoWorker

\* Row, executions and schedulers together, and what holds of them when calls
\* leave promptly.
WorkerInvariant ==
    /\ TypeOK
    /\ RecoveryBudget
    /\ CopiesObeyed
    /\ NoneBeforeItsClaim
    /\ PromptSends => (\A g \in Generations : Fenced(g)) /\ PauseUsesTheFence

-----------------------------------------------------------------------------
(***************************************************************************)
(* Liveness.  Workers poll (run_forever), their loops and threads run on,  *)
(* and the clock goes on; nobody has to renew a lease or to recover a job. *)
(***************************************************************************)
Fairness ==
    /\ WF_vars(Tick)
    /\ \A w \in Workers : WF_vars(Poll(w)) /\ WF_vars(Detach(w))
    /\ \A g \in Generations : WF_vars(ThreadStep(g))

FairSpec == Spec /\ Fairness

\* A job that was queued does not stay queued or leased: not when its worker
\* died, its lease was lost in mid-call or its call stayed registered.
JobSettles ==
    status \in {"pending", "leased"}
        ~> status \in {"completed", "failed", "expired"}
=============================================================================
