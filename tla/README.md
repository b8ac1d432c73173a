# Karkinos: verification of the parts that spend authority

Karkinos is a local-first trading and research system for one owner: a FastAPI
server with background loops, separate worker processes, one SQLite database,
and a backtest and research stack. Its core promise is about capital: an order
leaves for a broker only under an explicit human authority, once, and whatever
is uncertain blocks what depends on it. A second promise has the same shape: the
standing permission to call a paid research provider is exercised by one worker
at a time, inside a window, and stops when the owner says so. A third bounds what
runs unattended: market data jobs have a number of attempts and a daily number of
provider calls, and a trading session has a budget, a rate and conditions that
end it for good.

This directory holds TLA+ models of the code that keeps these promises, the TLC
configurations that check them, and machine-checked proofs about them.

| Module | What it is |
| --- | --- |
| `OneShotAuthority` | abstract: what a confirmed order's authority may be spent on |
| `ControlledSubmission` | submit(), recover(), their transactions, the other writers of the same rows, broker, wire, crashes |
| `MCControlledSubmission`, `MCSubmissionSafety.cfg`, `MCSubmissionPrompt.cfg`, `MCRecoveryConverges.cfg`, `MCLateCall.cfg`, `MCContradictedClearance.cfg` | its instances |
| `ControlledSubmissionProofs`, `SerialSubmissionProofs` | theorems about it |
| `ControlledCancellation` | cancel() and its query-only recovery, composed with `ControlledSubmission` |
| `MCControlledCancellation`, `MCSubmissionOneProcess.cfg` | the instance of both together |
| `ControlledCancellationProofs` | theorems about it |
| `CallPermission` | abstract: permission to call passes from one execution to a newer one and never moves during a call |
| `ResearchWorkerJobs` | the durable research job: queue, lease, takeover, provider-call fence, recovery |
| `MCResearchWorkerJobs`, `MCResearchJobs*.cfg`, `MCResearchKillSwitch.cfg` | its instances |
| `ResearchWorkerProofs` | theorems about it |
| `AttemptAllowance` | abstract: how often a job may be tried, and by whom at a time |
| `JobQueue` | the durable job store and the daily call budget, with arbitrary clients |
| `DataWorker` | the data worker that uses them: loop, execution thread, observation opt-in |
| `MCDataWorker`, `MCDataWorker.cfg` | its instance |
| `JobQueueProofs`, `DataWorkerProofs` | theorems about both |
| `SessionAuthority` | abstract: a session is opened once and stopped for good |
| `ControlledSessions` | budgets, issuance, gate observation, pause, replacement, revocation, rate admission |
| `MCControlledSessions`, `MCControlledSessions.cfg` | its instance |
| `ControlledSessionsProofs` | theorems about it |
| `TicketBook` | abstract: a ticket is written once, decided once, and answers say what is written |
| `ManualOrderTickets` | creation, confirmation, rejection and retries of a manual order ticket |
| `MCManualOrderTickets`, `MCTicketsSafety.cfg` | its instance |
| `ManualOrderTicketsProofs` | theorems about it |

To check: `tlc -config MCSubmissionSafety.cfg MCControlledSubmission.tla` and
so on for each configuration; `tlapm ControlledSubmissionProofs.tla` and so on
for each proof module. `PROJECT.json` lists the runs, the source lines each
definition stands for, the hazards, the findings and the theorems.

## 1. The system

All shared state is in one SQLite database. Writers are short transactions,
opened with `BEGIN IMMEDIATE`, so that a transaction is atomic against every
other process; between transactions anything may happen. An API process runs one
asyncio event loop; submit() and recover() run in it from start to end, the
research scheduler on threads. A shared runtime lock lets more than one process use the database. The launcher starts one API
process and supervises the workers (data worker, research worker), restarting
them when they die.

| Component | State | Operations | Hard behaviour | Correct when |
| --- | --- | --- | --- | --- |
| Controlled broker submission (`services/controlled_execution/controlled_broker_submission_*`, `persistence/controlled_broker_intents.py`) | the intent row, the OMS row and its transitions, recovery stamp | submit, recover; transactions prepare, claim recovery, finalize | retries, crash between prepare and finalize, lost and late answers, submit and recovery of one intent at once | one call per order; books agree with each other and with the broker; unsettled blocks the rest |
| Submission reconciliation clearance (`persistence/controlled_clearance_*`) | the clearance row, the OMS row | sign, validate, write | a lifecycle fact that arrives after the review | a contradicted clearance blocks again |
| Broker order lifecycle evidence (`src/account_truth/broker_order_lifecycle_*`) | observations | record, resolve the latest | facts out of order | the latest valid fact decides |
| OMS and the manual ticket route (`oms.py`, `broker_gateway_manual_tickets.py`) | OMS orders, transitions, ticket events | transition by compare-and-set | both routes taken at once | one route per order |
| Trading controls (`trading_controls.py`) | kill switch in memory and in its row, automatic-trading revision | set, restore, compare-and-set | a copy per process | the switch takes effect |
| Controlled broker cancellation (`controlled_broker_cancellation*`) | one command row per order, numbered recovery queries | prepare, finalize, claim recovery, finalize recovery | crash between claim and result; retries; late answers of older queries; the order moves meanwhile | one cancel call, only for a live order; no older answer over a newer one; submission is left alone |
| Controlled sessions, budgets, rate admission (`controlled_session_*`) | reservations, sessions, gate observations, pauses, replacements, admissions, the automatic-trading control | reserve, issue, observe, judge, pause, replace, revoke, admit | every write acts on a preview; the scheduler's loop and requests observe and pause the same session | budgets and the shared rate hold; a stopped session is stopped for good; blocked gates pause, if the scheduler can work |
| Manual order tickets (`persistence/manual_order_ticket_uow.py`, `order_state_claims.py`, `routes/trading.py`) | the manual order, the shared order, the action task's status, a claim per command | create, confirm, reject; each a compare-and-set or a replay | a decision against the opposite one, retries with other contents, a status set by hand | written once, decided once; no answer contradicts another |
| Shadow research worker jobs (`persistence/ai_shadow_research_worker_jobs.py`, `services/ai_shadow/*`, `ai_runtime/provider_call_window.py`) | one row per off-peak segment: lease, generation, registered call, counters | enqueue, claim, renew, begin/finish send, complete/fail/reschedule, recover | leases lost during a blocking call, threads nobody waits for, stale recovery decisions, crashes | one call at a time, inside the window and the permission; a job ends |
| Shadow research runs and provider-call ledger | run claims, call ledger, drafts | claim run, record and conclude a call, save drafts | re-sending after a takeover | a paid call is neither lost nor sent twice |
| Market data job queue, daily call budget, data worker (`persistence/jobs.py`, `market_daily_call_budget.py`, `workers/data_worker.py`, `research_observation_data_preparation.py`) | job rows, budget counter, opt-in generation, published datasets | enqueue, claim, renew, complete, fail, defer, reserve; plan, execute, publish | a worker that outlives its lease; budget spent between two jobs; an opt-in replaced while a job of it runs | calls counted before they are made; results published first and under their grant; attempts bounded; a job ends unless it is deferred for ever |
| Controlled ledger posting and correction | ledger entries, postings, corrections | post, correct, settle, replay | a posting dated before a correction of the same symbol | each fill posted once, each correction once, and the ledger still replays |
| Portfolio and position accounting, paper broker, backtest engine, event bus | in memory | apply fills, T+1 release, next-bar queue | ordering at day boundaries | cash and lots balance; nothing sold before it is available |
| Pre-trade risk | none | checks of one order | arithmetic | stateless |
| Scheduler, quotes, valuation publication | the loop's runtime, single-flight quote runs, publication rows | initialise, iterate, run, publish, recover | an initialisation that keeps failing; crash in a publication | sessions are evaluated (section 6); the published valuation is complete |
| Launcher and supervisor, release activation | processes | start, restart | crash | a dead worker comes back |
| Statement imports, providers, datasets, strategies, analytics, notification, WebSocket, web interface, CLI | read sides, pure or external I/O | | | not a question of interleavings |

Controlled submission, clearance, lifecycle, OMS and trading controls interact
through the same rows; the review of a request reads them all outside the
transaction that acts on them. The research scheduler runs in the API process
(its polling loop and the run-now route, on concurrent threads) and meets the
research worker, another process, only in the job row, the policy row and, as it
turns out, not in the kill switch. Cancellation reads the rows of submission in
its transactions and writes only its own. The data worker is one process, but a
process that is restarted may meet its predecessor, in the job row only.
Sessions meet orders in the admission table: an admission is what a later
submission presents, and no code path of the repository submits by itself. Manual
order tickets have rows of their own; a confirmed one is simulated further
downstream and does not become a controlled order by itself.

## 2. ControlledSubmission

**State.** `intent`, `intentId` and `nextId` are the rows of
`controlled_broker_submit_intents`; `oms` is `oms_orders.status`; `clearance`,
`clearedObs` are the clearance row and the observation bound into it; `latest`,
`obs` the newest lifecycle observation; `killSwitch` the row and `killSeen` the
copy of each process. Times are ages capped at `MinWait`, the recovery wait of
30 s: the code compares nothing but `now - stamp` with the wait, so an age at or
above it is one state. `broker` and `wire` are what the broker did with the
client order id and which requests are still in transit. `pc`, `ord`, `res`
are the request a process is serving. `calls`, `sinceAdmitted`, `killCalls` are
history.

**Actions.** submit() is `Review` (the preview and its interlock), `Prepare` or
`PrepareRefused` (the prepare transaction), `PreCallCheck`, `Call` or
`GatewayMissing`, `Reply` (the classification of the result), `Finalize` (the
finalize transaction). recover() is `Claim`, `Query`, `FinalizeRecovered`.
`Abandon` is a request that ends because a transaction was unavailable or a
re-check failed; `Restart` a process that dies. The other writers are
`CreateManualTicket`, `RecordObservation`, `ClearSubmission`, `SetKillSwitch`;
`Deliver`, `Lose` and `Tick` are the wire, the broker and the clock.

**What is assumed.** A worker is an API process whose event loop serves a
submit() or a recover() to its end before the next, since neither awaits.
`definitive not_found` is answered only when no request for that order is in
the wire: the code takes the gateway's word for it. One account and one gateway.
A transaction and the clock reading handed to it fall in one tick, and the clock
does not go back. Fingerprints, approvals, releases and signatures are
abstracted to whether a check passes; statement import and reconciliation to
whether a clearance may be signed.

**The promise.** In `OneShotAuthority` a confirmation is unspent, ticketed,
pending, live, dead or settled; it is spent once, on one route; at most one order
is pending or live, and a call leaves at most once. `AuthorityOf` reads that
status off the three rows and `Called` off the calls. With `LateSends` a call may
still leave for an authority that was closed as dead; without, it may not.

**Two regimes.** A recovery may close an intent that is older than the wait
although its submit handler is still between the prepare transaction and the
call. Nothing prevents that in general, so the properties come in two groups.
`OneRoutePerOrder`, `RowsAgree`, `OneUnsettledSubmission`, `RecordedIsReal` and
`ImplementsAuthority` rest on the transactions alone. `LiveOrderBlocksOthers`,
`QueriesSpaced`, `KillSwitchExposure` and `ImplementsStrictAuthority` need
`Serialized`: there is one API process (what the launcher starts), or every
submit handler ends within the wait (`PromptHandlers`, a constraint on `Tick`).
Without it, the late finalize of a submit handler writes
`last_recovery_at_epoch_ms = 0` over the stamp of a recovery query that another
process was admitted for, and the next query is admitted at once: that is why
`QueriesSpaced` is in the second group.

## 3. ControlledCancellation

The module extends `ControlledSubmission`: its variables go on beside those of
submission, and a worker serves one request of either kind at a time, since the
routes are coroutines of the same event loop and do not await.

**State.** `cancel` and `evidence` are the command row of an order and the
lifecycle observation it was bound to; `queryCount`, `queryAge` and `answered`
the numbered recovery queries: how many were claimed, when the last was (an age
since the later of prepare and last claim, capped at the wait of 30 s, the same
number as the recovery wait of submission), and whose answer is in the row.
`at`, `aim` and `claim` are the worker's request, `cancels` counts the calls.

**Actions.** cancel() is `PrepareCancel` (review and prepare transaction, which
resolves again all the review found: intent and OMS order are submitted, the
latest lifecycle fact is usable and leaves a remainder), `CheckCancel` or
`RefuseCancel` (the second review), `CallCancel`, `ConcludeCancel` (the
classification of the answer and the finalize transaction). recover() is
`ClaimCancelQuery` and `AnswerCancelQuery`. `AbandonCancel` is an unavailable
transaction, `RestartCancelling` the death of the process. `LoopStep`,
`EvidenceStep` and `CancelTick` are the steps of submission beside them.

**What the code does, and the model shows.** The row of an order is there for
good: a crash between prepare and finalize leaves the command prepared, and no
retry calls again. The kill switch is not consulted. A query may be claimed in
any status of the command, but only while the order still has the very lifecycle
observation the command was bound to: any newer fact, one that says "cancelled"
included, ends the queries. Whatever the gateway answers moves neither the intent nor
the OMS order; a cancellation is an imported lifecycle fact and a clearance. That
is why what the broker does with a cancel call is not a variable here: its
outcome comes in by `RecordObservation`. Signatures, releases, the manual ticket
whose export is an audit event, capabilities and health are abstracted to whether
a check passes.

## 4. ResearchWorkerJobs

**State.** One job, one row of `automation_runs`: `status`, `available`,
the lease (`generation`, `owner`, `leaseUntil`), the registered provider call
(`flight`, `flightUntil`), the counters `failures`, `recoveries`, and `failedAt`,
the updated_at of a failed row. The end of the off-peak segment is `Deadline`.
`paused` is the policy row; `killSwitch` and `killSeen` as above. An execution
is named by its lease generation: `phase`, the worker it is `by`, the end of its
call `until`. `attended` is the execution a worker's loop waits for, `seenAt` a
scheduler that found a failed row it may recover.

**Actions.**

| Code | Action |
| --- | --- |
| enqueue_if_authorized, enqueue | `Enqueue`; `Observe` and `Recover` are the decision on a failed row and the transaction, two steps |
| claim_next | `Claim` (a due or abandoned job), `Expire` (a job past its deadline) |
| run_one: admission | `Admit` |
| ProviderSendAdmission.begin_send | `Enter` (first gate), `BeginSend` (transaction), `Recheck` (second gate) |
| the HTTPS call and its total timeout | `Send`, `Answer` |
| finish_send | `FinishSend` (transaction), `Accept` (last gate) |
| the research, run_once of the workflow | `Result`: completed, waiting, failed or fatal at any time |
| run_one: commit; complete, fail, reschedule | `Commit` |
| a failed transaction or read | `Unavailable` |
| _heartbeat, renew_lease | `Heartbeat`; `Detach` when the renewal is refused |
| death and restart of the process | `Crash` |
| the owner | `SetPaused`, `SetKillSwitch` |

A thread blocked in a call cannot be cancelled: after `Detach` its worker claims
again while the thread runs on, under the same owner name. That is why an
execution is a generation and not a worker.

**What is assumed.** One job: another segment, and another policy or provider
configuration, has another row and another id. A policy that is resumed is the
one that was paused. What the research computes, and how often it calls, is
nondeterministic; the ledger that may refuse to send a call again after a takeover
is not modelled, so the model calls more often than the code. `available`
is kept while the row is pending, where it is read. One action per transaction
with its clock reading in the same tick. The heartbeat never has to come.

**PromptSends.** The fence is stamped from a clock reading taken before the
registering transaction, the second gate and the connection; the call's own
timeout starts with the call. With `PromptSends` no time passes between
registration and call, and the fence covers the call. Without it a thread that
stalls in between may call after another worker took the job over; the code
bounds that stall by nothing. `CallsAreAnnounced` and `PauseExposure` are stated
for prompt sends; `JobSettles` and `CallsByPermission` hold, and are checked, without.

**The promise.** In `CallPermission` a job is absent, open, failed or closed.
While it is open, permission to call is granted to execution 1, then 2, and so on; a grant
replaces the holder, dead or alive. A call is announced by the holder of the moment,
who has no other, and one announcement is good for one call. With `Prompt` nothing
is granted or withdrawn from the announcement to the end of a call, so that the
caller is the holder and the only one; without it a call may be made after
others have come to hold the permission, and nothing more can be promised. The
refinement maps the holder to the row's generation while it is leased, the grants
to the generation, the announcements to the executions that have registered a call
and not made it, the calls in progress to those that are `sending`, `Prompt` to
`PromptSends`, and the reopenings to the recoveries, of which every scheduler but one may
make one over the bound. Clock, lease, heartbeat, fence, policy and kill switch are
gone; that they amount to this is what the refinement says. `research_safety`
checks it with prompt sends, `research_settles` without.

**The kill switch** is read by the worker's process when it starts. Finding 3 is
what a running worker does; `CopiesObeyed`, in the invariant, is the other half: a worker that found the switch
enabled makes no call, so that a restart of the worker makes the switch effective.

## 5. JobQueue and DataWorker

**The queue.** `JobQueue` is `job_runs` and the daily budget of provider calls on
their own. A lease is (job, owner, attempt), and every report is accepted only
under the lease it names. `Claim` is the whole claim transaction: it fails the
lapsed rows without an attempt left and leases the oldest row that is due or
lapsed. A deferral gives its claim slot back by raising `max`. Its next-state relation lets any
lease that was ever issued be reported on at any time, by anybody. `AttemptAllowance`
is what that amounts to for a job: it is started a bounded number of times on its
own account, held by one at a time, charged unless it was deferred, and ended
once.

**The worker.** `DataWorker` extends the queue by the processes that use it.

| Code | Action |
| --- | --- |
| run: start, one pass through the stages | `Start`, `BeginPass`, `ClaimInStage`, `PlanCollection` |
| the research observation stage: policy, prior results, enqueue, report, forward inputs | `ReadPolicy`, `ReadPrior`, `EnqueueInputs`, `RecordReport`, `ClaimForward`, `EndForward` |
| the execution thread | `RunCalendar`, `ReserveCall`, `CallProvider`, `BeforePublish`, `Publish` |
| the loop that attends it | `RenewLease`, `Abort`, `SettleDeferred`, `SettlePublished`, `SettleFailed` |
| the process | `Exit`, `Crash` (and `Start` again, by the supervisor) |
| the owner, the API | `Configure`, `EnqueueVerified`, `Stop` |
| time | `Tick`, `Midnight` (the budget's day) |

A thread cannot be cancelled: an aborted execution makes its process exit, and
the thread may take a last step before it does. The loop passes the clock reading
of the start of its pass to the calendar and corporate action claims, which may be
an execution old by then (`stale`); all other transactions read the clock in the tick they
commit in.

**What is assumed.** One upstream group and so one budget; a daily input is one
(date, basket), which a generation of the opt-in plans once (`PlansOnce`).
Validation and reservation of a call are one step. Providers, datasets and
calendars are how a call ended and whether a result is published. The batch limit of
the forward stage and the activation guard of a release are left out: stopping the
worker by that guard is a `Crash`. Two workers in the model are an old process that
lingers and its replacement.

**Deferrals without end.** A verified dataset whose source is unavailable gives its
claim slot back (src/server/workers/data_worker.py:733-740), and so does any job that finds the
budget of the day spent (src/server/persistence/market_daily_call_budget.py:76-94), as often as that
happens: a job whose source stays unavailable is queued again for ever. The
repository wants it so (src/docs/PLAN.md:70-71: unavailability "does not exhaust the
allowance for malformed or conflicting data"), and the specification does not bound it
either. `JobsEnd` therefore has a premise: from some time on no slot is given back. Without
the premise it is false, and TLC finds the job that comes and goes. The premise is
about all jobs together: a job that is deferred at every pass may keep younger ones of
its kind from being claimed, where the model's retry delay is zero.

## 6. ControlledSessions

A session is issued on a reservation of a budget and named by it. **State:**
`reserved`, `session`, `pausedAt`, `snapshots` (gate observations in the order of
their times), `replacement`, `admissions`; the automatic-trading `control` with its
revision, expiry and last disable; and for every thread what it has read:
`watch` (the scheduler's loop, whose round is `todo`, and requests that evaluate
one session), `request` (an order's preview) and `operator` (the preview of an
issue or a replacement). Of the scheduler's loop, `runtime`: none, one that has been
initialised, one that has begun a round; and `workable`, whether what it depends on
lets it work.

**Actions.** `Reserve`; `PreviewIssue`, `Issue`; `Initialise`, `StartRound`,
`RuntimeFails`; `Capture`, `Record`, `Judge`, `Pause`, `EvaluationFails`; `PreviewReplace`, `Replace`; `Revoke`;
`PreviewAdmit`, `Admit`; `Enable`, `Disable`; `Tick`, `GateTurns`,
`WorkTurns`, `Crash`. Every transaction checks again what its preview read, but only what it does check:
`Pause` does not look at the verdict again, `Issue` not for a paused session of
the strategy, `Admit` compares with the observation its preview read.

**When the scheduler evaluates.** A round is the first thing of an iteration
(src/server/scheduler/loop.py:428-438), and iterations need a runtime. `_initialize_runtime`
gives none without a watchlist (lines 239-243) and raises when a restore or the replay
of the ledger does (lines 143-148, 337-372); the loop tries again. An iteration that
raises after its round gives the runtime up (`RuntimeFails`); one that finds a release being
activated has no round; an evaluation that raises is counted and passed over
(`EvaluationFails`). `workable` stands for all the conditions: without it `Initialise` is
disabled, no round has to begin and evaluations may fail. In that state no session is
observed or paused by the scheduler, for as long as it lasts. The comment that calls live
monitoring "a core server invariant" (src/server/app.py:352) is about starting the scheduler
unconditionally, and leaves authority to gates of their own. One of these is
admission: it needs an observation that is clear and fresh, and observations then come
only from requests.

**The promise.** `SessionAuthority`: a session is opened once, stopped for good,
and passes each order at most once and only while it is open. A replacement retires
a session and opens another one.

**What is assumed.** One authorization and account. The budgets of cash, turnover
and symbols have the form of the two that are kept, capital and orders. Orders are
counted as the code's sum of reserved_order_count: the sum over a set of
reservations is the number of its `Slots`, pairs of a reservation and an order it plans. Whether an attestation is
current and every gate but the budget, the rate, the window and the control is
the environment's `gate`. Preview and the clock reading that follows it are one
step. Retries that are answered from a row have no effect and are left out. An
observation with the same time, verdict and control is kept once. The limit of 500 rows of the
recovery list is not reached. Of two equally recent paused sessions either may be found.

## 7. ManualOrderTickets

**State.** `manual` and `shared` are the statuses of an order's row in
`manual_orders` and in `orders`, `payload` and `note` what the first says,
`action` the status of the action task, `claims` the idempotency claims:
a command's key is its kind and its order, and what is kept under it is its
fingerprint. `request` is the command that a request has built, `told` the answers
so far (a history). An order that is older than the ticket route may have no action task in its
payload (`Legacy`): it can be rejected and not confirmed.

**Actions.** `AskCreate`, `AskConfirm` and `AskReject` are the routes up to the
command; `CreateTicket` and `MoveTicket` the two transactions, `Replay` the
branch of both in which the key is claimed, `Drop` every refusal, rollback and
death. `UpdateActionStatus` is the status route of the action task, which
writes any string; the model has the five statuses that the code writes or
filters by.

**What is assumed.** The routes do not await between the read and the
transaction, and run in one process; the model lets anything come in between, so
that its properties hold for several processes and for threads too. The gates are left
open: a request they block builds no command. A command's content is what its
key leaves open: the caller's terms and the server's evidence (gates and
timestamp), or the reason. The timestamp is not in the fingerprint, but a replay
compares it with the row, so equal content stands for both checks. The audit events
are written and checked in the transaction of the claim. The creation of a
ticket from a risk decision is not modelled: nothing in the code calls it.

**What the code does, and the model shows.** The status route may move the action
task of an open ticket. Confirming and rejecting the ticket both compare
against that status and fail from then on, and creating the ticket again is only a replay, so the
ticket stays open until the status is set back by hand; after a decision, its
retry fails. The docstring of `ManualOrderStateCommand` speaks of all projections
moving "through one compare-and-set edge"; the action task is the one that
has another writer. No invariant here binds it for that reason, and the order rows and the
answers stay consistent whatever it is set to.

**The promise.** `TicketBook`: a ticket is written once, decided at most once, and
an answer says what is written, to a caller who asked for that.

## 8. The runs

| Run | Instance | States | Shows |
| --- | --- | --- | --- |
| submission_safety | 2 orders, 2 processes, wait 1, 1 observation | 533,428 | the transactions alone: one route and one call, rows that agree, the interlock, real records, the one-shot authority |
| submission_prompt | the same, wait 2, prompt handlers | 408,995 | one call after the kill switch, spaced queries, no late call |
| submission_one_process | 2 orders, 1 process, wait 1, 2 observations, 2 queries, with cancellation | 860,016 | live orders block without any assumption on handlers; one cancel call, for a live order only; cancellation leaves submission alone; no older answer over a newer one |
| recovery_converges | 1 order, 2 processes, wait 2 | 19,950 | an open intent gets an outcome |
| late_call | 2 orders, 2 processes | violated | finding 1 |
| contradicted_clearance | 3 orders, 1 process | violated | finding 2 |
| research_safety | 2 workers, 2 schedulers, 3 claims, 1 recovery, segment of 6 ticks, lease 2, call 2 | 1,334,918 | announced calls, the permission to call, pause, bounded recoveries, stale recoveries find out |
| research_settles | 2 workers, 1 scheduler, 2 claims, segment of 5 | 511,288 | every queued job ends; late calls too were announced by a holder, and one by one |
| research_kill_switch | 1 worker, 1 scheduler | violated | finding 3 |
| data_worker | four deployments of up to 3 jobs on 1 or 2 workers, budget of 1 call, 2 generations | 190,255 | calls are counted, what succeeded is published and under its grant, an input is completed once, attempts are charged as promised, jobs end once no slot is given back any more |
| controlled_sessions | six profiles of up to 2 sessions and 2 orders, 2 watchers, 2 requests, up to 2 ticks | 382,232 | budgets and the shared rate hold, replacements are earned, a disable ends its sessions, stopped is stopped, blocked gates pause when the scheduler can work |
| tickets_safety | 1 action, 1 older order, 3 requests, 2 of each choice | 48,010 | rows, claims and answers agree; written once, decided once |

**The bounds.** Every property of submission concerns one order, or two orders
and the interlock between them; the third order of `contradicted_clearance` is
what the LIMIT needs. Two processes give every race of two handlers, and a third
handler would need a second grant or a second claim within the wait, which the
invariants (proved for any number) exclude. A wait of 1 suffices for the safety
that does not depend on time, and for one process, where no handler overlaps another;
2 tells "being handled" from "recoverable".
One observation lets a clearance be contradicted. For the research job, three
claims give a holder, a successor and the successor of both; two ticks of lease
and call let a lease run out under a call, be renewed past it and end in
between; six ticks hold a failed attempt, its retry, a recovery and a call that no longer fits
into the segment. Two schedulers show the one recovery over the bound. For
cancellation, two observations let an order move on after its command was
prepared, and two queries give an older and a newer answer.

`data_worker` runs one of four deployments, each with what one question needs:
one job between two processes; one daily input planned under two generations; a
calendar job that delays the claim of a corporate action day; two historical kinds that
share the budget. Three attempts are two or one here, the retry delay is zero
and every delay that outlasts a lease is alike; a lease and a timeout of one tick
let each run out before the other. The second process is a successor, as after a
deployment: it starts when the only job was claimed once, or when the opt-in has been
replaced, which is when two processes can disagree. An opt-in to daily inputs is
only replaced there, not withdrawn, and a job is stopped by the operator where it is the
only one. Deferrals are not bounded: `Renumber` in the MC module takes 1 from `attempt` and `max` of a
queued row whose `max` was raised, before anything else happens. Only their difference decides
anything, what is charged stays as it is, and no worker that attends an attempt can be issued its
number again, as a claim follows its leaving. So a job can be deferred for ever in finitely many states.
Only where inputs are planned under two generations, a slot is given back under the first one
alone, and for a spent budget. `controlled_sessions` lets the environment of a behaviour
do what one of six profiles allows: a pause and its replacement; an enablement
that ends while orders are admitted; a pause, a revocation or a crash against a request;
budgets that do not fit together; the rate that two sessions share; a scheduler that cannot
always work, gives its runtime up and crashes. The
gates turn at most twice, and hold where they never turn; threads that a profile calls
prompt go on, once begun, before anybody else does, so that its states are spent on the
interleavings of the other threads. In ticks,
an observation is fresh for 1, the rate window is 2 and a recovery lasts 1, where the
code has 30 s, 60 s and 60 s: the model tells apart stale from fresh and in the window from
out of it, and the proofs hold for all values. The scheduler is in the profiles 1, 3 and 6, and these
are where `BlockedGatesPause` says something; in 1 and 3 nothing stops it but a crash, and it
starts at once. What it depends on turns at most twice, and is not left turned off by that bound
alone.

Tickets of different orders share nothing, so `tickets_safety` has one of each
kind. A third request sees what two others have done to a ticket, such as a retry with
another reason beside a confirmation and a rejection of the same ticket; two
terms, pieces of evidence and reasons let a retry differ from what it repeats.

All safety that the passing runs check is also proved for every value of the
constants.

**Symmetry** permutes orders, processes, workers, schedulers, requests and reasons, all compared
for equality only (`Orders` are told apart by `intentId` where the code orders
rows); the runs with liveness do without, and so does `controlled_sessions`.

**Deadlock** is checked in every run: clock or owner can always move.

**Fairness.** `RecoveryConverges`: nothing in the server starts a recovery, it is
a request. The property is about an environment that keeps asking (strong
fairness of `Claim`, which the wait disables again and again), does not kill
every such request and finds its transactions available (strong fairness of the
finalize of a definitive result), and a broker
that some time answers definitively (strong fairness of `Definitive`); handlers
run on and the wire delivers or loses (weak fairness). Without any one of these
the code promises nothing. `JobSettles`: run_forever polls, its supervisor restarts it, its threads
run on and the clock goes on: weak fairness of `Poll`, `Detach`, `ThreadStep`
and `Tick`. No heartbeat, commit or recovery has to succeed.
`JobsEnd`: the supervisor restarts a dead worker, the loop goes on, attends its
execution and reports, and time passes (weak fairness of `Loop` and `Attend`
together, `Tick`, `Midnight`); in the run, of `Loop` and `Attend` as far as the deployment
allows them, where only the start of the second process is withheld, and of `Renumber`. The thread has no
fairness: a provider call may hang, which the execution's timeout ends. But it is assumed, in the
property, that slots are given back finitely often (section 5), and, as the activation guard is
left out, that no release activation keeps the worker stopped. A pass with a daily input first keeps the
budget for it; strong fairness of `EndForward(w, FALSE)` says that such days do
not go on for ever, as not every day is a trading day. The calendar job of a past day is
claimed by nobody and is excluded. `BlockedGatesPause`: the scheduler's loop tries to have a
runtime, begins a round in each iteration and goes through it: weak fairness of `Initialise`, of
`StartRound` while `workable`, and of the scheduler's `Evaluate`. That it can work from some time on is
assumed, in the property (section 6); without that TLC finds the session that is never paused, as
the loop has no runtime. Requests and operators have no fairness.

## 9. Findings

1. `late_call`: with two API processes and a submit handler slower than 30 s,
   recovery closes the intent as rejected before the handler calls; the broker
   accepts, the finalize is refused, and an order that is live blocks nothing,
   against `unreconciled_submission_blocks_new_orders`. Excluded by one API
   process or prompt handlers, and proved to be.
2. `contradicted_clearance`: the prepare transaction looks for contradicted
   clearances with `limit=1`, which is applied to cleared orders before the
   comparison: a younger contradicted clearance does not block. The review looks
   at all of them, so the observation has to be committed by another process
   between review and transaction.
3. `research_kill_switch`: the research worker is a process of its own and
   reads the kill switch when it starts; turned on later, it stops the enqueue in
   the API process, and no call of the worker. The test that covers this shares
   one object between both sides. Pausing the policy works.

## 10. The proofs

All theorems hold for every finite or infinite set of orders, processes and
workers, and every wait, lease, timeout and bound, under the named assumptions
of the modules. What is counted or searched has to be finite: `Schedulers`, the
`Jobs` and `Workers` of the data worker, `Reservations`.

**ControlledSubmissionProofs.** `Invariance`: `SubmissionInvariant` is inductive.
The four safety properties alone are not: that an order is called once rests on
`OneGrant` (the prepare transaction lets one handler through) and `CallsGranted`
(the grant is unused before the call); that records are real on
`ResultsAreReal` and `BrokerFollowsCalls` (a positive answer is about an order
that is there to stay); that rows agree on `OnlySubmittedIsCleared` and
`HoldersKnown`. `OneRoute`, `RowAgreement`, `Interlock`, `RecordsAreReal`
follow; `AuthorityRefinement` maps every step to a step of `OneShotAuthority` or
to a stutter.

**SerialSubmissionProofs**, under `Serialized`. `SerialInvariance` adds
`Exclusive` (a handler has its intent to itself until it ends),
`RejectedIsGone`, `KillUsesTheGrant` and `QueriesStamped` (what erases the stamp
of a query comes before the first query). From it `LiveOrdersBlock`, `KillSwitch`
(at most one call after the kill switch, whatever the processes have heard),
`SpacedQueries` and `StrictRefinement` (no late call).

**ControlledCancellationProofs.** `CancellationRefinement`: every step of the
composed specification is a step of `ControlledSubmission` or leaves its variables alone, so
that `CancelSpec` implies `Spec` and every theorem about submission, the
inductive invariant included, holds beside cancellation. `CancelInvariance` adds
the command's own: `OneCancelGrant` (one handler has the grant, and it is unused
before the call), `CommandsAreAboutSubmitted` (which rests on a fact about
submission: an intent that is submitted stays so) and `QueriesNumbered`. `OneCancel`
takes from the first that there is one call and from the second, with `RecordedIsReal`
of submission, that the broker has the order. `SubmissionBesideCancel` and, under
`Serialized`, `LiveOrdersBlockBesideCancel` carry the safety of submission over to the
composed specification by that refinement, and `AuthorityBesideCancel` and
`SerialBesideCancel` the two refinements, the kill switch and the spaced queries: no
property of submission rests on nobody cancelling. `NewestAnswer` uses that one event loop
has no two queries under way; with two processes it does not hold.

**ResearchWorkerProofs.** `WorkerInvariance`: `WorkerInvariant` is inductive. Its
`RecoveryBudget` counts the schedulers that have decided and not yet recovered
with the recoveries made, since the decision and the transaction are two steps.
Its `Fenced`, given `PromptSends`, says of every phase of a call that the row is
leased to its generation and registered long enough: `CallHolds` turns that into
"no takeover, expiry, commit or recovery is enabled". `PauseUsesTheFence` says
that a call made under a pause had passed its last check before, and that
there is only one such call because the row announces only one. From these
`CallAnnouncement`, `PauseTakesEffect`, `BoundedRecoveries`; `RecoveryFindsOut`
needs no invariant. `JobIsPermission`, for prompt sends or late ones, maps every step to
one of `CallPermission` or to a stutter. That it is the holder that announces is the
registering transaction's look at the row; that it has no other call under way is
`NoneBeforeItsClaim`, which says that an execution whose generation was not given out has done
nothing, and the order of an execution's phases. With prompt sends a claim, an expiry, a
commit and a registration are steps of it only because no call is announced or in
progress, which is `CallHolds` again. That a recovery is within the
bound is `RecoveryBudget`. `ClosedJobsAnnounceNothing` is a consequence of `CallPermission` alone: a
closed job has no holder, and only a holder announces. `RestartObeysKillSwitch` needs no assumption: an execution that
passed its gates is by a worker that did not see the switch, and a worker's copy
changes only when its process is replaced, which ends its executions.

**JobQueueProofs, DataWorkerProofs.** `QueueInvariant`: `QueueInv` says that a
deferral's raise of `max` never runs ahead of the attempts and that a queued row has an
attempt left. With it `QueueKeepsAllowance` maps every transaction, one that fails several
rows and starts another included, to a step of `AttemptAllowance`. Two consequences of
that specification are carried back to the rows: `QueueSpendsItsOwn`, for which
a held job has to have spent an attempt (`Spent`), and `QueueEndsOnce`. `WorkerFollowsQueue`
shows every step of the workers to be a transaction of the queue or none, from
which `WorkerKeepsAllowance` follows by composing the two refinements, with no further look at
the queue. The other theorems each have an invariant of their own over `WorkerInv`:
`CallsInv` (a reservation is used once and does not outlive its day), `PublishedInv`,
and `OnceInv`, where the argument is about three moments: a preparation that read
no result of an older generation, the jobs it queues, and the older
generation's execution, which can no longer finish once the opt-in has moved on.

**ControlledSessionsProofs.** The invariant is `Types`, `Aimed` (a thread acts on a
session that was issued, and a replacement on one whose recovery began after its
pause) and, per theorem, what it needs; `Lasting` is the action property that
nothing is ever unpaused, unrevoked or observed after its revocation. Most steps of
most threads concern none of a theorem's variables; each proof first shows
once which actions do. `SessionsReplacementsEarned` shows `Earned` of a
replacement when it is made and that later observations of a revoked session do not exist;
`SessionsOneWay` maps steps to `SessionAuthority`; `SessionsEndWithDisable` is about
the revision an admission's session was issued under; `SessionsShareRate` about admissions
that commit in clock order, since one that commits late does not see the later
ones. `SessionsWithinCapacity` is a bound on a sum and needs no induction over the
summands, since the sum is a cardinality. `ReservedFit` says that the slots of all reservations
that cover an instant fit the order capacity of each: two reservations that
cover one instant overlap, and the later of them was made against a gross sum in which the
earlier was counted. `OrdersPlanned` and `AdmittedOnce` make the
map from an admission to its pair of reservation and order an injection into these slots.

**ManualOrderTicketsProofs.** `TicketInvariance`: `TicketInvariant` is inductive. Its
`RowsFollowClaims` puts both order rows where the claims of the order's
commands say, and `AnswersStand` says of every answer ever given that the rows
still say it, but that a ticket answered as open may have been decided since.
Neither mentions the action task, which may be anything; the compare on the order rows
alone excludes a second decision, and the mutant of `AnswersAgree`, which
compares the action task only, shows that they are needed. `OneStory` compares two answers
by way of the rows; `TicketRefinement` maps a transaction to the write, the decision or the
repetition it stands for.

**Model-checked only.** `RecoveryConverges`, `JobSettles`, `JobsEnd` and
`BlockedGatesPause` (liveness under fairness is outside the prover), and the three violations.

## 11. Not modelled, and the plan

Not modelled at all are components without shared mutable state (pre-trade risk,
strategies, analytics, imports, providers, the user interfaces) and the build and
release tooling; they are most of the repository's lines. What has such state and
is left, in this order; a module that is proved about keeps to functions and folds
and takes its bounds as constants.

1. `LedgerPosting`: posting of cleared fills and exclusion corrections on one ledger,
   with the order in which the ledger is replayed. A correction binds the
   position before it and is dated one second after the latest entry; appending and settling
   replay the ledger they leave, a controlled posting does not. A fill dated
   before a correction of its symbol would change the position the correction is bound to.
   Whether the other guards of a posting exclude that is the
   question; abstract specification: each fill and each correction once, and the ledger
   replays.
2. `ResearchRuns`: run claims and the provider-call ledger, composed with
   `ResearchWorkerJobs` through its generation; that a paid call is never sent
   twice after a takeover, and that drafts are saved by the current run only.
   Abstract specification: at most one call per planned question.
3. The scheduler's single-flight quote runs and the publication of a valuation with its recovery.
4. Algorithms as functions with reference definitions: the call window's
   evaluate, T+1 position accounting, the next-bar queue, the paper broker.

Further theorems: the inductive invariants and refinements of the modules above;
consequences of the other abstract specifications; and the cash and turnover budgets of a
session, whose sums are not cardinalities of sets the model has. The runs
stay at small instances of two actors and two items each.
