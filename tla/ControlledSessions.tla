------------------------- MODULE ControlledSessions -------------------------
(***************************************************************************)
(* Bounded trading sessions: an order budget is reserved, a session is     *)
(* issued on it, the session's gates are observed and a blocked            *)
(* observation pauses it for good, a paused session is replaced by one     *)
(* that is no wider, and orders are admitted one at a time.                *)
(*                                                                         *)
(* Every write is one BEGIN IMMEDIATE transaction and one action here.     *)
(* What precedes it, the preview and its reading of the clock, is an       *)
(* action of its own, after which anything may happen: a request carries   *)
(* what it read and the transaction checks it again.                       *)
(*                                                                         *)
(* A session's identity is a hash of its issuance, reservation included,   *)
(* and a reservation issues one session: sessions are named by their       *)
(* reservations.  All reservations are of one authorization and account.   *)
(* Whether an attestation is current, and every gate but the budget, the   *)
(* rate, the reservation's window and the automatic-trading control, is    *)
(* the environment's "gate".  Of the scheduler's loop the model has what a *)
(* round of evaluations depends on: a runtime, and the iterations it makes *)
(* until one of them raises.                                               *)
(***************************************************************************)
EXTENDS Integers, Sequences, FiniteSets, FiniteSetsExt

CONSTANTS
    Reservations,   \* reservations, and the sessions issued on them
    Orders,
    Plan,           \* reservation -> the envelope its operator attested
    Age,            \* CONTROLLED_SESSION_LIVE_GATE_MAX_AGE_SECONDS, in ticks
    Window,         \* CONTROLLED_SESSION_RATE_WINDOW_SECONDS
    Stability,      \* ..._REPLACEMENT_MINIMUM_STABILITY_SECONDS
    Lifetime,       \* ttl_seconds of the automatic-trading control
    Never,          \* no pause, no replacement
    Scheduler,      \* the watcher of the scheduler's loop
    Watchers,       \* and of the requests that evaluate one session
    Requests,       \* order requests in flight
    Operators,      \* operator requests in flight
    MaxTime,        \* bound: ticks
    MaxRevision,    \* bound: transitions of the automatic-trading control
    MaxCrashes      \* bound: restarts of the server

PlanSpace ==
    [strategy : {"s1", "s2"},
     start : Nat, expires : Nat,
     orders : SUBSET Orders,
     rate : Nat \ {0},          \* max_order_rate_per_minute
     slots : Nat \ {0},         \* order_count_capacity
     gross : Nat,               \* reserved_gross_units
     capital : Nat]             \* capital_capacity_units

ASSUME PlanAssumption ==
    /\ Plan \in [Reservations -> PlanSpace]
    /\ \A r \in Reservations :
          /\ Plan[r].start < Plan[r].expires
          /\ Plan[r].orders # {} /\ IsFiniteSet(Plan[r].orders)
          /\ Cardinality(Plan[r].orders) <= Plan[r].slots
ASSUME SessionAssumption ==
    /\ IsFiniteSet(Reservations)
    /\ Age \in Nat /\ Window \in Nat /\ Stability \in Nat \ {0}
    /\ Lifetime \in Nat \ {0}
    /\ MaxTime \in Nat /\ MaxRevision \in Nat /\ MaxCrashes \in Nat
    /\ Scheduler \in Watchers /\ Never \notin 0..MaxTime

VARIABLES
    now,
    gate,           \* do the gates of the environment hold?
    control,        \* the automatic-trading control
    reserved,       \* budget reservations, never released
    session,        \* controlled_session_runtime_sessions
    pausedAt,       \* controlled_session_runtime_states
    snapshots,      \* controlled_session_gate_snapshots, by observed_at, id
    replacement,    \* controlled_session_replacement_events, by predecessor
    admissions,     \* controlled_session_rate_admissions, in commit order
    watch,          \* watcher -> its evaluation
    todo,           \* sessions the scheduler's round has yet to visit
    request,        \* order request -> what its preview read
    operator,       \* operator request -> what its preview read
    workable,       \* does what the scheduler depends on let it work?
    runtime,        \* its runtime, and did that one begin a round already?
    crashes

authorityVars == <<reserved, session, pausedAt, snapshots, replacement,
                   admissions>>
threadVars == <<watch, todo, request, operator>>
schedulerVars == <<workable, runtime>>
worldVars == <<now, gate, control, crashes, schedulerVars>>
vars == <<authorityVars, threadVars, worldVars>>

Times == 0..MaxTime
Revisions == 0..MaxRevision

\* One gate observation: its time, its verdict, the control it saw.
Observation == [at : Times, clear : BOOLEAN, rev : Revisions]

Idle == [step |-> "idle"]

NoSession == [status |-> "none", rev |-> 0, created |-> 0]

TypeOK ==
    /\ now \in Times /\ gate \in BOOLEAN /\ crashes \in 0..MaxCrashes
    /\ workable \in BOOLEAN /\ runtime \in {"none", "ready", "used"}
    /\ control \in [on : BOOLEAN, rev : Revisions, since : Times, until : Nat,
                    disabledRev : Revisions, disabledAt : Times]
    /\ reserved \subseteq Reservations
    /\ session \in [Reservations ->
          [status : {"none", "enabled", "revoked"},
           rev : Revisions, created : Times]]
    /\ pausedAt \in [Reservations -> Times \union {Never}]
    /\ snapshots \in [Reservations -> Seq(Observation)]
    /\ replacement \in [Reservations -> {Never} \union
          [successor : Reservations, first : Times, last : Times, at : Times]]
    /\ admissions \in Seq([session : Reservations, order : Orders, at : Times])
    /\ watch \in [Watchers -> {Idle} \union
          [step : {"record"}, session : Reservations, seen : Observation]
          \union [step : {"judge"}, session : Reservations]
          \union [step : {"pause"}, session : Reservations, at : Times]]
    /\ todo \subseteq Reservations
    /\ request \in [Requests -> {Idle} \union
          [step : {"admit"}, session : Reservations, order : Orders,
           seen : Observation, at : Times]]
    /\ operator \in [Operators -> {Idle} \union
          [step : {"issue"}, target : Reservations, at : Times] \union
          [step : {"replace"}, predecessor : Reservations,
           target : Reservations, first : Times, last : Observation,
           at : Times]]

Init ==
    /\ now = 0 /\ gate \in BOOLEAN /\ crashes = 0
    /\ workable \in BOOLEAN /\ runtime = "none"
    /\ control = [on |-> FALSE, rev |-> 0, since |-> 0, until |-> 0,
                  disabledRev |-> 0, disabledAt |-> 0]
    /\ reserved = {}
    /\ session = [s \in Reservations |-> NoSession]
    /\ pausedAt = [s \in Reservations |-> Never]
    /\ snapshots = [s \in Reservations |-> <<>>]
    /\ replacement = [s \in Reservations |-> Never]
    /\ admissions = <<>>
    /\ watch = [w \in Watchers |-> Idle]
    /\ todo = {}
    /\ request = [q \in Requests |-> Idle]
    /\ operator = [p \in Operators |-> Idle]

Enabled(s) == session[s].status = "enabled"
Paused(s) == pausedAt[s] # Never

-----------------------------------------------------------------------------
\* The automatic-trading control (compare_and_set_automatic_trading)

\* status = "enabled" at the reading t: effective, and not expired.
ControlOn(t) == control.on /\ control.since <= t /\ t < control.until

\* A transition: one revision on, at a reading of the clock that is not older
\* than the last transition's.
Enable ==
    /\ ~control.on /\ control.rev < MaxRevision
    /\ \E t \in control.since..now :
          control' = [control EXCEPT !.on = TRUE, !.rev = @ + 1, !.since = t,
                                     !.until = t + Lifetime]
    /\ UNCHANGED <<now, gate, crashes, schedulerVars, authorityVars,
                   threadVars>>

\* Of an enabled control or of an expired one.
Disable ==
    /\ control.on /\ control.rev < MaxRevision
    /\ \E t \in control.since..now :
          control' = [on |-> FALSE, rev |-> control.rev + 1, since |-> t,
                      until |-> 0,
                      disabledRev |-> control.rev + 1, disabledAt |-> t]
    /\ UNCHANGED <<now, gate, crashes, schedulerVars, authorityVars,
                   threadVars>>

-----------------------------------------------------------------------------
\* Budgets (reserve_controlled_session_budget_sync)

Overlap(r, x) ==
    Plan[x].start < Plan[r].expires /\ Plan[x].expires > Plan[r].start

\* The orders that the reservations of S may admit, one for each unit of their
\* reserved_order_count: the size of the set is the sum of the counts.
Slots(S) == {x \in S \X Orders : x[2] \in Plan[x[1]].orders}

\* reserved_gross_units
Gross(S) == MapThenSumSet(LAMBDA x : Plan[x].gross, S)

\* Faulty: only the new reservation's capacity counts.
BudgetFitsOwn(r) ==
    LET overlapping == {x \in reserved : Overlap(r, x)}
    IN  /\ Gross(overlapping \union {r}) <= Plan[r].capital
        /\ Cardinality(Slots(overlapping \union {r})) <= Plan[r].slots

\* What is reserved in any overlapping window counts in full.  The order
\* capacity is the least that any of those reservations was granted, the
\* capital capacity the one evaluated for the new reservation.
BudgetFits(r) ==
    LET overlapping == {x \in reserved : Overlap(r, x)}
    IN  /\ Gross(overlapping \union {r}) <= Plan[r].capital
        /\ \A x \in overlapping \union {r} :
              Cardinality(Slots(overlapping \union {r})) <= Plan[x].slots

Reserve(r) ==
    /\ r \notin reserved
    /\ now < Plan[r].expires
    /\ BudgetFits(r)
    /\ reserved' = reserved \union {r}
    /\ UNCHANGED <<session, pausedAt, snapshots, replacement, admissions,
                   threadVars, worldVars>>

-----------------------------------------------------------------------------
\* Gate observations and the one-way pause

AdmissionsOf(s) == {i \in DOMAIN admissions : admissions[i].session = s}
Admitted(s) == {admissions[i].order : i \in AdmissionsOf(s)}

\* Admissions of the rate window that ends at t.
InWindow(i, t) == t - Window < admissions[i].at /\ admissions[i].at <= t

\* What capture() observes of a session at t.
Observed(s, t) ==
    [at |-> t, rev |-> control.rev,
     clear |-> /\ gate
               /\ ControlOn(t)
               /\ t < Plan[s].expires
               /\ Cardinality(AdmissionsOf(s)) < Cardinality(Plan[s].orders)
               /\ Cardinality({i \in AdmissionsOf(s) : InWindow(i, t)})
                    < Plan[s].rate]

\* ORDER BY observed_at DESC, id DESC: the last of the list is the latest.  Of
\* rows with one time, verdict and control only the last is kept.
Without(list, x) ==
    LET n == CHOOSE i \in DOMAIN list : list[i] = x
    IN  IF \E i \in DOMAIN list : list[i] = x
        THEN SubSeq(list, 1, n - 1) \o SubSeq(list, n + 1, Len(list))
        ELSE list

Filed(list, seen) ==
    LET rest == Without(list, seen)
        n == Cardinality({i \in DOMAIN rest : rest[i].at <= seen.at})
    IN  SubSeq(rest, 1, n) \o <<seen>> \o SubSeq(rest, n + 1, Len(rest))

Rows(s) == {snapshots[s][i] : i \in DOMAIN snapshots[s]}
Latest(s) == snapshots[s][Len(snapshots[s])]

\* latest(): is there a current observation, and is it clear?
ClearNow(s) ==
    /\ snapshots[s] # <<>>
    /\ now - Latest(s).at <= Age
    /\ Latest(s).clear

Watching(w, state) == watch' = [watch EXCEPT ![w] = state]

\* _initialize_runtime(): a failing restore or replay raises and is tried
\* again, an empty watchlist leaves the loop without a runtime.
Initialise ==
    /\ runtime = "none"
    /\ workable
    /\ runtime' = "ready"
    /\ UNCHANGED <<now, gate, control, crashes, workable, authorityVars,
                   threadVars>>

RoundOver == watch[Scheduler] = Idle /\ todo = {}

\* The first thing an iteration does, unless a release is being activated:
\* evaluate_all() lists the enabled sessions and visits each of them.
StartRound ==
    /\ runtime # "none"
    /\ RoundOver
    /\ runtime' = "used"
    /\ todo' = {s \in Reservations : Enabled(s)}
    /\ UNCHANGED <<watch, request, operator, now, gate, control, crashes,
                   workable, authorityVars>>

\* What an iteration does after the round raises: the runtime is given up.
RuntimeFails ==
    /\ runtime = "used"
    /\ RoundOver
    /\ runtime' = "none"
    /\ UNCHANGED <<now, gate, control, crashes, workable, authorityVars,
                   threadVars>>

Capture(w, s) ==
    /\ watch[w] = Idle
    /\ IF w = Scheduler THEN s \in todo ELSE Enabled(s)
    /\ todo' = IF w = Scheduler THEN todo \ {s} ELSE todo
    /\ Watching(w, IF Enabled(s) THEN [step |-> "record", session |-> s,
                                       seen |-> Observed(s, now)]
                                 ELSE Idle)
    /\ UNCHANGED <<request, operator, authorityVars, worldVars>>

\* Faulty: a retired session is still observed.
RecordRetired(w) ==
    /\ watch[w].step = "record"
    /\ LET s == watch[w].session
           seen == watch[w].seen
       IN  /\ Watching(w, [step |-> "judge", session |-> s])
           /\ snapshots' = [snapshots EXCEPT ![s] = Filed(@, seen)]
    /\ UNCHANGED <<reserved, session, pausedAt, replacement, admissions,
                   todo, request, operator, worldVars>>

\* record_controlled_session_gate_snapshot_sync(): the session must still be
\* enabled.
Record(w) ==
    /\ watch[w].step = "record"
    /\ LET s == watch[w].session
           seen == watch[w].seen
       IN  IF Enabled(s)
           THEN /\ Watching(w, [step |-> "judge", session |-> s])
                /\ snapshots' = [snapshots EXCEPT ![s] = Filed(@, seen)]
           ELSE Watching(w, Idle) /\ UNCHANGED snapshots
    /\ UNCHANGED <<reserved, session, pausedAt, replacement, admissions,
                   todo, request, operator, worldVars>>

\* Faulty: only the turn from clear to blocked pauses.
MustPauseOnTurn(s) ==
    /\ Enabled(s) /\ ~Paused(s) /\ ~ClearNow(s)
    /\ Len(snapshots[s]) > 1 => snapshots[s][Len(snapshots[s]) - 1].clear

\* The pause is decided on the latest observation, not on the caller's own.
MustPause(s) == Enabled(s) /\ ~Paused(s) /\ ~ClearNow(s)

\* Faulty: the pause is dated when the observation lapses.
JudgeAtLapse(w) ==
    /\ watch[w].step = "judge"
    /\ LET s == watch[w].session
       IN  Watching(w, IF MustPause(s)
                       THEN [step |-> "pause", session |-> s,
                             at |-> Latest(s).at + Age + 1]
                       ELSE Idle)
    /\ UNCHANGED <<todo, request, operator, authorityVars, worldVars>>

Judge(w) ==
    /\ watch[w].step = "judge"
    /\ LET s == watch[w].session
       IN  Watching(w, IF MustPause(s)
                       THEN [step |-> "pause", session |-> s, at |-> now]
                       ELSE Idle)
    /\ UNCHANGED <<todo, request, operator, authorityVars, worldVars>>

\* pause_controlled_session_sync(): the first pause stays; the session's
\* row is neither read nor written.
Pause(w) ==
    /\ watch[w].step = "pause"
    /\ LET s == watch[w].session
       IN  pausedAt' = [pausedAt EXCEPT ![s] =
                          IF @ = Never THEN watch[w].at ELSE @]
    /\ Watching(w, Idle)
    /\ UNCHANGED <<reserved, session, snapshots, replacement, admissions,
                   todo, request, operator, worldVars>>

\* An evaluation raises; the round goes on with the next session.
EvaluationFails(w) ==
    /\ watch[w] # Idle
    /\ ~workable
    /\ Watching(w, Idle)
    /\ UNCHANGED <<todo, request, operator, authorityVars, worldVars>>

-----------------------------------------------------------------------------
\* Issuance, replacement and revocation

Acting(p, state) == operator' = [operator EXCEPT ![p] = state]

InPlan(r, t) == Plan[r].start <= t /\ t < Plan[r].expires

\* find_enabled_paused_controlled_session_sync(): the paused sessions of a
\* strategy that have not expired.
PausedScope(r) ==
    {s \in Reservations : /\ Plan[s].strategy = Plan[r].strategy
                          /\ Enabled(s) /\ Paused(s)
                          /\ now < Plan[s].expires}

\* preview_issuance(): read before the transaction, and not again in it.
PreviewIssue(p, r) ==
    /\ operator[p] = Idle
    /\ r \in reserved
    /\ InPlan(r, now)
    /\ PausedScope(r) = {}
    /\ Acting(p, [step |-> "issue", target |-> r, at |-> now])
    /\ UNCHANGED <<watch, todo, request, authorityVars, worldVars>>

\* The session is bound to the control revision that issues it.
Issued(t) == [status |-> "enabled", rev |-> control.rev, created |-> t]

\* issue_controlled_session_sync(): an identical session is reused, its row
\* unchanged.
Issue(p) ==
    /\ operator[p].step = "issue"
    /\ LET r == operator[p].target
           t == operator[p].at
       IN  session' = IF session[r].status = "none" /\ ControlOn(t)
                      THEN [session EXCEPT ![r] = Issued(t)]
                      ELSE session
    /\ Acting(p, Idle)
    /\ UNCHANGED <<reserved, pausedAt, snapshots, replacement, admissions,
                   watch, todo, request, worldVars>>

\* Nothing a replacement is given exceeds what its predecessor had.
NoWider(r, s) ==
    /\ Plan[r].strategy = Plan[s].strategy
    /\ Plan[r].orders \subseteq Plan[s].orders
    /\ Plan[r].rate <= Plan[s].rate
    /\ Plan[r].gross <= Plan[s].gross
    /\ Plan[r].expires - Plan[r].start <= Plan[s].expires - Plan[s].start

\* The clear observations since the pause, or since the last blocked one.
Recovery(s) ==
    {i \in DOMAIN snapshots[s] :
        /\ snapshots[s][i].at > pausedAt[s]
        /\ \A k \in i..Len(snapshots[s]) : snapshots[s][k].clear}

\* What preview_replacement() and the transaction both ask of a replacement
\* of s by r, reviewed at t on the observations of first and last.
Replaceable(s, r, first, last, t) ==
    /\ Enabled(s) /\ Paused(s)
    /\ NoWider(r, s)
    /\ pausedAt[s] <= Plan[r].start
    /\ InPlan(r, t)
    /\ last - first >= Stability
    /\ last <= t /\ t - last <= Age

PreviewReplace(p, s, r) ==
    /\ operator[p] = Idle
    /\ r \in reserved /\ r # s
    /\ Enabled(s) /\ Paused(s)
    /\ \A x \in PausedScope(r) : pausedAt[x] <= pausedAt[s]
    /\ Recovery(s) # {}
    /\ LET first == snapshots[s][Min(Recovery(s))].at
       IN  /\ Replaceable(s, r, first, Latest(s).at, now)
           /\ Acting(p, [step |-> "replace", predecessor |-> s, target |-> r,
                         first |-> first, last |-> Latest(s), at |-> now])
    /\ UNCHANGED <<watch, todo, request, authorityVars, worldVars>>

\* Faulty: the recovery is not looked at again.
UninterruptedAsPreviewed(s, c) == c.last \in Rows(s)

\* No observation since the first of the recovery was blocked, and none is
\* later than the last.
Uninterrupted(s, c) ==
    /\ Latest(s) = c.last
    /\ \A x \in Rows(s) : c.first <= x.at /\ x.at <= c.at => x.clear

\* replace_paused_controlled_session_sync(): revoke the one and enable the
\* other, in one transaction.
Replace(p) ==
    /\ operator[p].step = "replace"
    /\ LET c == operator[p]
           s == c.predecessor
           r == c.target
       IN  IF /\ replacement[s] = Never
              /\ session[r].status = "none"
              /\ Replaceable(s, r, c.first, c.last.at, c.at)
              /\ Uninterrupted(s, c)
              /\ ControlOn(c.at)
           THEN /\ session' = [session EXCEPT ![s].status = "revoked",
                                              ![r] = Issued(c.at)]
                /\ replacement' = [replacement EXCEPT ![s] =
                     [successor |-> r, first |-> c.first, last |-> c.last.at,
                      at |-> c.at]]
           ELSE UNCHANGED <<session, replacement>>
    /\ Acting(p, Idle)
    /\ UNCHANGED <<reserved, pausedAt, snapshots, admissions,
                   watch, todo, request, worldVars>>

\* revoke_controlled_session_sync()
Revoke(s) ==
    /\ Enabled(s)
    /\ session' = [session EXCEPT ![s].status = "revoked"]
    /\ UNCHANGED <<reserved, pausedAt, snapshots, replacement, admissions,
                   threadVars, worldVars>>

-----------------------------------------------------------------------------
\* Order admission

Requesting(q, state) == request' = [request EXCEPT ![q] = state]

\* preview() and the reading of the clock that the admission carries.
PreviewAdmit(q, s, o) ==
    /\ request[q] = Idle
    /\ Enabled(s) /\ ~Paused(s)
    /\ InPlan(s, now)
    /\ o \in Plan[s].orders
    /\ ClearNow(s) /\ Latest(s).at <= now
    /\ Requesting(q, [step |-> "admit", session |-> s, order |-> o,
                      seen |-> Latest(s), at |-> now])
    /\ UNCHANGED <<watch, todo, operator, authorityVars, worldVars>>

\* Faulty: the pause that came after the preview is not looked for.
AuthorisedUnlessRevoked(s, seen, t) ==
    /\ Enabled(s)
    /\ InPlan(s, t)
    /\ Latest(s) = seen /\ seen.clear /\ seen.at <= t /\ t - seen.at <= Age
    /\ ControlOn(t) /\ control.rev = seen.rev
    /\ session[s].rev = control.rev

\* Faulty: the enablement of the observation counts, not the session's.
AuthorisedAsObserved(s, seen, t) ==
    /\ Enabled(s) /\ ~Paused(s)
    /\ InPlan(s, t)
    /\ Latest(s) = seen /\ seen.clear /\ seen.at <= t /\ t - seen.at <= Age
    /\ ControlOn(t) /\ control.rev = seen.rev

\* The session, its pause, its latest observation and the enablement it was
\* issued under, all as the transaction finds them.
Authorised(s, seen, t) ==
    /\ Enabled(s) /\ ~Paused(s)
    /\ InPlan(s, t)
    /\ Latest(s) = seen /\ seen.clear /\ seen.at <= t /\ t - seen.at <= Age
    /\ ControlOn(t) /\ control.rev = seen.rev
    /\ session[s].rev = control.rev
    /\ control.disabledRev > 0 =>
          /\ session[s].created > control.disabledAt
          /\ session[s].rev > control.disabledRev

\* Faulty: the rate of the session alone counts.
WithinOwnRate(s, t) ==
    Cardinality({i \in DOMAIN admissions : InWindow(i, t)}) < Plan[s].rate

\* The window is shared by every session of the account, at the least of
\* their rates.
WithinRate(s, t) ==
    LET window == {i \in DOMAIN admissions : InWindow(i, t)}
    IN  /\ Cardinality(window) < Plan[s].rate
        /\ \A i \in window :
              Cardinality(window) < Plan[admissions[i].session].rate

\* admit_controlled_session_order_sync(): an order is admitted once in a
\* session; asked again it is reused or refused, without effect.
Admit(q) ==
    /\ request[q].step = "admit"
    /\ LET c == request[q]
       IN  admissions' =
             IF /\ Authorised(c.session, c.seen, c.at)
                /\ c.order \notin Admitted(c.session)
                /\ WithinRate(c.session, c.at)
             THEN Append(admissions, [session |-> c.session,
                                      order |-> c.order, at |-> c.at])
             ELSE admissions
    /\ Requesting(q, Idle)
    /\ UNCHANGED <<reserved, session, pausedAt, snapshots, replacement,
                   watch, todo, operator, worldVars>>

-----------------------------------------------------------------------------
Tick ==
    /\ now < MaxTime
    /\ now' = now + 1
    /\ UNCHANGED <<gate, control, crashes, schedulerVars, authorityVars,
                   threadVars>>

GateTurns ==
    /\ gate' = ~gate
    /\ UNCHANGED <<now, control, crashes, schedulerVars, authorityVars,
                   threadVars>>

\* A watchlist, what the runtime restores, the storage and the end of a release
\* activation come and go.
WorkTurns ==
    /\ workable' = ~workable
    /\ UNCHANGED <<now, gate, control, crashes, runtime, authorityVars,
                   threadVars>>

\* The server stops between two steps of whatever it is doing.
Crash ==
    /\ crashes < MaxCrashes
    /\ crashes' = crashes + 1
    /\ watch' = [w \in Watchers |-> Idle]
    /\ todo' = {}
    /\ request' = [q \in Requests |-> Idle]
    /\ operator' = [p \in Operators |-> Idle]
    /\ runtime' = "none"
    /\ UNCHANGED <<now, gate, control, workable, authorityVars>>

Evaluate(w) ==
    \/ \E s \in Reservations : Capture(w, s)
    \/ Record(w)
    \/ Judge(w)
    \/ Pause(w)
    \/ EvaluationFails(w)

Operate(p) ==
    \/ \E r \in Reservations : PreviewIssue(p, r)
    \/ Issue(p)
    \/ \E s, r \in Reservations : PreviewReplace(p, s, r)
    \/ Replace(p)

Next ==
    \/ Enable \/ Disable
    \/ \E r \in Reservations : Reserve(r) \/ Revoke(r)
    \/ Initialise \/ StartRound \/ RuntimeFails
    \/ \E w \in Watchers : Evaluate(w)
    \/ \E p \in Operators : Operate(p)
    \/ \E q \in Requests, s \in Reservations, o \in Orders :
          PreviewAdmit(q, s, o)
    \/ \E q \in Requests : Admit(q)
    \/ Tick \/ GateTurns \/ WorkTurns \/ Crash

\* The scheduler's loop goes on, whatever a round has met: it tries to have a
\* runtime, and with one, unless a release is being activated, to begin a round.
Fairness ==
    /\ WF_vars(Initialise)
    /\ WF_vars(workable /\ StartRound)
    /\ WF_vars(Evaluate(Scheduler))

Spec == Init /\ [][Next]_vars /\ Fairness

-----------------------------------------------------------------------------
(* Safety *)

Cover(t) == {r \in reserved : InPlan(r, t)}

\* At any instant, the orders admitted by all the sessions whose windows cover
\* it are within the order capacity of every one of their reservations: the
\* budgets reserved one by one bound what the sessions issued on them, and
\* their replacements, admit together.
OrdersWithinCapacity ==
    \A t \in Times : \A r \in Cover(t) :
        Cardinality({i \in DOMAIN admissions :
                        admissions[i].session \in Cover(t)}) <= Plan[r].slots

InOrder == \A i, k \in DOMAIN admissions :
              i < k => admissions[i].at <= admissions[k].at

\* As long as admissions commit in the order of their clock readings, no rate
\* window of the account holds more of them than the slowest session in it
\* allows.  (A reading that commits late does not see the later ones.)
SharedRateHeld ==
    InOrder =>
      \A i \in DOMAIN admissions :
        LET window == {k \in DOMAIN admissions : InWindow(k, admissions[i].at)}
        IN  \A k \in window :
              Cardinality(window) <= Plan[admissions[k].session].rate

\* A replacement retires a session that was paused, after a recovery that was
\* observed to last and in which no blocked observation is on record, not
\* even one recorded later; no session succeeds two.
ReplacementsEarned ==
    \A s \in Reservations : replacement[s] # Never =>
        LET e == replacement[s]
        IN  /\ session[s].status = "revoked"
            /\ Paused(s) /\ pausedAt[s] < e.first
            /\ e.first + Stability <= e.last
            /\ \A x \in Rows(s) : e.first <= x.at /\ x.at <= e.at => x.clear
            /\ session[e.successor].status # "none" /\ NoWider(e.successor, s)
            /\ \A r \in Reservations \ {s} :
                  replacement[r] # Never =>
                     replacement[r].successor # e.successor

\* A session that was issued before the automatic-trading control was last
\* disabled admits nothing more, though the control be enabled again.
DisableEndsSessions ==
    [][\A s \in Reservations :
          session[s].status # "none" /\ session[s].rev < control.disabledRev
            => Admitted(s)' = Admitted(s)]_vars

\* Sessions implement the one-way authority: a session that is paused, revoked
\* or replaced, whatever its requests had read before, is stopped for good.
Authority == INSTANCE SessionAuthority WITH
    Sessions <- Reservations,
    authority <- [s \in Reservations |->
                    IF session[s].status = "none" THEN "none"
                    ELSE IF Enabled(s) /\ ~Paused(s) THEN "open"
                    ELSE "stopped"],
    passed <- [s \in Reservations |-> Admitted(s)]

OneWayAuthority == Authority!Spec

(* Liveness *)

\* When the gates stay blocked, a session that nobody revokes is paused, also
\* across crashes between the blocked observation and its pause and across
\* runtimes given up after every round, provided that the scheduler can work
\* from some time on.  Without a watchlist, with a restore or a replay of the
\* ledger that keeps failing, during a release activation or when evaluations
\* keep raising, no session is paused by it (scheduler/loop.py:141-164, 429).
BlockedGatesPause ==
    \A s \in Reservations :
        <>[](~gate /\ Enabled(s) /\ workable) => <>Paused(s)
=============================================================================
