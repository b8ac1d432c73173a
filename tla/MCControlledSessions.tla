------------------------ MODULE MCControlledSessions ------------------------
(***************************************************************************)
(* ControlledSessions on a small instance.  The environment of a behaviour *)
(* is one of a few profiles, each with what one question needs: a pause    *)
(* and its replacement; an enablement that ends while orders are admitted; *)
(* a pause, a revocation or a crash against a request; budgets that do not *)
(* fit together; the rate that two sessions share; a scheduler that cannot *)
(* always work.                                                            *)
(***************************************************************************)
EXTENDS ControlledSessions, TLC

CONSTANTS r1, r2, r3, o1, o2, w1, q1, q2, p1

Envelope(start, expires, orders, rate, slots) ==
    [strategy |-> "s1", start |-> start, expires |-> expires,
     orders |-> orders, rate |-> rate, slots |-> slots,
     gross |-> Cardinality(orders), capital |-> 4]

\* r1 and r2 fit together, and r2 replaces r1 or r1 goes beside it; r3 fits
\* with either of them but not with both.
MCPlan == (r1 :> Envelope(0, 3, {o1, o2}, 3, 3))
       @@ (r2 :> Envelope(1, 4, {o2}, 1, 3))
       @@ (r3 :> Envelope(0, 4, {o1}, 3, 2))

VARIABLES
    may,    \* the profile: what the environment may do in this behaviour
    turns,  \* how often its gates may still turn
    works   \* how often what the scheduler depends on may still turn

Profiles ==
    << [reservations |-> {r1, r2}, issued |-> {r1}, early |-> TRUE,
       time |-> 2, revisions |-> 1, orders |-> {},
       watchers |-> {Scheduler, w1}, requests |-> {}, turns |-> 2,
       revoke |-> FALSE, crashes |-> 0, work |-> 0, prompt |-> {Scheduler}],
       [reservations |-> {r1}, issued |-> {r1}, early |-> FALSE,
       time |-> 2, revisions |-> 3, orders |-> {o1},
       watchers |-> {w1}, requests |-> {q1}, turns |-> 0,
       revoke |-> FALSE, crashes |-> 0, work |-> 0, prompt |-> {w1, p1}],
       [reservations |-> {r1}, issued |-> {r1}, early |-> TRUE,
       time |-> 1, revisions |-> 1, orders |-> {o1},
       watchers |-> {Scheduler, w1}, requests |-> {q1}, turns |-> 1,
       revoke |-> TRUE, crashes |-> 1, work |-> 0, prompt |-> {p1}],
       [reservations |-> {r1, r3}, issued |-> {r1, r3}, early |-> TRUE,
       time |-> 1, revisions |-> 1, orders |-> {o1, o2},
       watchers |-> {w1}, requests |-> {q1}, turns |-> 0,
       revoke |-> FALSE, crashes |-> 0, work |-> 0, prompt |-> {w1, p1}],
       [reservations |-> {r1, r2}, issued |-> {r1, r2}, early |-> TRUE,
       time |-> 2, revisions |-> 1, orders |-> {o1, o2},
       watchers |-> {w1}, requests |-> {q1, q2}, turns |-> 0,
       revoke |-> FALSE, crashes |-> 0, work |-> 0, prompt |-> {w1, p1, q2}],
       [reservations |-> {r1}, issued |-> {r1}, early |-> TRUE,
       time |-> 1, revisions |-> 1, orders |-> {},
       watchers |-> {Scheduler}, requests |-> {}, turns |-> 2,
       revoke |-> FALSE, crashes |-> 1, work |-> 2, prompt |-> {p1}] >>

Profile == Profiles[may]

\* Gates that never turn hold.  The scheduler's last chance to work is not taken
\* away by the bound.
MCInit ==
    /\ Init
    /\ may \in DOMAIN Profiles
    /\ turns = Profile.turns
    /\ turns = 0 => gate
    /\ works \in 0..Profile.work
    /\ workable = (works % 2 = 0)

\* Early: budgets and enablements come first, and at once.  A scheduler
\* that nothing stops starts at once and keeps its runtime; one whose rounds do
\* not matter meets no session.
Allowed ==
    /\ reserved' \subseteq Profile.reservations
    /\ Profile.early /\ (reserved' # reserved \/ control'.rev # control.rev) =>
          /\ now = 0
          /\ \A s \in Reservations : session[s].status = "none"
    /\ \A p \in Operators :
          operator'[p] # Idle /\ operator'[p].step = "issue" =>
             operator'[p].target \in Profile.issued
    /\ now' <= Profile.time
    /\ control'.rev <= Profile.revisions
    /\ \A w \in Watchers \ Profile.watchers : watch'[w] = Idle
    /\ \A q \in Requests \ Profile.requests : request'[q] = Idle
    /\ Scheduler \notin Profile.watchers => todo' = {}
    /\ Profile.work = 0 =>
          /\ runtime # "used" => runtime' # runtime
          /\ runtime = "used" /\ runtime' = "none" => crashes' # crashes
    /\ \A q \in Requests :
          request'[q] # Idle => request'[q].order \in Profile.orders
    /\ crashes' <= Profile.crashes
    /\ ~Profile.revoke => \A s \in Reservations :
          session'[s].status = "revoked" => replacement'[s] # Never
    /\ gate' # gate => turns > 0
    /\ may' = may
    /\ turns' = IF gate' # gate THEN turns - 1 ELSE turns
    /\ workable' # workable => works > 0
    /\ works' = IF workable' # workable THEN works - 1 ELSE works

\* Prompt: who has begun goes on first.
Begun ==
    {w \in Watchers \intersect Profile.prompt : watch[w] # Idle}
    \union {p \in Operators \intersect Profile.prompt : operator[p] # Idle}
    \union {q \in Requests \intersect Profile.prompt : request[q] # Idle}

GoOn ==
    \/ \E w \in Begun \intersect Watchers : Evaluate(w)
    \/ \E p \in Begun \intersect Operators : Operate(p)
    \/ \E q \in Begun \intersect Requests : Admit(q)
    \/ Crash

MCNext ==
    /\ IF Begun # {} THEN GoOn ELSE Next
    /\ Allowed

MCSpec == MCInit /\ [][MCNext]_<<vars, may, turns, works>> /\ Fairness
=============================================================================
