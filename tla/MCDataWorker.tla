---------------------------- MODULE MCDataWorker ----------------------------
(***************************************************************************)
(* The data worker on small deployments, see the README for the choice.    *)
(***************************************************************************)
EXTENDS DataWorker, TLC

CONSTANTS j1, j2, j3, w1, w2

\* The allowance of three attempts is two here, or one.
MCBase == (j1 :> 2) @@ (j2 :> 1) @@ (j3 :> 1)

K(kind, gen) == [kind |-> kind, gen |-> gen]

Deployment(k1, k2, k3, fleet, crashCount) ==
    [payload |-> (j1 :> k1) @@ (j2 :> k2) @@ (j3 :> k3), fleet |-> fleet,
     crashes |-> crashCount]

None == K("none", 0)

MCDeployments == {
    \* one job between two worker processes
    Deployment(K("verified", 0), None, None, {w1, w2}, 1),
    \* one daily input, planned under two generations
    Deployment(None, K("verified", 1), K("verified", 2), {w1, w2}, 0),
    \* a calendar job delays the claim of a corporate action day
    Deployment(K("action", 1), K("calendar", 0), None, {w1}, 0),
    \* the historical kinds share the budget
    Deployment(K("collection", 0), K("verified", 0), None, {w1}, 0)}

\* Where daily inputs are planned under two generations, the owner opts in
\* and opts in again.  A slot is given back there under the first generation
\* and for a spent budget only.
Daily == \E j \in OfKind("verified") : Payload(j).gen # 0

\* A job is stopped where it is the only one.
Alone == \A j \in Jobs : Payload(j).kind # "none" => j = j1

\* The second process is a successor: it starts when the opt-in has been
\* replaced, or the only job has been claimed.
Succeeds == IF Daily THEN lastGen = 2 ELSE row[j1].attempt > 0

\* The places threads get to in a step.
Reached == {work'[w] : w \in {v \in Workers : work'[v] # work[v]}}

Allowed ==
    /\ Succeeds \/ stage[w2] # "down" \/ stage'[w2] = "down"
    /\ Daily => /\ optIn' = lastGen'
                /\ lastGen = 2 => "deferred" \notin Reached
                /\ "unavailable" \notin Reached
    /\ ~Alone => \A j \in Jobs :
          row[j].status = "queued" => row'[j].status # "failed"

\* A slot given back raises max for good, and the next claim attempt: only
\* their difference decides anything.  The row of a queued job is renumbered at
\* once, so that a job may be deferred for ever in finitely many states.  An
\* attempt number is never issued twice to a worker that still attends it.
Raised == {j \in Jobs : row[j].status = "queued" /\ row[j].max > Base[j]}

Renumber ==
    /\ Raised # {}
    /\ row' = [j \in Jobs |->
                 IF j \in Raised
                 THEN [row[j] EXCEPT !.attempt = @ - 1, !.max = @ - 1]
                 ELSE row[j]]
    /\ UNCHANGED <<used, deployment, today, policyVars, workerVars,
                   prepareVars, historyVars>>

MCNext == Renumber \/ (Raised = {} /\ Next /\ Allowed)

MCFairness ==
    /\ WF_vars(Tick) /\ WF_vars(Midnight) /\ WF_vars(Renumber)
    /\ \A w \in Workers :
          /\ WF_vars((Loop(w) \/ Attend(w)) /\ Allowed)
          /\ SF_vars(EndForward(w, FALSE))

MCSpec == Init /\ [][MCNext]_vars /\ MCFairness
=============================================================================
