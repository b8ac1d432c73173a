-------------------------- MODULE AttemptAllowance --------------------------
(***************************************************************************)
(* What the job queue promises of a job, whoever runs it: it is started at *)
(* most Base[j] times on its own account, it is run by one holder at a time,  *)
(* an attempt that was deferred is given back to it and any other is       *)
(* spent, and it ends once.                                                *)
(***************************************************************************)
EXTENDS Integers

CONSTANTS
    Jobs,       \* the jobs
    Base        \* attempts each job has on its own account

VARIABLES
    state,      \* "absent", "open", "succeeded" or "failed"
    charged,    \* attempts spent by the job, the current one included
    held        \* does a holder run it now?

vars == <<state, charged, held>>

Init ==
    /\ state = [j \in Jobs |-> "absent"]
    /\ charged = [j \in Jobs |-> 0]
    /\ held = [j \in Jobs |-> FALSE]

Becomes(j, s, c, h) ==
    /\ DOMAIN state' = Jobs /\ DOMAIN charged' = Jobs /\ DOMAIN held' = Jobs
    /\ state'[j] = s /\ charged'[j] = c /\ held'[j] = h

\* What may become of one job in one step; a step may move several jobs.
Admit(j)   == state[j] = "absent" /\ Becomes(j, "open", 0, FALSE)
\* A new holder, of a free job or of one whose holder lapsed.
Begin(j)   == /\ state[j] = "open" /\ charged[j] < Base[j]
              /\ Becomes(j, "open", charged[j] + 1, TRUE)
\* The holder reports a failure and the job has an attempt left.
PutBack(j) == /\ state[j] = "open" /\ held[j] /\ charged[j] < Base[j]
              /\ Becomes(j, "open", charged[j], FALSE)
\* The holder could not work at all.
Forgive(j) == /\ state[j] = "open" /\ held[j]
              /\ Becomes(j, "open", charged[j] - 1, FALSE)
Succeed(j) == /\ state[j] = "open" /\ held[j]
              /\ Becomes(j, "succeeded", charged[j], FALSE)
\* The holder gives up, the job is stopped while it waits, or the last
\* holder lapsed.
GiveUp(j)  == /\ state[j] = "open"
              /\ Becomes(j, "failed", charged[j], FALSE)
Stay(j)    == Becomes(j, state[j], charged[j], held[j])

Move(j) == Admit(j) \/ Begin(j) \/ PutBack(j) \/ Forgive(j) \/ Succeed(j)
           \/ GiveUp(j)

Next == \A j \in Jobs : Stay(j) \/ Move(j)

Spec == Init /\ [][Next]_vars
=============================================================================
