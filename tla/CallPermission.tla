--------------------------- MODULE CallPermission ---------------------------
(***************************************************************************)
(* What the research worker's job promises about calls of the provider:    *)
(* permission to call is granted to one execution at a time, always to a   *)
(* newer one; a call is announced by the execution that holds it, and one  *)
(* announcement is good for one call.  A closed job grants no permission,  *)
(* and a failed one is reopened so many times only.                        *)
(*                                                                         *)
(* When calls are prompt, the permission is neither granted nor withdrawn  *)
(* from the announcement of a call to its end, and so there is only one    *)
(* call.  When they are not, one that was announced by a holder may be     *)
(* made after others have come to hold the permission.                     *)
(*                                                                         *)
(* Nothing here is about clocks, leases, heartbeats or the fence:          *)
(* ResearchWorkerJobs implements this specification.                       *)
(***************************************************************************)
EXTENDS Integers

CONSTANTS
    MaxReopenings,
    Prompt          \* BOOLEAN: is a call made as soon as it is announced?

VARIABLES
    job,        \* "absent", "open", "failed" or "closed"
    holder,     \* the execution that may announce a call, 0: none
    granted,    \* grants so far: the n-th is to execution n
    announced,  \* the executions that have announced a call and not made it
    calling,    \* the executions with a call in progress
    reopened    \* how often the failed job was opened again

callVars == <<announced, calling>>
vars == <<job, holder, granted, callVars, reopened>>

Init ==
    /\ job = "absent" /\ holder = 0 /\ granted = 0
    /\ announced = {} /\ calling = {} /\ reopened = 0

\* What a prompt call has to itself from its announcement to its end.
Undisturbed == Prompt => announced = {} /\ calling = {}

Create ==
    /\ job = "absent"
    /\ job' = "open"
    /\ UNCHANGED <<holder, granted, callVars, reopened>>

\* To the next execution, also while the last one, dead or stuck, holds it.
Grant ==
    /\ job = "open" /\ Undisturbed
    /\ granted' = granted + 1
    /\ holder' = granted'
    /\ UNCHANGED <<job, callVars, reopened>>

Announce ==
    /\ holder # 0 /\ holder \notin announced \union calling /\ Undisturbed
    /\ announced' = announced \union {holder}
    /\ UNCHANGED <<job, holder, granted, calling, reopened>>

Call(e) ==
    /\ e \in announced
    /\ announced' = announced \ {e}
    /\ calling' = calling \union {e}
    /\ UNCHANGED <<job, holder, granted, reopened>>

\* Calls end or, once announced, are not made: those of a process that died
\* together.
Cease ==
    /\ announced' \subseteq announced /\ calling' \subseteq calling
    /\ UNCHANGED <<job, holder, granted, reopened>>

\* The holder's result, or the deadline.
Conclude(outcome) ==
    /\ job = "open" /\ Undisturbed
    /\ holder # 0 \/ outcome = "closed"
    /\ job' = outcome
    /\ holder' = 0
    /\ UNCHANGED <<granted, callVars, reopened>>

Reopen ==
    /\ job = "failed" /\ reopened < MaxReopenings
    /\ job' = "open"
    /\ reopened' = reopened + 1
    /\ UNCHANGED <<holder, granted, callVars>>

Next ==
    \/ Create \/ Grant \/ Announce \/ Cease \/ Reopen
    \/ \E e \in announced : Call(e)
    \/ \E outcome \in {"open", "failed", "closed"} : Conclude(outcome)

Spec == Init /\ [][Next]_vars
=============================================================================
