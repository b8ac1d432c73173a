-------------------------- MODULE SessionAuthority --------------------------
(***************************************************************************)
(* What a controlled session promises: it is an authority that is opened   *)
(* once, that is stopped for good, and that passes each order at most      *)
(* once, only while it is open.  A stopped session may be succeeded by     *)
(* another, which is opened in the step that retires it.                   *)
(*                                                                         *)
(* Nothing here is about gates, clocks, budgets or requests:               *)
(* ControlledSessions implements this specification.                       *)
(***************************************************************************)
EXTENDS Naturals

CONSTANTS
    Sessions,   \* session identities
    Orders      \* the orders they may pass

VARIABLES
    authority,  \* session -> "none", "open" or "stopped"
    passed      \* session -> the orders it has passed

vars == <<authority, passed>>

Init ==
    /\ authority = [s \in Sessions |-> "none"]
    /\ passed = [s \in Sessions |-> {}]

Open(s) ==
    /\ authority[s] = "none"
    /\ authority' = [authority EXCEPT ![s] = "open"]
    /\ UNCHANGED passed

Stop(s) ==
    /\ authority[s] = "open"
    /\ authority' = [authority EXCEPT ![s] = "stopped"]
    /\ UNCHANGED passed

Pass(s, o) ==
    /\ authority[s] = "open"
    /\ o \notin passed[s]
    /\ passed' = [passed EXCEPT ![s] = @ \union {o}]
    /\ UNCHANGED authority

Next ==
    \E s \in Sessions :
        \/ Open(s)
        \/ Stop(s)
        \/ \E o \in Orders : Pass(s, o)

Spec == Init /\ [][Next]_vars
=============================================================================
