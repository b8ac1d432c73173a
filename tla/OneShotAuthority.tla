-------------------------- MODULE OneShotAuthority --------------------------
(***************************************************************************)
(* What controlled execution promises about a manually confirmed order:    *)
(* its confirmation is an authority that is spent once and for good, on    *)
(* one route (a manual ticket or the broker gateway); at most one order    *)
(* at a time has a submission whose outcome is not settled; and at most    *)
(* one submit call per order ever leaves for the broker.                   *)
(*                                                                         *)
(* Nothing here is about handlers, transactions, retries or time:          *)
(* ControlledSubmission implements this specification.                     *)
(***************************************************************************)
CONSTANTS
    Orders,     \* the manually confirmed orders
    LateSends   \* BOOLEAN: may a call leave after its submission was closed?

VARIABLES
    authority,  \* order -> what its confirmation has been spent on
    sent        \* orders for which a submit call has left for the broker

vars == <<authority, sent>>

Authorities ==
    {"unspent", "ticketed", "pending", "live", "dead", "settled"}

TypeOK ==
    /\ authority \in [Orders -> Authorities]
    /\ sent \subseteq Orders

Open(o) == authority[o] \in {"pending", "live"}

Init ==
    /\ authority = [o \in Orders |-> "unspent"]
    /\ sent = {}

Become(o, from, to) ==
    /\ authority[o] = from
    /\ authority' = [authority EXCEPT ![o] = to]
    /\ UNCHANGED sent

Ticket(o) == Become(o, "unspent", "ticketed")

Spend(o) ==
    /\ \A p \in Orders \ {o} : ~Open(p)
    /\ Become(o, "unspent", "pending")

Send(o) ==
    /\ o \notin sent
    /\ \/ authority[o] = "pending"
       \/ LateSends /\ authority[o] = "dead"
    /\ sent' = sent \cup {o}
    /\ UNCHANGED authority

Confirm(o) == o \in sent /\ Become(o, "pending", "live")

Close(o) == Become(o, "pending", "dead")

Settle(o) == Become(o, "live", "settled")

Next ==
    \E o \in Orders :
        \/ Ticket(o) \/ Spend(o) \/ Send(o)
        \/ Confirm(o) \/ Close(o) \/ Settle(o)

Spec == Init /\ [][Next]_vars
=============================================================================
