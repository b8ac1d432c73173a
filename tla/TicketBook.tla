----------------------------- MODULE TicketBook -----------------------------
(***************************************************************************)
(* What manual order tickets promise whoever asks for them: a ticket is    *)
(* written once, is decided at most once, and every answer says what is    *)
(* written, to a caller who asked for just that.                           *)
(*                                                                         *)
(* Nothing here is about claims, projections, actions or retries:          *)
(* ManualOrderTickets implements this specification.                       *)
(***************************************************************************)
CONSTANTS
    Tickets,    \* order identities
    Payloads,   \* what a ticket may say
    Notes,      \* what may be noted on a decision
    Unset       \* the note of an undecided ticket

VARIABLES
    decision,   \* ticket -> "none", "pending_confirm", "confirmed", "rejected"
    payload,    \* ticket -> what it says
    note,       \* ticket -> the note on its decision
    told        \* the answers given so far

vars == <<decision, payload, note, told>>

\* Some tickets may be older than the book.
Init ==
    /\ decision \in [Tickets -> {"none", "pending_confirm"}]
    /\ payload \in [Tickets -> Payloads \union {Unset}]
    /\ note = [t \in Tickets |-> Unset]
    /\ told = {}

\* The answer to a request of this kind and content is ticket t as written.
Tell(t, kind, content) ==
    told' = told \union {[ticket |-> t, kind |-> kind, content |-> content,
                          status |-> decision'[t], payload |-> payload'[t],
                          note |-> note'[t]]}

Write(t, p) ==
    /\ decision[t] = "none"
    /\ decision' = [decision EXCEPT ![t] = "pending_confirm"]
    /\ payload' = [payload EXCEPT ![t] = p]
    /\ UNCHANGED note
    /\ Tell(t, "create", p)

Decide(t, kind, s, n) ==
    /\ decision[t] = "pending_confirm"
    /\ decision' = [decision EXCEPT ![t] = s]
    /\ note' = [note EXCEPT ![t] = n]
    /\ UNCHANGED payload
    /\ Tell(t, kind, n)

Repeat(t, kind) ==
    /\ \/ kind = "create" /\ decision[t] # "none"
       \/ kind = "confirm" /\ decision[t] = "confirmed"
       \/ kind = "reject" /\ decision[t] = "rejected"
    /\ UNCHANGED <<decision, payload, note>>
    /\ Tell(t, kind, IF kind = "create" THEN payload[t] ELSE note[t])

Next ==
    \E t \in Tickets :
        \/ \E p \in Payloads : Write(t, p)
        \/ \E n \in Notes : Decide(t, "confirm", "confirmed", n)
        \/ \E n \in Notes : Decide(t, "reject", "rejected", n)
        \/ \E kind \in {"create", "confirm", "reject"} : Repeat(t, kind)

Spec == Init /\ [][Next]_vars
=============================================================================
