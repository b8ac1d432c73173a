------------------------- MODULE ManualOrderTickets -------------------------
(***************************************************************************)
(* Manual order tickets: an action task is turned into an order that the   *)
(* operator confirms or rejects.  A ticket is three projections (its row   *)
(* in manual_orders, the shared row in orders, the status of the action    *)
(* task) that one transaction moves, and a claim per command that makes a  *)
(* retry an answer instead of a second write.                              *)
(*                                                                         *)
(* A request reads the rows and builds a command in one step and runs its  *)
(* transaction in another, so any other request may come in between.  The  *)
(* audit events are written by the transaction that writes the claim, and  *)
(* are left out.  Whether the gates pass is left open: a request that they *)
(* block changes nothing and builds no command.                            *)
(***************************************************************************)
CONSTANTS
    Actions,        \* action tasks, each with one possible order
    Legacy,         \* older orders whose payload names no action task
    Terms,          \* what the caller chooses: quantity, price, type, note
    Evidence,       \* what the server adds: gate evidence and a timestamp
    Reasons,        \* reasons of a rejection
    ConfirmNote,    \* the fixed note of a confirmation
    Requests,       \* requests that are served at a time
    Idle,           \* a request slot without a command
    Unset           \* no claim, no payload, no note

Tickets == Actions \union Legacy
Payloads == Terms \X Evidence
Notes == Reasons \union {ConfirmNote}

ASSUME DistinctAssumption == Actions \intersect Legacy = {}
ASSUME UnsetAssumption == Unset \notin Payloads \union Notes

Kinds == {"create", "confirm", "reject"}

\* The statuses that the code writes to an action task or filters by.
ActionStatuses ==
    {"pending", "deferred", "pending_manual_confirmation", "acted", "ignored"}

TicketStatuses == {"none", "pending_confirm", "confirmed", "rejected"}

OrderOutcome == [confirm |-> "confirmed", reject |-> "rejected"]
ActionOutcome == [confirm |-> "acted", reject |-> "ignored"]

\* The part of a command's fingerprint that its key does not determine.
Contents == [create |-> Payloads, confirm |-> {ConfirmNote}, reject |-> Reasons]

Commands ==
    UNION {[kind : {k}, ticket : Tickets, content : Contents[k]] : k \in Kinds}

VARIABLES
    manual,     \* manual_orders.status of an order, "none": no row
    payload,    \* manual_orders.payload_json with the terms it was made of
    note,       \* manual_orders.note
    shared,     \* orders.status of the same order
    action,     \* action_tasks.status
    claims,     \* order_state_command_claims: kind -> ticket -> fingerprint
    request,    \* the command that a request has built
    told        \* the answers so far, a history

rowVars == <<manual, payload, note, shared, action, claims>>
vars == <<rowVars, request, told>>

Init ==
    /\ manual = [t \in Tickets |->
                    IF t \in Legacy THEN "pending_confirm" ELSE "none"]
    /\ shared = manual
    /\ payload = [t \in Tickets |-> Unset]
    /\ note = [t \in Tickets |-> Unset]
    /\ action = [a \in Actions |-> "pending"]
    /\ claims = [k \in Kinds |-> [t \in Tickets |-> Unset]]
    /\ request = [r \in Requests |-> Idle]
    /\ told = {}

-----------------------------------------------------------------------------
(***************************************************************************)
(* Requests: what they read and the command they build.                    *)
(***************************************************************************)
Build(r, k, t, c) ==
    /\ request[r] = Idle
    /\ request' = [request EXCEPT ![r] =
                      [kind |-> k, ticket |-> t, content |-> c]]
    /\ UNCHANGED <<rowVars, told>>

\* The first request for an action brings the evidence of the current gates;
\* a later one repeats the evidence that the ticket has stored.
AskCreate(r, a, terms) ==
    \/ /\ manual[a] = "none"
       /\ \E e \in Evidence : Build(r, "create", a, <<terms, e>>)
    \/ /\ manual[a] # "none"
       /\ Build(r, "create", a, <<terms, payload[a][2]>>)

\* Only an order with an action task can be confirmed.
AskConfirm(r, a) ==
    /\ manual[a] # "none"
    /\ Build(r, "confirm", a, ConfirmNote)

AskReject(r, t, reason) ==
    /\ manual[t] # "none"
    /\ Build(r, "reject", t, reason)

-----------------------------------------------------------------------------
(***************************************************************************)
(* Transactions.                                                           *)
(***************************************************************************)
Answer(r) ==
    LET c == request[r] IN
    /\ told' = told \union
          {[ticket |-> c.ticket, kind |-> c.kind, content |-> c.content,
            status |-> manual'[c.ticket], payload |-> payload'[c.ticket],
            note |-> note'[c.ticket]]}
    /\ request' = [request EXCEPT ![r] = Idle]

Unclaimed(c) == claims[c.kind][c.ticket] = Unset
ClaimFor(c) == claims' = [claims EXCEPT ![c.kind][c.ticket] = c.content]

CreateTicket(r) ==
    LET c == request[r] IN
    /\ c # Idle
    /\ c.kind = "create"
    /\ Unclaimed(c)
    /\ manual[c.ticket] = "none"
    /\ shared[c.ticket] = "none"
    /\ action[c.ticket] = "pending"
    /\ manual' = [manual EXCEPT ![c.ticket] = "pending_confirm"]
    /\ shared' = [shared EXCEPT ![c.ticket] = "pending_confirm"]
    /\ payload' = [payload EXCEPT ![c.ticket] = c.content]
    /\ action' = [action EXCEPT ![c.ticket] = "pending_manual_confirmation"]
    /\ UNCHANGED note
    /\ ClaimFor(c)
    /\ Answer(r)

\* The compare on the action task alone (mutant).
MayMoveByAction(c) ==
    c.ticket \in Actions => action[c.ticket] = "pending_manual_confirmation"

\* The compare of the compare-and-set, on every projection.
MayMove(c) ==
    /\ manual[c.ticket] = "pending_confirm"
    /\ shared[c.ticket] = "pending_confirm"
    /\ c.ticket \in Actions => action[c.ticket] = "pending_manual_confirmation"

\* The shared row is forgotten (mutant).
MoveManualRow(c) ==
    /\ manual' = [manual EXCEPT ![c.ticket] = OrderOutcome[c.kind]]
    /\ UNCHANGED shared

MoveOrderRows(c) ==
    /\ manual' = [manual EXCEPT ![c.ticket] = OrderOutcome[c.kind]]
    /\ shared' = [shared EXCEPT ![c.ticket] = OrderOutcome[c.kind]]

MoveTicket(r) ==
    LET c == request[r] IN
    /\ c # Idle
    /\ c.kind \in {"confirm", "reject"}
    /\ Unclaimed(c)
    /\ MayMove(c)
    /\ MoveOrderRows(c)
    /\ note' = [note EXCEPT ![c.ticket] = c.content]
    /\ action' = IF c.ticket \in Actions
                 THEN [action EXCEPT ![c.ticket] = ActionOutcome[c.kind]]
                 ELSE action
    /\ UNCHANGED payload
    /\ ClaimFor(c)
    /\ Answer(r)

\* Any command of a claimed key is a retry (mutant).
MayReplayByKey(c) ==
    /\ ~Unclaimed(c)
    /\ shared[c.ticket] = manual[c.ticket]

\* The command was claimed with the same fingerprint, and the projections are
\* where it left them; a created ticket may have been decided since.
MayReplay(c) ==
    /\ ~Unclaimed(c)
    /\ claims[c.kind][c.ticket] = c.content
    /\ shared[c.ticket] = manual[c.ticket]
    /\ c.kind # "create" =>
          /\ manual[c.ticket] = OrderOutcome[c.kind]
          /\ c.ticket \in Actions =>
                action[c.ticket] = ActionOutcome[c.kind]

Replay(r) ==
    /\ request[r] # Idle
    /\ MayReplay(request[r])
    /\ UNCHANGED rowVars
    /\ Answer(r)

\* A check refuses the command, or its transaction fails and rolls back, or
\* its process is gone before it ran.
Drop(r) ==
    /\ request[r] # Idle
    /\ request' = [request EXCEPT ![r] = Idle]
    /\ UNCHANGED <<rowVars, told>>

\* PATCH /api/signals/actions/{id}: whatever status it is given.
UpdateActionStatus(a, status) ==
    /\ action' = [action EXCEPT ![a] = status]
    /\ UNCHANGED <<manual, payload, note, shared, claims, request, told>>

RequestStep(r) ==
    \/ \E a \in Actions, terms \in Terms : AskCreate(r, a, terms)
    \/ \E a \in Actions : AskConfirm(r, a)
    \/ \E t \in Tickets, reason \in Reasons : AskReject(r, t, reason)
    \/ CreateTicket(r)
    \/ MoveTicket(r)
    \/ Replay(r)
    \/ Drop(r)

Next ==
    \/ \E r \in Requests : RequestStep(r)
    \/ \E a \in Actions, status \in ActionStatuses : UpdateActionStatus(a, status)

Spec == Init /\ [][Next]_vars

-----------------------------------------------------------------------------
(***************************************************************************)
(* Properties.                                                             *)
(***************************************************************************)
Answers ==
    UNION {[ticket : Tickets, kind : {k}, content : Contents[k],
            status : TicketStatuses, payload : Payloads \union {Unset},
            note : Notes \union {Unset}] : k \in Kinds}

TypeOK ==
    /\ manual \in [Tickets -> TicketStatuses]
    /\ shared \in [Tickets -> TicketStatuses]
    /\ payload \in [Tickets -> Payloads \union {Unset}]
    /\ note \in [Tickets -> Notes \union {Unset}]
    /\ action \in [Actions -> ActionStatuses]
    /\ claims \in [Kinds -> [Tickets -> Payloads \union Notes \union {Unset}]]
    /\ request \in [Requests -> Commands \union {Idle}]
    /\ told \subseteq Answers

\* Both order rows say the same, and an order is where its claims put it.
RowsFollowClaims ==
    \A t \in Tickets :
        /\ shared[t] = manual[t]
        /\ manual[t] = "none" <=>
              t \in Actions /\ claims["create"][t] = Unset
        /\ manual[t] = "confirmed" <=> claims["confirm"][t] # Unset
        /\ manual[t] = "rejected" <=> claims["reject"][t] # Unset
        /\ payload[t] = claims["create"][t]
        /\ note[t] = IF manual[t] = "confirmed" THEN claims["confirm"][t]
                     ELSE claims["reject"][t]

\* Every answer told the caller what he asked for, and is still what the rows
\* say, but that an answer about an open ticket may since have been overtaken
\* by its decision.
AnswersStand ==
    \A x \in told :
        /\ manual[x.ticket] # "none"
        /\ x.payload = payload[x.ticket]
        /\ x.kind = "create" => x.content = payload[x.ticket]
        /\ x.kind # "create" =>
              /\ manual[x.ticket] = OrderOutcome[x.kind]
              /\ x.status = OrderOutcome[x.kind]
              /\ x.content = note[x.ticket]
              /\ x.note = note[x.ticket]

\* The rows, the claims and the answers given agree, over every order of
\* creations, decisions, retries with the same and with other contents, failed
\* transactions and hand-made changes of the action task.
TicketInvariant == TypeOK /\ RowsFollowClaims /\ AnswersStand

\* No two answers about one order contradict each other: the same terms, and
\* one decision with one note, whoever asked and however often.
AnswersAgree ==
    \A x, y \in told : x.ticket = y.ticket =>
        /\ x.payload = y.payload
        /\ x.kind # "create" /\ y.kind # "create" =>
              x.kind = y.kind /\ x.note = y.note

Book == INSTANCE TicketBook WITH decision <- manual

\* Commands, claims and projections implement a book of tickets that are
\* written once and decided at most once.
ImplementsTicketBook == Book!Spec
=============================================================================
