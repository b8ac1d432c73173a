---------------------- MODULE ManualOrderTicketsProofs ----------------------
(***************************************************************************)
(* Proofs about ManualOrderTickets, for any number of actions, orders,     *)
(* requests and choices of a caller.                                       *)
(***************************************************************************)
EXTENDS ManualOrderTickets, TLAPS

-----------------------------------------------------------------------------
(***************************************************************************)
(* Commands.                                                               *)
(***************************************************************************)
LEMMA CommandParts ==
    ASSUME NEW c \in Commands
    PROVE  /\ c.kind \in Kinds
           /\ c.ticket \in Tickets
           /\ c.content \in Payloads \union Notes
           /\ c.kind = "create" => c.content \in Payloads
           /\ c.kind # "create" => c.content \in Notes
           /\ c.content \in Contents[c.kind]
<1>1. PICK k \in Kinds :
         c \in [kind : {k}, ticket : Tickets, content : Contents[k]]
  BY DEF Commands
<1>2. c.kind = k /\ c.ticket \in Tickets /\ c.content \in Contents[k]
  BY <1>1
<1> QED
  BY <1>2 DEF Kinds, Contents, Notes

LEMMA CommandIs ==
    ASSUME NEW k \in Kinds, NEW t \in Tickets, NEW c \in Contents[k]
    PROVE  [kind |-> k, ticket |-> t, content |-> c] \in Commands
<1>1. [kind |-> k, ticket |-> t, content |-> c]
         \in [kind : {k}, ticket : Tickets, content : Contents[k]]
  OBVIOUS
<1> QED
  BY <1>1 DEF Commands

LEMMA AnswerIs ==
    ASSUME NEW k \in Kinds, NEW t \in Tickets, NEW c \in Contents[k],
           NEW s \in TicketStatuses, NEW p \in Payloads \union {Unset},
           NEW n \in Notes \union {Unset}
    PROVE  [ticket |-> t, kind |-> k, content |-> c, status |-> s,
            payload |-> p, note |-> n] \in Answers
<1>1. [ticket |-> t, kind |-> k, content |-> c, status |-> s,
       payload |-> p, note |-> n]
         \in [ticket : Tickets, kind : {k}, content : Contents[k],
              status : TicketStatuses, payload : Payloads \union {Unset},
              note : Notes \union {Unset}]
  OBVIOUS
<1> QED
  BY <1>1 DEF Answers

LEMMA AnswerParts ==
    ASSUME NEW x \in Answers
    PROVE  x.ticket \in Tickets /\ x.kind \in Kinds
<1>1. PICK k \in Kinds :
         x \in [ticket : Tickets, kind : {k}, content : Contents[k],
                status : TicketStatuses, payload : Payloads \union {Unset},
                note : Notes \union {Unset}]
  BY DEF Answers
<1> QED
  BY <1>1

-----------------------------------------------------------------------------
(***************************************************************************)
(* The invariant holds at first.                                           *)
(***************************************************************************)
LEMMA TicketInvariantInit == Init => TicketInvariant
<1> SUFFICES ASSUME Init PROVE TicketInvariant
  OBVIOUS
<1>1. TypeOK
  BY DEF Init, TypeOK, TicketStatuses, ActionStatuses
<1>2. RowsFollowClaims
  BY DistinctAssumption
     DEF Init, RowsFollowClaims, Tickets, Kinds
<1>3. AnswersStand
  BY DEF Init, AnswersStand
<1> QED
  BY <1>1, <1>2, <1>3 DEF TicketInvariant

-----------------------------------------------------------------------------
(***************************************************************************)
(* Every step keeps it.                                                    *)
(***************************************************************************)

\* A step that only builds or drops a command.
LEMMA RequestsAlone ==
    ASSUME TicketInvariant, UNCHANGED <<rowVars, told>>,
           request' \in [Requests -> Commands \union {Idle}]
    PROVE  TicketInvariant'
BY DEF TicketInvariant, TypeOK, RowsFollowClaims, AnswersStand, rowVars

LEMMA BuildKeeps ==
    ASSUME TicketInvariant, NEW r \in Requests, NEW k \in Kinds,
           NEW t \in Tickets, NEW c \in Contents[k], Build(r, k, t, c)
    PROVE  TicketInvariant'
<1>1. [kind |-> k, ticket |-> t, content |-> c] \in Commands
  BY CommandIs
<1>2. request' \in [Requests -> Commands \union {Idle}]
  BY <1>1 DEF Build, TicketInvariant, TypeOK
<1> QED
  BY <1>2, RequestsAlone DEF Build

LEMMA PayloadIsThere ==
    ASSUME TicketInvariant, NEW a \in Actions, manual[a] # "none"
    PROVE  payload[a] \in Payloads
BY UnsetAssumption
   DEF TicketInvariant, TypeOK, RowsFollowClaims, Tickets, Kinds

LEMMA AskKeeps ==
    ASSUME TicketInvariant, NEW r \in Requests,
           \/ \E a \in Actions, terms \in Terms : AskCreate(r, a, terms)
           \/ \E a \in Actions : AskConfirm(r, a)
           \/ \E t \in Tickets, reason \in Reasons : AskReject(r, t, reason)
    PROVE  TicketInvariant'
<1>1. CASE \E a \in Actions, terms \in Terms : AskCreate(r, a, terms)
  <2>1. PICK a \in Actions, terms \in Terms : AskCreate(r, a, terms)
    BY <1>1
  <2>2. a \in Tickets /\ "create" \in Kinds /\ Contents["create"] = Payloads
    BY DEF Tickets, Kinds, Contents
  <2>3. ASSUME NEW e \in Evidence, Build(r, "create", a, <<terms, e>>)
        PROVE  TicketInvariant'
    <3>1. <<terms, e>> \in Contents["create"]
      BY <2>2 DEF Payloads
    <3> QED
      BY <2>2, <2>3, <3>1, BuildKeeps
  <2>4. ASSUME manual[a] # "none",
               Build(r, "create", a, <<terms, payload[a][2]>>)
        PROVE  TicketInvariant'
    <3>1. <<terms, payload[a][2]>> \in Contents["create"]
      BY <2>2, <2>4, PayloadIsThere DEF Payloads
    <3> QED
      BY <2>2, <2>4, <3>1, BuildKeeps
  <2> QED
    BY <2>1, <2>3, <2>4 DEF AskCreate
<1>2. CASE \E a \in Actions : AskConfirm(r, a)
  <2>1. ConfirmNote \in Contents["confirm"] /\ "confirm" \in Kinds
    BY DEF Contents, Kinds
  <2> QED
    BY <1>2, <2>1, BuildKeeps DEF AskConfirm, Tickets
<1>3. CASE \E t \in Tickets, reason \in Reasons : AskReject(r, t, reason)
  <2>1. Reasons = Contents["reject"] /\ "reject" \in Kinds
    BY DEF Contents, Kinds
  <2> QED
    BY <1>3, <2>1, BuildKeeps DEF AskReject
<1> QED
  BY <1>1, <1>2, <1>3

\* What an answer adds to the type of the history.
LEMMA AnswerTyped ==
    ASSUME TypeOK, NEW r \in Requests, request[r] # Idle, Answer(r),
           manual' \in [Tickets -> TicketStatuses],
           payload' \in [Tickets -> Payloads \union {Unset}],
           note' \in [Tickets -> Notes \union {Unset}]
    PROVE  /\ told' \subseteq Answers
           /\ request' \in [Requests -> Commands \union {Idle}]
<1> DEFINE c == request[r]
<1>1. c \in Commands
  BY DEF TypeOK
<1>2. c.kind \in Kinds /\ c.ticket \in Tickets /\ c.content \in Contents[c.kind]
  BY <1>1, CommandParts
<1>3. /\ manual'[c.ticket] \in TicketStatuses
      /\ payload'[c.ticket] \in Payloads \union {Unset}
      /\ note'[c.ticket] \in Notes \union {Unset}
  BY <1>2
<1>4. [ticket |-> c.ticket, kind |-> c.kind, content |-> c.content,
       status |-> manual'[c.ticket], payload |-> payload'[c.ticket],
       note |-> note'[c.ticket]] \in Answers
  BY <1>2, <1>3, AnswerIs
<1> QED
  BY <1>4 DEF Answer, TypeOK

LEMMA CreateKeeps ==
    ASSUME TicketInvariant, NEW r \in Requests, CreateTicket(r)
    PROVE  TicketInvariant'
<1> DEFINE c == request[r]
<1>1. c \in Commands /\ c.kind = "create" /\ manual[c.ticket] = "none"
  BY DEF CreateTicket, TicketInvariant, TypeOK
<1>2. c.ticket \in Tickets /\ c.content \in Payloads
  BY <1>1, CommandParts
<1>3. c.ticket \in Actions /\ c.content # Unset
  BY <1>1, <1>2, UnsetAssumption DEF TicketInvariant, RowsFollowClaims
<1>4. TypeOK'
  <2>1. /\ manual' \in [Tickets -> TicketStatuses]
        /\ shared' \in [Tickets -> TicketStatuses]
        /\ payload' \in [Tickets -> Payloads \union {Unset}]
        /\ note' \in [Tickets -> Notes \union {Unset}]
        /\ action' \in [Actions -> ActionStatuses]
    BY <1>2, <1>3
       DEF CreateTicket, TicketInvariant, TypeOK, TicketStatuses, ActionStatuses
  <2>2. claims' \in [Kinds -> [Tickets -> Payloads \union Notes \union {Unset}]]
    BY <1>1, <1>2 DEF CreateTicket, ClaimFor, TicketInvariant, TypeOK, Kinds
  <2> QED
    BY <2>1, <2>2, AnswerTyped DEF CreateTicket, TicketInvariant, TypeOK
<1>5. RowsFollowClaims'
  BY <1>1, <1>2, <1>3
     DEF CreateTicket, ClaimFor, TicketInvariant, TypeOK, RowsFollowClaims, Kinds
<1>6. AnswersStand'
  <2>1. ASSUME NEW x \in told PROVE x.ticket \in Tickets /\ x.ticket # c.ticket
    BY <1>1, AnswerParts DEF TicketInvariant, TypeOK, AnswersStand
  <2>2. \A t \in Tickets : t # c.ticket =>
           manual'[t] = manual[t] /\ payload'[t] = payload[t] /\ note'[t] = note[t]
    BY DEF CreateTicket, TicketInvariant, TypeOK
  <2>3. manual'[c.ticket] = "pending_confirm" /\ payload'[c.ticket] = c.content
    BY <1>2 DEF CreateTicket, TicketInvariant, TypeOK
  <2> QED
    BY <1>1, <2>1, <2>2, <2>3
       DEF CreateTicket, Answer, TicketInvariant, AnswersStand
<1> QED
  BY <1>4, <1>5, <1>6 DEF TicketInvariant

LEMMA MoveKeeps ==
    ASSUME TicketInvariant, NEW r \in Requests, MoveTicket(r)
    PROVE  TicketInvariant'
<1> DEFINE c == request[r]
<1>1. c \in Commands /\ c.kind \in {"confirm", "reject"}
  BY DEF MoveTicket, TicketInvariant, TypeOK
<1>2. c.ticket \in Tickets /\ c.content \in Notes /\ c.content # Unset
  BY <1>1, CommandParts, UnsetAssumption
<1>3. manual[c.ticket] = "pending_confirm"
  BY DEF MoveTicket, MayMove
<1>4. TypeOK'
  <2>1. /\ manual' \in [Tickets -> TicketStatuses]
        /\ shared' \in [Tickets -> TicketStatuses]
    BY <1>1, <1>2
       DEF MoveTicket, MoveOrderRows, TicketInvariant, TypeOK, TicketStatuses,
           OrderOutcome
  <2>2. /\ payload' \in [Tickets -> Payloads \union {Unset}]
        /\ note' \in [Tickets -> Notes \union {Unset}]
    BY <1>2 DEF MoveTicket, TicketInvariant, TypeOK
  <2>3. action' \in [Actions -> ActionStatuses]
    BY <1>1
       DEF MoveTicket, TicketInvariant, TypeOK, ActionStatuses, ActionOutcome
  <2>4. claims' \in [Kinds -> [Tickets -> Payloads \union Notes \union {Unset}]]
    BY <1>1, <1>2 DEF MoveTicket, ClaimFor, TicketInvariant, TypeOK, Kinds
  <2> QED
    BY <2>1, <2>2, <2>3, <2>4, AnswerTyped
       DEF MoveTicket, TicketInvariant, TypeOK
<1>5. RowsFollowClaims'
  BY <1>1, <1>2, <1>3
     DEF MoveTicket, MoveOrderRows, ClaimFor, TicketInvariant, TypeOK,
         RowsFollowClaims, Kinds, OrderOutcome
<1>6. AnswersStand'
  <2>1. ASSUME NEW x \in told
        PROVE  /\ x.ticket \in Tickets /\ x.kind \in Kinds
               /\ x.kind # "create" => x.ticket # c.ticket
    BY <1>3, AnswerParts
       DEF TicketInvariant, TypeOK, AnswersStand, OrderOutcome, Kinds
  <2>2. \A t \in Tickets : t # c.ticket =>
           manual'[t] = manual[t] /\ note'[t] = note[t]
    BY DEF MoveTicket, MoveOrderRows, TicketInvariant, TypeOK
  <2>3. /\ manual'[c.ticket] = OrderOutcome[c.kind]
        /\ manual'[c.ticket] # "none"
        /\ note'[c.ticket] = c.content
        /\ payload' = payload
    BY <1>1, <1>2
       DEF MoveTicket, MoveOrderRows, TicketInvariant, TypeOK, OrderOutcome
  <2> QED
    BY <1>1, <2>1, <2>2, <2>3
       DEF MoveTicket, Answer, TicketInvariant, AnswersStand
<1> QED
  BY <1>4, <1>5, <1>6 DEF TicketInvariant

LEMMA ReplayKeeps ==
    ASSUME TicketInvariant, NEW r \in Requests, Replay(r)
    PROVE  TicketInvariant'
<1> DEFINE c == request[r]
<1>1. c \in Commands /\ MayReplay(c) /\ UNCHANGED rowVars
  BY DEF Replay, TicketInvariant, TypeOK
<1>2. c.kind \in Kinds /\ c.ticket \in Tickets
      /\ c.content # Unset /\ claims[c.kind][c.ticket] = c.content
  BY <1>1, CommandParts, UnsetAssumption DEF MayReplay
<1>3. TypeOK'
  BY <1>1, AnswerTyped DEF Replay, TicketInvariant, TypeOK, rowVars
<1>4. RowsFollowClaims'
  BY <1>1 DEF TicketInvariant, RowsFollowClaims, rowVars
<1>5. CASE c.kind = "create"
  <2>1. manual[c.ticket] # "none" /\ c.content = payload[c.ticket]
    BY <1>2, <1>5 DEF TicketInvariant, RowsFollowClaims, Tickets
  <2> QED
    BY <1>1, <1>3, <1>4, <1>5, <2>1
       DEF Replay, Answer, TicketInvariant, AnswersStand, rowVars
<1>6. CASE c.kind # "create"
  <2>1. /\ manual[c.ticket] = OrderOutcome[c.kind]
        /\ manual[c.ticket] # "none"
        /\ c.content = note[c.ticket]
    BY <1>1, <1>2, <1>6
       DEF MayReplay, TicketInvariant, RowsFollowClaims, OrderOutcome, Kinds
  <2> QED
    BY <1>1, <1>3, <1>4, <1>6, <2>1
       DEF Replay, Answer, TicketInvariant, AnswersStand, rowVars
<1> QED
  BY <1>5, <1>6

LEMMA TicketInvariantStep ==
    ASSUME TicketInvariant, [Next]_vars
    PROVE  TicketInvariant'
<1>1. ASSUME NEW r \in Requests, RequestStep(r) PROVE TicketInvariant'
  <2>1. CASE Drop(r)
    BY <2>1, RequestsAlone DEF Drop, TicketInvariant, TypeOK
  <2> QED
    BY <1>1, <2>1, AskKeeps, CreateKeeps, MoveKeeps, ReplayKeeps DEF RequestStep
<1>2. ASSUME NEW a \in Actions, NEW status \in ActionStatuses,
             UpdateActionStatus(a, status)
      PROVE  TicketInvariant'
  BY <1>2
     DEF UpdateActionStatus, TicketInvariant, TypeOK, RowsFollowClaims,
         AnswersStand
<1>3. CASE UNCHANGED vars
  BY <1>3
     DEF vars, rowVars, TicketInvariant, TypeOK, RowsFollowClaims, AnswersStand
<1> QED
  BY <1>1, <1>2, <1>3 DEF Next

\* Rows, claims and answers agree over every interleaving of creations,
\* decisions, retries, failed transactions and hand-made status changes.
THEOREM TicketInvariance == Spec => []TicketInvariant
BY TicketInvariantInit, TicketInvariantStep, PTL DEF Spec

-----------------------------------------------------------------------------
(***************************************************************************)
(* What callers are told.                                                  *)
(***************************************************************************)

\* No two answers about one order contradict each other: a retry, however
\* late, repeats what the first answer said.
THEOREM OneStory == Spec => []AnswersAgree
<1>1. TicketInvariant => AnswersAgree
  BY AnswerParts
     DEF TicketInvariant, TypeOK, AnswersStand, AnswersAgree, OrderOutcome, Kinds
<1> QED
  BY <1>1, TicketInvariance, PTL

LEMMA BookInit == Init => Book!Init
BY DEF Init, Book!Init

LEMMA BookCreate ==
    ASSUME TicketInvariant, NEW r \in Requests, CreateTicket(r)
    PROVE  Book!Next
<1> DEFINE c == request[r]
<1>1. c \in Commands /\ c.kind = "create"
  BY DEF CreateTicket, TicketInvariant, TypeOK
<1>2. c.ticket \in Tickets /\ c.content \in Payloads
  BY <1>1, CommandParts
<1>3. Book!Write(c.ticket, c.content)
  BY <1>1 DEF CreateTicket, Answer, Book!Write, Book!Tell
<1> QED
  BY <1>2, <1>3 DEF Book!Next

LEMMA BookMove ==
    ASSUME TicketInvariant, NEW r \in Requests, MoveTicket(r)
    PROVE  Book!Next
<1> DEFINE c == request[r]
<1>1. c \in Commands /\ c.kind \in {"confirm", "reject"}
  BY DEF MoveTicket, TicketInvariant, TypeOK
<1>2. c.ticket \in Tickets /\ c.content \in Notes
  BY <1>1, CommandParts
<1>3. Book!Decide(c.ticket, c.kind, OrderOutcome[c.kind], c.content)
  BY DEF MoveTicket, MoveOrderRows, MayMove, Answer, Book!Decide, Book!Tell
<1> QED
  BY <1>1, <1>2, <1>3 DEF Book!Next, OrderOutcome

LEMMA BookReplay ==
    ASSUME TicketInvariant, NEW r \in Requests, Replay(r)
    PROVE  Book!Next
<1> DEFINE c == request[r]
<1>1. c \in Commands /\ MayReplay(c) /\ UNCHANGED rowVars
  BY DEF Replay, TicketInvariant, TypeOK
<1>2. c.kind \in Kinds /\ c.ticket \in Tickets
      /\ c.content # Unset /\ claims[c.kind][c.ticket] = c.content
  BY <1>1, CommandParts, UnsetAssumption DEF MayReplay
<1>3. CASE c.kind = "create"
  <2>1. manual[c.ticket] # "none" /\ c.content = payload[c.ticket]
    BY <1>2, <1>3 DEF TicketInvariant, RowsFollowClaims, Tickets
  <2>2. Book!Repeat(c.ticket, "create")
    BY <1>1, <1>3, <2>1 DEF Replay, Answer, rowVars, Book!Repeat, Book!Tell
  <2> QED
    BY <1>2, <2>2 DEF Book!Next
<1>4. CASE c.kind # "create"
  <2>1. manual[c.ticket] = OrderOutcome[c.kind] /\ c.content = note[c.ticket]
    BY <1>1, <1>2, <1>4
       DEF MayReplay, TicketInvariant, RowsFollowClaims, OrderOutcome, Kinds
  <2>2. Book!Repeat(c.ticket, c.kind)
    BY <1>1, <1>2, <1>4, <2>1
       DEF Replay, Answer, rowVars, Book!Repeat, Book!Tell, OrderOutcome, Kinds
  <2> QED
    BY <1>2, <2>2 DEF Book!Next, Kinds
<1> QED
  BY <1>3, <1>4

LEMMA BookStep ==
    ASSUME TicketInvariant, [Next]_vars
    PROVE  [Book!Next]_(Book!vars)
<1>1. ASSUME NEW r \in Requests, RequestStep(r)
      PROVE  Book!Next \/ UNCHANGED Book!vars
  <2>1. CASE \/ \E a \in Actions, terms \in Terms : AskCreate(r, a, terms)
             \/ \E a \in Actions : AskConfirm(r, a)
             \/ \E t \in Tickets, reason \in Reasons : AskReject(r, t, reason)
             \/ Drop(r)
    BY <2>1
       DEF AskCreate, AskConfirm, AskReject, Build, Drop, rowVars, Book!vars
  <2> QED
    BY <1>1, <2>1, BookCreate, BookMove, BookReplay DEF RequestStep
<1>2. ASSUME NEW a \in Actions, NEW status \in ActionStatuses,
             UpdateActionStatus(a, status)
      PROVE  UNCHANGED Book!vars
  BY <1>2 DEF UpdateActionStatus, Book!vars
<1>3. CASE UNCHANGED vars
  BY <1>3 DEF vars, rowVars, Book!vars
<1> QED
  BY <1>1, <1>2, <1>3 DEF Next

\* Commands, claims and three projections implement a book in which a ticket
\* is written once, is decided at most once, and is read back as written.
THEOREM TicketRefinement == Spec => ImplementsTicketBook
BY TicketInvariance, BookInit, BookStep, PTL
   DEF Spec, ImplementsTicketBook, Book!Spec
=============================================================================
