CONSTANTS
    Actions = {a1}
    Legacy = {l1}
    Terms = {t1, t2}
    Evidence = {e1, e2}
    Reasons = {n1, n2}
    ConfirmNote = ConfirmNote
    Requests = {q1, q2, q3}
    Idle = Idle
    Unset = Unset
SPECIFICATION Spec
SYMMETRY MCSymmetry
INVARIANTS TicketInvariant AnswersAgree
PROPERTY ImplementsTicketBook
