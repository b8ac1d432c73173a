SPECIFICATION Spec
CONSTANTS
    Orders = {o1, o2}
    Workers = {w1, w2}
    NoOrder = NoOrder
    MinWait = 1
    MaxObs = 1
    PromptHandlers = FALSE
SYMMETRY Symmetry
INVARIANTS
    OneRoutePerOrder
    RowsAgree
    OneUnsettledSubmission
    RecordedIsReal
    SubmissionInvariant
PROPERTIES
    ImplementsAuthority
