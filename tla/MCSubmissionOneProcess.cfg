SPECIFICATION CancelSpec
CONSTANTS
    Orders = {o1, o2}
    Workers = {w1}
    NoOrder = NoOrder
    MinWait = 1
    MaxObs = 2
    MaxQueries = 2
    PromptHandlers = FALSE
SYMMETRY Symmetry
INVARIANTS
    LiveOrderBlocksOthers
    OneCancelPerLiveOrder
PROPERTIES
    ImplementsSubmission
    NewestQueryKept
