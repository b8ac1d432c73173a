SPECIFICATION Spec
CONSTANTS
    Orders = {o1, o2}
    Workers = {w1, w2}
    NoOrder = NoOrder
    MinWait = 2
    MaxObs = 1
    PromptHandlers = TRUE
SYMMETRY Symmetry
INVARIANTS
    KillSwitchExposure
    SerialInvariant
PROPERTIES
    QueriesSpaced
    ImplementsStrictAuthority
