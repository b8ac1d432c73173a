SPECIFICATION Spec
CONSTANTS
    Orders = {o1, o2}
    Workers = {w1, w2}
    NoOrder = NoOrder
    MinWait = 1
    MaxObs = 0
    PromptHandlers = FALSE
SYMMETRY Symmetry
INVARIANT LiveOrderBlocksOthers
