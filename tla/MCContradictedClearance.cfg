SPECIFICATION Spec
CONSTANTS
    Orders = {o1, o2, o3}
    Workers = {w1}
    NoOrder = NoOrder
    MinWait = 1
    MaxObs = 1
    PromptHandlers = TRUE
SYMMETRY Symmetry
PROPERTY ContradictionBlocksPrepare
