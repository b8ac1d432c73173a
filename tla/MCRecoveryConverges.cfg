SPECIFICATION FairSpec
CONSTANTS
    Orders = {o1}
    Workers = {w1, w2}
    NoOrder = NoOrder
    MinWait = 2
    MaxObs = 0
    PromptHandlers = FALSE
PROPERTY RecoveryConverges
