SPECIFICATION Spec
CONSTANTS
    t1 = t1
    t2 = t2
    t3 = t3
    h1 = h1
    h2 = h2
    Caller <- TwoCallers
    Handler <- TwoHandlers
    NoHandler = NoHandler
    CONTROLLED = TRUE
PROPERTY UnregisterDisables
