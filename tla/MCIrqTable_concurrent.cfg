SPECIFICATION FairSpec
CONSTANTS
    t1 = t1
    t2 = t2
    t3 = t3
    h1 = h1
    h2 = h2
    Caller <- ThreeCallers
    Handler <- TwoHandlers
    NoHandler = NoHandler
    CONTROLLED = TRUE
INVARIANT RegisteredIsEnabled
INVARIANT LiveIsTable
PROPERTY RaisedIsServed
