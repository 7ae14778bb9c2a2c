SPECIFICATION FairSpec
CONSTANTS
    CPU_NUM = 4
    PRIMARY <- OutsidePrimary
    SHARED_SLOT = TRUE
    BROKEN <- OneMayFail
    NoStack = NoStack
INVARIANTS
    TypeOK
    PrivateStacks
    HandlerBeforeIrqs
    FailureBlocksPrimary
    TicksGoOn
PROPERTIES
    BringUpSpec
    PowersOff
\* The machine stops at system_off; a CPU that does not start stops the others.
CHECK_DEADLOCK FALSE
