SPECIFICATION FairSpec
CONSTANTS
    Platforms <- AllUarts
    Thread <- Threads
    Handler <- Handlers
    Uart <- UartHandler
    Cpu <- CpuOf
    Jobs <- JobsOf
    INPUT <- Keys
    MAX_RW_SIZE = 2
    MAX_LOST = 1
    None = None
INVARIANTS
    TypeOK
    NoMixing
    LineEnds
    AllOut
    NoSelfDeadlock
PROPERTIES
    EveryCallEnds
    InputIsEchoed
\* The model stops when every call has been made.
CHECK_DEADLOCK FALSE
