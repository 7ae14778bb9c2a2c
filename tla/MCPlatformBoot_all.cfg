SPECIFICATION FairSpec
CONSTANTS
    Platforms <- AllPlatforms
    CPU_NUM = 3
    IMAGE = 1008
INVARIANTS
    TypeOK
    NoFault
    InitOrder
    EntryContract
    OwnStack
PROPERTIES
    LiveTable
    Completes
\* The machine stops at system_off.
CHECK_DEADLOCK FALSE
