SPECIFICATION Spec
CONSTANTS
    PLATFORM <- Careful
    NPT = 2
    W = 16
    W64 = 64
    SEC = 4
    EPOCH = 101
    BOOT <- BootTimes
    DEADLINE <- NearDeadlines
    MAX_NOW = 14
INVARIANT WallClock
PROPERTIES
    InTime
    NotEarly
