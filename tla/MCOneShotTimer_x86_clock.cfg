SPECIFICATION Spec
CONSTANTS
    PLATFORM <- OnlyX86
    NPT = 2
    W = 16
    W64 = 64
    SEC = 4
    EPOCH = 101
    BOOT <- BootTimes
    DEADLINE <- NearDeadlines
    MAX_NOW = 14
INVARIANT X86WallClock
