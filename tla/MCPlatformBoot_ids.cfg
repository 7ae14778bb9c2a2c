SPECIFICATION Spec
CONSTANTS
    Platforms <- BstaOnly
    CPU_NUM = 2
    IMAGE = 1008
INVARIANT LogicalId
CHECK_DEADLOCK FALSE
