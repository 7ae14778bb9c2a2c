SPECIFICATION FairSpec
CONSTANTS
    CPU_NUM = 2
    SENDER <- TwoSenders
    PLATFORM <- ClearingLast
PROPERTY Delivered
