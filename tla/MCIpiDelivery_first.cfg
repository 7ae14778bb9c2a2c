SPECIFICATION FairSpec
CONSTANTS
    CPU_NUM = 2
    SENDER <- TwoSenders
    PLATFORM <- ClearingFirst
INVARIANT NoLostIpi
PROPERTY Delivered
