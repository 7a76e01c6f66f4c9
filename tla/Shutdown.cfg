CONSTANTS
    Workers = {w1, w2}
    Addresses <- MCAddresses
    Placement <- Lowest
    FileSizes = {0, 2}
    ThreadPages = 1
    RingPages = 1
SPECIFICATION FairSpec
INVARIANTS
    LossesExplained
    NothingLeaked
PROPERTY ShutdownEnds
CHECK_DEADLOCK FALSE
