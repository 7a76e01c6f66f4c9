CONSTANTS
    Stocks = {tsla, gold}
    TargetStock = tsla
    LocateCodes = {tsla, gold, unassigned}
    References = {r1, r2, r3, r4}
    Prices = {10, 11}
    Sizes = {1, 2}
    SharesMax = 15
SYMMETRY Interchangeable
SPECIFICATION Spec
INVARIANTS
    TypeOK
    RecordsAreLive
    OnlyEarlyOrdersMissed
    BookShowsTheRecords
    BookIntact
PROPERTY CrashesExplained
CHECK_DEADLOCK FALSE
