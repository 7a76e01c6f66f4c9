CONSTANTS
    Stocks = {tsla, gold}
    TargetStock = tsla
    LocateCodes = {tsla, gold}
    References = {0, 1, 2}
    Prices = {10}
    Sizes = {1, 2}
    SharesMax = 7
    Capacity = 2
    Probing = "linear"
SPECIFICATION Spec
INVARIANT TypeOK
PROPERTIES
    ImplementsMarketData
    SaturationExplained
CHECK_DEADLOCK FALSE
