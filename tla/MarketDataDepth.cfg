CONSTANTS
    Stocks = {tsla, gold}
    TargetStock = tsla
    LocateCodes = {tsla, gold, unassigned}
    References = {r1, r2, r3}
    Prices = {10, 11}
    Sizes = {1, 2}
    SharesMax = 15
SPECIFICATION Spec
INVARIANT FullDepth
CHECK_DEADLOCK FALSE
