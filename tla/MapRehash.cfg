CONSTANTS
    Capacity = 4
    Keys = {0, 1, 2, 3, 6}
    Values = {v1}
    Probing = "linear"
    Rehash = TRUE
    CountMax = 5
SPECIFICATION Spec
INVARIANT OnlyWrappedKeysLost
