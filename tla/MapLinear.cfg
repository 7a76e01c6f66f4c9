CONSTANTS
    Capacity = 4
    Keys = {0, 3, 4, 7, 8}
    Values = {v1}
    Probing = "linear"
    Rehash = FALSE
    CountMax = 1
SPECIFICATION Spec
INVARIANTS
    TypeOK
    KeysUnique
    KeysReachable
PROPERTY ImplementsMap
