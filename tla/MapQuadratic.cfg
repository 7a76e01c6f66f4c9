CONSTANTS
    Capacity = 4
    Keys = {0, 3, 4, 7, 8}
    Values = {v1}
    Probing = "quadratic"
    Rehash = FALSE
    CountMax = 1
SPECIFICATION Spec
PROPERTY ImplementsMap
