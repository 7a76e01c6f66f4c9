CONSTANTS
    Window = 4
    TscRange = 8
    Steps <- MCSteps
    Quantiles <- MCQuantiles
    SamplesMax = 6
SPECIFICATION Spec
INVARIANTS
    LastSamplesKept
    QuantilesOfTheLast
    BackwardSamplesShow
CHECK_DEADLOCK FALSE
