CONSTANTS
    Consumers = {c1, c2}
    Capacity = 8
    SizeMax = 31
    PushSizes = {4, 5, 6}
    PopSizes = {1, 2, 3}
    MaxItems = 15
    SizeWidth = 2
    HeaderWidth = 1
    Files <- MCFiles
SPECIFICATION FairPipelineSpec
PROPERTIES
    ImplementsReplay
    ReplayEnds
    CompleteFramesArrive
INVARIANTS
    PipelineTypeOK
    StreamIsThePrefix
    PollsAreAligned
    RestOfFrameIsThere
