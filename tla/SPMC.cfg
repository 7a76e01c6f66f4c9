CONSTANTS
    Consumers = {c1, c2}
    Capacity = 2
    SizeMax = 15
    PushSizes = {0, 2, 3}
    PopSizes = {2}
    MaxItems = 5
SPECIFICATION Spec
PROPERTIES
    ImplementsBroadcast
    CallsAreWaitFree
INVARIANTS
    TypeOK
    PushTestsAreSound
    UnreadItemsIntact
    NoDataRace
    PopsReadTheStream
