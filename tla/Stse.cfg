CONSTANTS
    Types <- MCTypes
    ArgLists <- MCArgLists
    MemorySize = 40
SPECIFICATION Spec
INVARIANTS
    OnlyMisplacedTypesDisagree
    RoundTrip
    RestOfObject
    SchemaTellsWhatIsCopied
PROPERTY WritesItsOwnBytes
