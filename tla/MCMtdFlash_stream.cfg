SPECIFICATION Spec
CONSTANTS
    N = 3
    E = 2
    MaxUnits = 5
    MaxCall = 4
    MaxFaults = 2
INVARIANTS
    TypeOk
    WrittenInOrder
    FindsWriteStart
    FailsOnlyWhenFull
    RoundTrip
    StraysOnlyGivenUp
    ReadFailsOnlyAtEnd
PROPERTIES
    BadBlocksSpared
    SkipsAreJustified
