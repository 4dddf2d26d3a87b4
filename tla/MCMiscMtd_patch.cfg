SPECIFICATION MiscSpec
CONSTANTS
    N = 3
    E = 2
    MaxUnits = 3
    MaxCall = 6
    MaxFaults = 2
    Pages = 2
    Ranges <- TwoRanges
INVARIANTS
    ReadsWhatWasWritten
    OthersKept
PROPERTY
    ToolReturns
