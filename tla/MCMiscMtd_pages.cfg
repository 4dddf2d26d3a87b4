SPECIFICATION MiscSpec
CONSTANTS
    N = 3
    E = 2
    MaxUnits = 2
    MaxCall = 6
    MaxFaults = 1
    Pages = 2
    Ranges <- TwoRanges
INVARIANT
    TwentyPagesSuffice
