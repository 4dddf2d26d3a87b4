SPECIFICATION FairSpec
CONSTANTS
    MaxPriority = 15
    MaxTries = 7
    Callers = {c1, c2}
    Faults <- AllFaults
INVARIANTS
    AttemptsBounded
    ResetKeepsSlot
    IInv
PROPERTIES
    SwitchStands
    ReturnsToWorkingSlot
