SPECIFICATION Spec
CONSTANTS
    MaxPriority = 15
    MaxTries = 7
    Callers = {c1}
    Faults <- NoFaults
INVARIANT
    ConfirmationIsRecorded
