SPECIFICATION Spec
CONSTANTS
    MaxPriority = 15
    MaxTries = 1
    Threads = {t1, t2}
    Packets = {p1, p2}
    Factory = Factory
    Damaged = Damaged
    Absent = Absent
    Images <- OneImage
    Faults <- NoFaults
SYMMETRY Interchangeable
INVARIANT
    SuccessIsSwitched
PROPERTY
    RunningSlotUntouched
