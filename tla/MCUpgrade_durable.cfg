SPECIFICATION Spec
CONSTANTS
    MaxPriority = 15
    MaxTries = 1
    Threads = {t1}
    Packets = {p1, p2}
    Factory = Factory
    Damaged = Damaged
    Absent = Absent
    Images <- BootWithAndWithoutSystem
    Faults <- StorageFaults
INVARIANTS
    SwitchIsDurable
    FailureBlocksSwitch
    SwitchLeavesNoImage
