SPECIFICATION FairSpec
CONSTANTS
    MaxPriority = 15
    MaxTries = 1
    Threads = {t1}
    Packets = {p1}
    Factory = Factory
    Damaged = Damaged
    Absent = Absent
    Images <- OneImage
    Faults <- AllFaults
PROPERTIES
    CallReturns
    ImplementsAbBoot
