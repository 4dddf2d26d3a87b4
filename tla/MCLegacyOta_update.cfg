SPECIFICATION Spec
CONSTANTS
    MaxPriority = 15
    MaxTries = 2
    Procs = {c1}
    Packets = {p1}
    Devices = {TRUE, FALSE}
    Factory = Factory
    Damaged = Damaged
    Absent = Absent
    Images <- OneImage
    Selections <- Choices
    Faults <- AllFaults
INVARIANTS
    TypeOk
    
    SwitchNamesTarget
    ConfirmIsRecorded
PROPERTIES
    RunningSlotSpared
