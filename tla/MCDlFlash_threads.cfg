SPECIFICATION Spec
CONSTANTS
    Threads = {t1, t2}
    Partitions = {f1, f2}
    Descriptors = {1, 2}
    MaxBlocks = 3
    HalfRange = 2
SYMMETRY Interchangeable
INVARIANTS
    
    DescriptorKept
    NothingAstray
    SuccessIsComplete
    NothingLeaks
