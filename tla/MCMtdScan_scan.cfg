SPECIFICATION Spec
CONSTANTS
    Names <- SomeNames
    CutTo <- NamePrefixes
    Allocated = 3
    BufferLines = 2
    Nothing = Nothing
INVARIANTS
    FoundIsCurrent
    MissedIsAbsent
    NamesAccounted
