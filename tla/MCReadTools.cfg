CONSTANTS
    Tools <- ReadingTools
    Ids <- FourIds
    Present = 3
    Keys <- ThreeKeys
    Wanted <- TwoWanted
    Limits <- OneToThree
    Selectors <- NamesAndIds
    Cap = 2
    ScanLimit = 2
    Ceiling = 2
    LogFetch = 3
    Start = 1
    MaxMessages = 2
    MaxBytes = 3
    MaxEdits = 1
    None = None
    End = End
SPECIFICATION Spec
INVARIANTS
    WalkIsComplete
    EventsOnce
    SelectedIsUnique
    StreamIsWhole
    RegistryIsHonest
PROPERTY WalkEnds
CHECK_DEADLOCK FALSE
