SPECIFICATION Spec
CONSTANTS
    Paths <- MCPaths
    ClassOrder <- MCClassOrder
    ClassOf <- MCClassOf
    Slots = 6
    Contents <- MCContents
    None = None
    Link = Link
    Source = "o1"
    MaxSegments = 2
    SegmentPath <- MCSegmentPath
    SlotOf <- MCSlotOf
    MaxAttempts = 2
    Image = "o2"
    Partial = "o2.partial"
    ImageSlot = 5
    RivalSlot = 4
    Stray = "w"
    Starts <- MCStarts
    Exposed <- MCExposed
    MaxMeddling = 1
    Apart = TRUE
INVARIANTS
    TypeOK
    VerdictIsTrue
    EveryFindingHasACause
    ReportCovers
    ContainerSealed
CHECK_DEADLOCK FALSE
