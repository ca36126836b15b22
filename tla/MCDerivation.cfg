SPECIFICATION Spec
CONSTANTS
    case1 = case1
    case2 = case2
    None = None
    Units <- MCUnits
    Cases = {case1}
    SegmentSize = 2
    MaxSegments = 2
    BlockSize = 3
    MaxSize <- MCMaxSize
    MaxChanges = 1
CHECK_DEADLOCK FALSE
INVARIANTS
    TypeOK
    Faithful
    AsPlanned
    ShortIsPartial
