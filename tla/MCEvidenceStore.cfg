SPECIFICATION Spec
CONSTANTS
    a = a
    b = b
    c = c
    d = d
    n1 = n1
    n10 = n10
    case1 = case1
    case2 = case2
    None = None
    Ops = {a, b}
    ManifestNames = {a, b}
    Names <- MCNames
    Cases <- MCCases
    NameOf <- MCNameOf
    Adopts <- MCAdopts
    CaseOf <- MCCaseOf
    PostVerify <- MCPostVerify
    ManifestOf <- OwnManifest
    SizeOf <- MCSizeOf
    Overlap = TRUE
    Faults = {"interrupt", "crash", "power", "io"}
    MaxChunks = 1
CHECK_DEADLOCK FALSE
INVARIANTS
    TypeOK
    FinalIsWhole
    WriterRecordsTrue
    AllRecordsTrue
    ExitMatchesEvidence
PROPERTIES
    NoClobber
    NothingDeleted
    RefinesCustody
