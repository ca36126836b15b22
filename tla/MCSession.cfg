SPECIFICATION Spec
CONSTANTS
    Sizes <- MCSizes
    LinkSize = 1
    FreeSpace <- MCFreeSpace
    MaxChanges = 2
    MaxLines = 2
    None = None
INVARIANTS
    TypeOK
    ShortCaptureIsSaid
    FreshlyAsked
    CtrlCIsForGood
    NeverClosedByAFailure
PROPERTY AnswersWereTrue
CHECK_DEADLOCK FALSE
