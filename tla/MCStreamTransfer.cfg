SPECIFICATION Spec
CONSTANTS
    PipeCapacity = 1
    MaxBlocks <- MCMaxBlocks
    MaxNoise <- MCMaxNoise
CHECK_DEADLOCK FALSE
INVARIANTS
    TypeOK
    CompletedHoldsAllSent
    CancelWithinOneBuffer
PROPERTIES
    StoppedMeansEnded
    NoStreamDeadlock
    RefinesDelivery
