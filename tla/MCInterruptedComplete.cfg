SPECIFICATION Spec
CONSTANTS
    PipeCapacity = 1
    MaxBlocks <- MCMaxBlocks
    MaxNoise <- MCMaxNoise
CHECK_DEADLOCK FALSE
INVARIANT
    InterruptedNeverComplete
